----------------------------- MODULE ProxyHarness -----------------------------
(***************************************************************************)
(* The proxy under its test harness (src/src/proxyharness.rs): a listener, *)
(* a balancer and a client side that a test drives through command         *)
(* channels, and the tests of src/src/proxy.rs as scripts of harness       *)
(* calls and assertions.                                                   *)
(*                                                                         *)
(* The server is ProxyServer, its tasks interleaved in every way except    *)
(* one: spawned tasks are polled for the first time in spawn order, as the *)
(* single-threaded runtime of the tests does.  The tests run with a paused *)
(* clock, so a timer fires only when no task can move.                     *)
(*                                                                         *)
(* A harness call makes at most one client and one backend; both carry the *)
(* number of the client, which is the connection's name.                   *)
(***************************************************************************)
EXTENDS ProxyServer

CONSTANT Tests  \* the tests: limits, ports whose bind fails, and the steps

ASSUME TestsAssumption ==
    \A t \in Tests : /\ t.bind_failures \subseteq Ports
                     /\ t.max_connections \in 0 .. MaxConnections /\ t.max_queue \in 0 .. MaxQueue
ASSUME NumberedAssumption == Conns = 1 .. Cardinality(Conns)

VARIABLES
    test,              \* the running test
    at,                \* its next step
    acked,             \* the last accept command has been taken
    client_ctr,        \* clients made so far
    accept_commands,   \* per port, commands for FakeListener::accept
    connect_commands,  \* per port, commands for FakeLoadBalancer
    poisoned,          \* ports whose connect_commands a task has panicked over
    backend,           \* the backend each connection was given, or 0
    written,           \* test sides whose bytes have not been read yet
    shut,              \* test sides that will write no more
    unpolled           \* spawned tasks not yet polled, in spawn order

testVars    == <<test, at, client_ctr, written, shut>>
fakeVars    == <<acked, accept_commands, connect_commands, poisoned, backend, unpolled>>
harnessVars == <<testVars, fakeVars>>
allVars     == <<vars, harnessVars>>

HarnessInit ==
    /\ test \in Tests
    /\ New(test.max_connections, test.max_queue)
    /\ at = 1
    /\ acked = TRUE
    /\ client_ctr = 0
    /\ accept_commands = [p \in Ports |-> <<>>]
    /\ connect_commands = [p \in Ports |-> <<>>]
    /\ poisoned = {}
    /\ backend = [c \in Conns |-> 0]
    /\ written = {} /\ shut = {}
    /\ unpolled = <<>>

-----------------------------------------------------------------------------
(* The fakes.                                                              *)

FakeBind(p) ==
    /\ IF p \in test.bind_failures THEN BindFail(p, "IoError") ELSE BindOk(p)
    /\ UNCHANGED harnessVars

\* A task is spawned, or polled for the first time.
Spawned(c) == unpolled' = Append(unpolled, c)
FirstPoll(c) == unpolled # <<>> /\ Head(unpolled) = c /\ unpolled' = Tail(unpolled)
IsUnpolled(c) == \E n \in 1 .. Len(unpolled) : unpolled[n] = c

\* Mutant: the ack is forgotten.
FakeAcceptNoAck(p) ==
    /\ accept_commands[p] # <<>>
    /\ LET cmd == Head(accept_commands[p]) IN
       \/ cmd.kind = "error" /\ AcceptError(p, cmd.error) /\ UNCHANGED unpolled
       \/ cmd.kind = "client" /\ AcceptSpawn(p, cmd.client) /\ Spawned(cmd.client)
       \/ cmd.kind = "client" /\ AcceptFull(p, cmd.client) /\ UNCHANGED unpolled
    /\ accept_commands' = [accept_commands EXCEPT ![p] = Tail(@)]
    /\ UNCHANGED <<acked, testVars, connect_commands, poisoned, backend>>

\* FakeListener::accept takes a command, acks it and returns its result to
\* accept_connection.
FakeAccept(p) ==
    /\ accept_commands[p] # <<>>
    /\ LET cmd == Head(accept_commands[p]) IN
       \/ cmd.kind = "error" /\ AcceptError(p, cmd.error) /\ UNCHANGED unpolled
       \/ cmd.kind = "client" /\ AcceptSpawn(p, cmd.client) /\ Spawned(cmd.client)
       \/ cmd.kind = "client" /\ AcceptFull(p, cmd.client) /\ UNCHANGED unpolled
    /\ accept_commands' = [accept_commands EXCEPT ![p] = Tail(@)]
    /\ acked' = TRUE
    /\ UNCHANGED <<testVars, connect_commands, poisoned, backend>>

\* FakeLoadBalancer::connect_backend is polled in the task of c.
ConnectPolled(p, c) ==
    /\ task[c] = "connecting" /\ c \in connections[p]
    /\ IF IsUnpolled(c) THEN FirstPoll(c) ELSE UNCHANGED unpolled

\* Mutant: the newest command is taken.
FakeConnectLast(p, c) ==
    /\ ConnectPolled(p, c)
    /\ p \notin poisoned /\ connect_commands[p] # <<>>
    /\ LET n == Len(connect_commands[p])
           b == connect_commands[p][n] IN
         /\ ConnectDone(c, IF b > 0 THEN "copying" ELSE "closing")
         /\ backend' = [backend EXCEPT ![c] = b]
         /\ connect_commands' = [connect_commands EXCEPT ![p] = SubSeq(@, 1, n - 1)]
    /\ UNCHANGED <<testVars, acked, accept_commands, poisoned>>

\* It locks the port's commands and takes the oldest: a backend, or (0) an
\* error.
FakeConnect(p, c) ==
    /\ ConnectPolled(p, c)
    /\ p \notin poisoned /\ connect_commands[p] # <<>>
    /\ LET b == Head(connect_commands[p]) IN
         /\ ConnectDone(c, IF b > 0 THEN "copying" ELSE "closing")
         /\ backend' = [backend EXCEPT ![c] = b]
    /\ connect_commands' = [connect_commands EXCEPT ![p] = Tail(@)]
    /\ UNCHANGED <<testVars, acked, accept_commands, poisoned>>

\* It panics when there is none, and as the match holds the guard the mutex
\* is poisoned: every later call for the port panics on the lock itself.
FakeConnectPanics(p, c) ==
    /\ ConnectPolled(p, c)
    /\ p \in poisoned \/ connect_commands[p] = <<>>
    /\ poisoned' = poisoned \cup {p}
    /\ TaskPanic(c)
    /\ UNCHANGED <<testVars, acked, accept_commands, connect_commands, backend>>

-----------------------------------------------------------------------------
(* The server between the fakes.                                           *)

\* The two test sides of a connection, and the end of its copy: both sides
\* have stopped writing.
Sides(c) == {[side |-> "client", n |-> c], [side |-> "backend", n |-> backend[c]]}

CopyOver(c) == Sides(c) \subseteq shut /\ CopyEnd(c)

ServerStep ==
    \/ /\ \/ Serve \/ Return
          \/ \E p \in Ports : JoinListener(p) \/ Reap(p) \/ Stop(p) \/ Drained(p)
          \/ \E p \in Ports, c \in Conns : Reject(p, c) \/ JoinNext(p, c)
          \/ \E c \in Conns : StartGranted(c) \/ CopyOver(c) \/ Finish(c) \/ DropAcquire(c)
       /\ UNCHANGED harnessVars
    \/ /\ \/ \E p \in Ports, c \in Conns : Enqueue(p, c) /\ Spawned(c)
          \/ \E c \in Conns : PollAcquire(c) /\ FirstPoll(c)
          \/ \E c \in Conns : DropAborted(c) /\ unpolled' = SelectSeq(unpolled, LAMBDA d : d # c)
       /\ UNCHANGED <<testVars, acked, accept_commands, connect_commands, poisoned, backend>>

Move ==
    \/ ServerStep
    \/ \E p \in Ports : FakeBind(p) \/ FakeAccept(p)
    \/ \E p \in Ports, c \in Conns : FakeConnect(p, c) \/ FakeConnectPanics(p, c)

\* No task of the proxy can move: the paused clock may advance.
Idle == ~ENABLED Move

-----------------------------------------------------------------------------
(* The harness as a test calls it.                                         *)

Running == at <= Len(test.steps)
Step    == test.steps[at]
Advance == at' = at + 1 /\ UNCHANGED <<test, vars>>

Client(c) == [kind |-> "client", client |-> c]

\* proxied, backend_connect_fail, no_backend and accept_fail send their
\* commands, the one for the balancer first, and await the ack.
Send ==
    /\ Running /\ acked
    /\ Step.op \in {"proxied", "backend_connect_fail", "no_backend", "accept_fail"}
    /\ Step.port \in Ports \ test.bind_failures
    /\ LET c == client_ctr + 1 IN
       IF Step.op = "accept_fail"
       THEN /\ accept_commands' = [accept_commands EXCEPT ![Step.port] =
                                     Append(@, [kind |-> "error", error |-> Step.error])]
            /\ UNCHANGED <<client_ctr, connect_commands>>
       ELSE /\ client_ctr' = c
            /\ accept_commands' = [accept_commands EXCEPT ![Step.port] = Append(@, Client(c))]
            /\ connect_commands' = [connect_commands EXCEPT ![Step.port] =
                 @ \o [proxied |-> <<c>>, backend_connect_fail |-> <<0>>,
                       no_backend |-> <<>>][Step.op]]
    /\ acked' = FALSE
    /\ Advance
    /\ UNCHANGED <<written, shut, poisoned, backend, unpolled>>

\* write_all on a stream: the bytes stay in it until they are read.
Write ==
    /\ Running /\ acked
    /\ Step.op = "write" /\ Step.from \notin shut
    /\ written' = written \cup {Step.from}
    /\ Advance
    /\ UNCHANGED <<fakeVars, client_ctr, shut>>

\* drop(client) and drop(backend), or client.shutdown() alone.
Shut ==
    /\ Running /\ acked
    /\ Step.op = "shut"
    /\ shut' = shut \cup Step.sides
    /\ Advance
    /\ UNCHANGED <<fakeVars, client_ctr, written>>

Cancel ==
    /\ Running /\ acked
    /\ Step.op = "cancel"
    /\ Signal
    /\ at' = at + 1
    /\ UNCHANGED <<test, client_ctr, written, shut, fakeVars>>

\* The connection that holds the other end of a stream, if any; an accept
\* command still to be taken holds the client's.
Pending(x) == x.side = "client" /\ \E p \in Ports :
                \E i \in 1 .. Len(accept_commands[p]) : accept_commands[p][i] = Client(x.n)
Holder(x) == {c \in Conns : x \in Sides(c) /\ task[c] \in Live \cup {"offered"}}

\* A read of the stream returns 0: the other end has been dropped, or the
\* peer it is copied from writes no more and what it wrote has been read.
ReadsEof(x) ==
    /\ ~Pending(x)
    /\ \A c \in Holder(x) : task[c] = "copying" /\ Sides(c) \ {x} \subseteq shut \ written

\* What is written to the stream arrives at the peer the test holds.
Copied(x) == task[x.n] = "copying" /\ backend[x.n] = x.n

\* What the test waits for: assert_proxied_bytes, assert_read_bytes,
\* assert_connection_closed, assert_connection_open_idle with
\* assert_no_proxied_bytes, and join.
Satisfied ==
    CASE Step.op = "flows"  -> Copied(Step.from) /\ Step.from \notin shut
      [] Step.op = "reads"  -> Copied(Step.from) /\ Step.from \in written
      [] Step.op = "closed" -> ReadsEof(Step.stream)
      [] Step.op = "idle"   -> /\ ~ReadsEof(Step.stream)
                               /\ \A c \in Holder(Step.stream) : task[c] # "copying"
      [] Step.op = "join"   -> run_pc = "returned" /\ first_error = Step.error
      [] OTHER -> acked

\* await_ack and the assertions wait until the clock advances, join until the
\* server is done.
Expired == IF Step.op = "join"
           THEN run_pc = "returned" \/ (Idle /\ \A p \in Ports : listener[p] # "drain")
           ELSE Idle

Assert ==
    /\ Running /\ acked
    /\ Step.op \in {"flows", "reads", "closed", "idle", "join"}
    /\ Satisfied
    /\ Step.op = "idle" => Idle
    /\ written' = IF Step.op = "reads" THEN written \ {Step.from} ELSE written
    /\ Advance
    /\ UNCHANGED <<client_ctr, shut, fakeVars>>

\* The drain's deadline passes when the test, too, has nothing to do but wait.
DeadlinePasses ==
    /\ Running /\ acked /\ Step.op = "join" /\ Idle
    /\ \E p \in Ports : DrainDeadline(p)
    /\ UNCHANGED harnessVars

HarnessNext == Move \/ Send \/ Write \/ Shut \/ Cancel \/ Assert \/ DeadlinePasses

\* Some task that can move is polled.
HarnessSpec == HarnessInit /\ [][HarnessNext]_allVars /\ WF_allVars(HarnessNext)

-----------------------------------------------------------------------------
\* Every assertion of every test holds when its time is up, in whatever order
\* the proxy's tasks run: the outcome of a test does not depend on it.
TestsPass == Running /\ Expired => Satisfied

\* The streams a harness call returns belong together: no client is ever
\* joined to the backend of another call.
StreamsAligned == \A c \in Conns : backend[c] \in {0, c}

\* Every test runs to its end, its last step being a join: the proxy always
\* stops.
TestsEnd == <>(~Running)
=============================================================================
