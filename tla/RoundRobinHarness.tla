-------------------------- MODULE RoundRobinHarness --------------------------
(***************************************************************************)
(* The balancer under its test harness                                     *)
(* (src/src/balancer/roundrobinharness.rs): a script says of every target  *)
(* which status the cooldown handler answers and what the resolver and the *)
(* connector do, the calls are made one after the other, and the fakes log *)
(* what they are asked.                                                    *)
(*                                                                         *)
(* Targets are numbered as their addresses are, backend.example.com:0 and  *)
(* so on.  Every test has a configuration of its own with its targets      *)
(* behind PORT; here port n stands for PORT when there are n targets.      *)
(***************************************************************************)
EXTENDS RoundRobinBalancer, SequencesExt

CONSTANT Tests  \* the tests: a script, the ports called, what is asserted

CONNECT_TIMEOUT == 5

VARIABLES
    test,     \* the running test
    events,   \* RoundRobinHarness::events
    results,  \* what its calls have returned
    sock,     \* the address the running call has connected to
    elapsed   \* seconds the paused clock has advanced

testVars == <<test, events, results, sock, elapsed>>
allVars  == <<vars, testVars>>

-----------------------------------------------------------------------------
(* BackendScript: a CooldownSpec and a ConnectSpec.                        *)

Success(bad_socket_cnt) == [spec |-> "Success", bad |-> bad_socket_cnt]
SockFail(bad_socket_cnt) == [spec |-> "SockFail", bad |-> bad_socket_cnt]
ResolveError(e) == [spec |-> e, bad |-> 0]
Fail == [spec |-> "Fail", bad |-> 0]
Timeout == [spec |-> "Timeout", bad |-> 0]
NoConnection == [spec |-> "NoConnection", bad |-> 0]

BackendScript(cooldown, connect) == [cooldown |-> cooldown, connect |-> connect]

Script(t) == test.script[t + 1]

\* A result: ConnectedBackendData, or an error.
Ok(target_id, instance) == <<"Ok", target_id, instance>>
Err(e) == <<e>>

\* The scripted sockets of a target, by what their ports make the connector
\* do.
Socks(connect) ==
    LET bad == [i \in 1 .. connect.bad |-> "SOCK_FAIL"] IN
    CASE connect.spec = "Success"  -> Append(bad, "SOCK_GOOD")
      [] connect.spec = "SockFail" -> bad
      [] connect.spec = "Fail"     -> <<"SOCK_CONNECT_ERR">>
      [] connect.spec = "Timeout"  -> <<"SOCK_TIMEOUT">>

Scripted(connect) == connect.spec \in {"Success", "SockFail", "Fail", "Timeout"}

\* The error the resolver is scripted to return.
ResolveErrors == [Nx |-> "DnsNxError", Transient |-> "DnsTransientError",
                  Fatal |-> "ProxyStateError"]

\* Cooling { until }, the instant being later than any the test lives to.
FakeStatus(cooldown) ==
    CASE cooldown = "Cooling" -> Alive(MaxClock + COOLDOWN)
      [] cooldown = "Drain"   -> Drain
      [] OTHER                -> Alive(None)

HarnessInit ==
    /\ test \in Tests
    /\ clock = 0
    /\ target_status = [t \in Targets |->
                          IF t < Len(test.script) THEN FakeStatus(Script(t).cooldown)
                                                  ELSE Alive(None)]
    /\ report = [c \in Callers |-> NoReport]
    /\ rr_counter = [p \in DOMAIN Pools |-> 0]
    /\ call = [c \in Callers |-> NoCall]
    /\ events = <<>> /\ results = <<>> /\ sock = <<>> /\ elapsed = 0

-----------------------------------------------------------------------------
Push(kind, data) == events' = Append(events, <<kind, data>>)

Finished == Len(results) = Len(test.calls)

ConnectBackend(c) ==
    /\ ~Finished
    /\ LET p == test.calls[Len(results) + 1] IN CallUnserved(c, p) \/ Call(c, p)
    /\ UNCHANGED testVars

\* The `?` on get_target_status.
ScanFail(c) ==
    /\ call' = [call EXCEPT ![c].pc = "done", ![c].outcome = "BackendNotFound"]
    /\ UNCHANGED <<handlerVars, rr_counter>>

\* FakeCooldown::get_target_status
GetTargetStatus(c) ==
    /\ Scanning(call[c])
    /\ LET t == TargetAt(call[c], call[c].i) IN
         /\ Push("status", t)
         /\ IF Script(t).cooldown = "Fail"
            THEN ScanFail(c)
            ELSE LoadStatus(c)
    /\ UNCHANGED <<test, results, sock, elapsed>>

\* FakeCooldown::report_connection_attempt only logs.
FakeReport(c) ==
    /\ report[c].at = "load"
    /\ Push("report", <<report[c].target, report[c].result>>)
    /\ ReportReturn(c)
    /\ UNCHANGED <<clock, target_status, rr_counter, call, test, results, sock, elapsed>>

\* FakeResolver::lookup_host
FakeLookup(c) ==
    /\ call[c].pc = "resolve"
    /\ LET t == Current(call[c])
           connect == Script(t).connect
       IN /\ Push("resolve", t)
          /\ \/ Scripted(connect) /\ ResolveOk(c, Len(Socks(connect)))
             \/ /\ connect.spec \in DOMAIN ResolveErrors
                /\ LET e == ResolveErrors[connect.spec] IN ResolveFail(c, e) \/ ResolveFatal(c, e)
    /\ UNCHANGED <<test, results, sock, elapsed>>

\* It panics for a target without a script, and the test fails.
FakeLookupPanics(c) ==
    /\ call[c].pc = "resolve"
    /\ Script(Current(call[c])).connect.spec = "NoConnection"
    /\ Push("resolve", Current(call[c]))
    /\ results' = results \o [n \in 1 .. Len(test.calls) - Len(results) |-> Err("panic")]
    /\ call' = [call EXCEPT ![c] = NoCall]
    /\ UNCHANGED <<handlerVars, rr_counter, test, sock, elapsed>>

\* FakeConnector::connect, for the next address of the target.
FakeDial(c) ==
    /\ call[c].pc = "dial" /\ call[c].addrs > 0
    /\ LET t == Current(call[c])
           socks == Socks(Script(t).connect)
           instance == Len(socks) - call[c].addrs
           port == socks[instance + 1]
       IN /\ Push("connect", <<t, instance>>)
          /\ IF port = "SOCK_GOOD" THEN DialOk(c) /\ sock' = Ok(t, instance)
                                   ELSE DialFail(c) /\ UNCHANGED sock
          /\ elapsed' = IF port = "SOCK_TIMEOUT" THEN elapsed + CONNECT_TIMEOUT ELSE elapsed
    /\ UNCHANGED <<test, results>>

\* connect_backend returns to the test.
Returned(c) ==
    /\ Return(c)
    /\ results' = Append(results, IF call[c].outcome = "Ready" THEN sock ELSE Err(call[c].outcome))
    /\ UNCHANGED <<test, events, sock, elapsed>>

CallerStep(c) ==
    \/ ConnectBackend(c) \/ GetTargetStatus(c) \/ FakeReport(c)
    \/ FakeLookup(c) \/ FakeLookupPanics(c) \/ FakeDial(c) \/ Returned(c)
    \/ /\ \/ ScanDrained(c) \/ ScanCooling(c) \/ ScanTry(c) \/ TryCooling(c) \/ GiveUp(c)
          \/ DialExhausted(c) \/ Ready(c) \/ TryNext(c)
       /\ UNCHANGED testVars

TestOver == Finished /\ UNCHANGED allVars

HarnessNext == (\E c \in Callers : CallerStep(c)) \/ TestOver

HarnessSpec == HarnessInit /\ [][HarnessNext]_allVars

\* events_where
Log(kind) == LET es == SelectSeq(events, LAMBDA e : e[1] = kind) IN
             [n \in 1 .. Len(es) |-> es[n][2]]

-----------------------------------------------------------------------------
(* What a call should do, without loops: it visits the alive targets in    *)
(* round-robin order up to the first whose status is an error, then, if    *)
(* there is none, the cooling ones, until one decides.                     *)

Rotated(n) == [i \in 1 .. Len(test.script) |-> (n + i - 2) % Len(test.script)]

\* The elements of s up to and including the first in S.
Upto(s, S) ==
    LET hit == {i \in 1 .. Len(s) : s[i] \in S} IN
    IF hit = {} THEN s ELSE SubSeq(s, 1, CHOOSE i \in hit : \A j \in hit : i <= j)

With(cooldown) == {t \in 0 .. Len(test.script) - 1 : Script(t).cooldown = cooldown}
Deciding == {t \in 0 .. Len(test.script) - 1 :
               Script(t).connect.spec \in {"Success", "Fatal", "NoConnection"}}

Visits(n) ==
    LET seen == Upto(Rotated(n), With("Fail"))
        alive == SelectSeq(seen, LAMBDA t : t \in With("Alive"))
        cooling == SelectSeq(seen, LAMBDA t : t \in With("Cooling"))
    IN Upto(IF With("Fail") = {} THEN alive \o cooling ELSE alive, Deciding)

Decider(n) == LET v == Visits(n) IN
              IF v = <<>> THEN {} ELSE {v[Len(v)]} \cap Deciding

Result(n) ==
    IF Decider(n) = {}
    THEN IF With("Fail") = {} THEN Err("ConnectionError") ELSE Err("BackendNotFound")
    ELSE LET t == CHOOSE t \in Decider(n) : TRUE IN
         [Success |-> Ok(t, Script(t).connect.bad), Fatal |-> Err("ProxyStateError"),
          NoConnection |-> Err("panic")][Script(t).connect.spec]

\* What the fakes are asked, by kind.
Asked(n, kind) ==
    LET v == Visits(n)
        Dials(t) == IF Scripted(Script(t).connect)
                    THEN [i \in 1 .. Len(Socks(Script(t).connect)) |-> <<t, i - 1>>] ELSE <<>>
        Reports(t) == IF t \notin Deciding THEN <<<<t, "Failure">>>>
                      ELSE IF Script(t).connect.spec = "Success" THEN <<<<t, "Success">>>> ELSE <<>>
    IN CASE kind = "status"  -> Upto(Rotated(n), With("Fail") \cup (Decider(n) \cap With("Alive")))
         [] kind = "resolve" -> v
         [] kind = "connect" -> FlattenSeq([i \in 1 .. Len(v) |-> Dials(v[i])])
         [] kind = "report"  -> FlattenSeq([i \in 1 .. Len(v) |-> Reports(v[i])])

\* The calls a test really makes: none follows a panic, and one for a port
\* without targets asks nothing.
Made == {n \in 1 .. Len(results) : \A m \in 1 .. n - 1 : results[m] # Err("panic")}

\* Whatever the script, and from whatever target a call starts, connect_backend
\* returns the result of that definition, and asks the cooldown handler, the
\* resolver and the connector exactly what it says and in that order: no
\* status, lookup, dial or report is missing, repeated or out of place.
FollowsScript ==
    Finished =>
      /\ \A n \in Made : results[n] =
           IF GetPool(test.calls[n]) = <<>> THEN Err("TargetResolutionError") ELSE Result(n)
      /\ \A kind \in {"status", "resolve", "connect", "report"} :
           Log(kind) = FlattenSeq([n \in 1 .. Cardinality(Made) |->
             IF GetPool(test.calls[n]) = <<>> THEN <<>> ELSE Asked(n, kind)])

\* What a test asserts.
Observed == [results |-> results, status |-> Log("status"), resolve |-> Log("resolve"),
             connect |-> Log("connect"), elapsed |-> elapsed]

\* Every assertion of every test of roundrobin.rs holds: it is a statement
\* about the balancer and not about how the test was run.
AssertionsHold == Finished => \A k \in DOMAIN test.expect : Observed[k] = test.expect[k]
=============================================================================
