------------------------------ MODULE ProxyTests ------------------------------
(***************************************************************************)
(* The tests of src/src/proxy.rs as scripts for ProxyHarness, and three    *)
(* that its list of missing tests (proxy.rs:638-642) names.                *)
(***************************************************************************)
EXTENDS ProxyHarness

PORT == 8080

Proxied == [op |-> "proxied", port |-> PORT]
AcceptFail(e) == [op |-> "accept_fail", port |-> PORT, error |-> e]
BackendConnectFail == [op |-> "backend_connect_fail", port |-> PORT]
NoBackend == [op |-> "no_backend", port |-> PORT]

Stream(s, n) == [side |-> s, n |-> n]
Cl(n) == Stream("client", n)
Be(n) == Stream("backend", n)

Drop(n) == [op |-> "shut", sides |-> {Cl(n), Be(n)}]
Shutdown(x) == [op |-> "shut", sides |-> {x}]
Writes(x) == [op |-> "write", from |-> x]
Reads(x) == [op |-> "reads", from |-> x]
Flows(x) == [op |-> "flows", from |-> x]
RoundTrip(n) == <<Flows(Cl(n)), Flows(Be(n))>>
IsIdle(x) == [op |-> "idle", stream |-> x]
Closed(x) == [op |-> "closed", stream |-> x]
Join(e) == [op |-> "join", error |-> e]
ShutdownAssertOk == <<[op |-> "cancel"], Join("none")>>

Limited(open, queued, steps) ==
    [max_connections |-> open, max_queue |-> queued, bind_failures |-> {}, steps |-> steps]
Script(steps) == Limited(10, 10, steps)

proxy_bytes_round_trip ==
    Script(<<Proxied>> \o RoundTrip(1) \o <<Drop(1)>> \o ShutdownAssertOk)

bind_fails_proxy_tears_down ==
    [Script(<<Join("BindError")>>) EXCEPT !.bind_failures = {PORT}]

accept_fails_permanent_proxy_tears_down ==
    Script(<<Proxied>> \o RoundTrip(1) \o
           <<AcceptFail("OtherIo"), Join("OtherIo"), Closed(Cl(1)), Closed(Be(1))>>)

accept_fails_transient_proxy_continues ==
    Script(<<AcceptFail("ConnectionRefused"), Proxied>> \o RoundTrip(1) \o
           <<Drop(1)>> \o ShutdownAssertOk)

at_max_connections_queue_available_accepts_proxies_on_active_close ==
    Limited(2, 2,
            <<Proxied, Proxied, Proxied, Proxied>> \o RoundTrip(1) \o RoundTrip(2) \o
            <<IsIdle(Cl(3)), IsIdle(Cl(4)), Drop(1), Flows(Cl(3)), IsIdle(Cl(4)), Flows(Cl(2)),
              Drop(2), Drop(3), Drop(4)>> \o ShutdownAssertOk)

at_max_connections_max_queue_drops_for_too_many_connections ==
    Limited(2, 1,
            <<Proxied, Proxied, Proxied, NoBackend>> \o RoundTrip(1) \o RoundTrip(2) \o
            <<IsIdle(Cl(3)), Closed(Cl(4)), Drop(1), Drop(2), Drop(3), Drop(4)>>
            \o ShutdownAssertOk)

backend_fails_proxy_continues ==
    Script(<<BackendConnectFail, Proxied, Closed(Cl(1))>> \o RoundTrip(2) \o
           <<Drop(1), Drop(2)>> \o ShutdownAssertOk)

connections_half_close_properly ==
    Script(<<Proxied, Writes(Cl(1)), Shutdown(Cl(1)), Reads(Cl(1)), Closed(Be(1)),
             Flows(Be(1)), Drop(1)>> \o ShutdownAssertOk)

\* "shutdown with open connections, clean drain"
shutdown_clean_drain ==
    Script(<<Proxied>> \o RoundTrip(1) \o <<[op |-> "cancel"], Drop(1), Join("none")>>)

\* "shutdown with open connections, forces close after limit"
shutdown_forces_close ==
    Limited(1, 2,
            <<Proxied, Proxied, Proxied, Flows(Cl(1)), IsIdle(Cl(2))>> \o ShutdownAssertOk \o
            <<Closed(Cl(1)), Closed(Be(1)), Closed(Cl(2)), Closed(Cl(3))>>)

\* "connection task panics, logs and continues": the proxy goes on accepting,
\* but the harness cannot serve that port any more, its mutex being poisoned.
connection_task_panics ==
    Script(<<NoBackend, Closed(Cl(1)), Proxied, Closed(Cl(2))>> \o ShutdownAssertOk)

AllTests ==
    {proxy_bytes_round_trip, bind_fails_proxy_tears_down,
     accept_fails_permanent_proxy_tears_down, accept_fails_transient_proxy_continues,
     at_max_connections_queue_available_accepts_proxies_on_active_close,
     at_max_connections_max_queue_drops_for_too_many_connections,
     backend_fails_proxy_continues, connections_half_close_properly,
     shutdown_clean_drain, shutdown_forces_close, connection_task_panics}
=============================================================================
