--------------------------- MODULE RoundRobinTests ---------------------------
(***************************************************************************)
(* The tests of src/src/balancer/roundrobin.rs, with what each asserts,    *)
(* and every script of a small size.                                       *)
(***************************************************************************)
EXTENDS RoundRobinHarness

HarnessPools == [n \in 0 .. Cardinality(Targets) |-> [i \in 1 .. n |-> i - 1]]
Names == [t \in Targets |-> "name"]

Default == BackendScript("Alive", Success(0))

\* `calls` calls of PORT under a script, and the observations asserted.
Test(script, calls, expect) ==
    [script |-> script, calls |-> [n \in 1 .. calls |-> Len(script)], expect |-> expect]

backends_connect_in_order ==
    Test([n \in 1 .. 5 |-> Default], 5, [results |-> [n \in 1 .. 5 |-> Ok(n - 1, 0)]])

cooling_backends_connects_first_alive_in_rr_order ==
    LET cooling == BackendScript("Cooling", NoConnection) IN
    Test(<<cooling, cooling, Default, Default>>, 1,
         [results |-> <<Ok(2, 0)>>, status |-> <<0, 1, 2>>, resolve |-> <<2>>])

cooling_backends_skip_then_connect_in_order ==
    Test([n \in 1 .. 3 |-> BackendScript("Cooling", Success(0))], 3,
         [results |-> <<Ok(0, 0), Ok(1, 0), Ok(2, 0)>>,
          status |-> <<0, 1, 2, 1, 2, 0, 2, 0, 1>>])

no_targets_fails ==
    [script |-> <<>>, calls |-> <<9876>>, expect |-> [results |-> <<Err("TargetResolutionError")>>]]

empty_targets_fails ==
    Test(<<>>, 1, [results |-> <<Err("TargetResolutionError")>>])

all_backends_drained_fail ==
    Test([n \in 1 .. 5 |-> BackendScript("Drain", NoConnection)], 1,
         [results |-> <<Err("ConnectionError")>>])

cooldown_check_fail ==
    Test(<<BackendScript("Fail", NoConnection)>>, 1, [results |-> <<Err("BackendNotFound")>>])

skips_transient_dns_errors_connects ==
    Test(<<BackendScript("Alive", ResolveError("Transient")),
           BackendScript("Alive", ResolveError("Nx")), Default>>, 1,
         [results |-> <<Ok(2, 0)>>, status |-> <<0, 1, 2>>, resolve |-> <<0, 1, 2>>])

fatal_resolution_error_fails ==
    Test(<<BackendScript("Alive", ResolveError("Fatal"))>>, 1,
         [results |-> <<Err("ProxyStateError")>>])

connect_fails_second_has_fail_sockets_connects ==
    Test(<<BackendScript("Alive", Fail), BackendScript("Alive", Success(2))>>, 1,
         [results |-> <<Ok(1, 2)>>, connect |-> <<<<0, 0>>, <<1, 0>>, <<1, 1>>, <<1, 2>>>>])

first_all_socks_fail_second_connects ==
    Test(<<BackendScript("Alive", SockFail(2)), BackendScript("Alive", Success(0))>>, 1,
         [results |-> <<Ok(1, 0)>>, connect |-> <<<<0, 0>>, <<0, 1>>, <<1, 0>>>>])

connect_timeout_tries_next_backend ==
    Test(<<BackendScript("Alive", Timeout), Default>>, 1,
         [results |-> <<Ok(1, 0)>>, elapsed |-> 5, connect |-> <<<<0, 0>>, <<1, 0>>>>])

BalancerTests ==
    {backends_connect_in_order, cooling_backends_connects_first_alive_in_rr_order,
     cooling_backends_skip_then_connect_in_order, no_targets_fails, empty_targets_fails,
     all_backends_drained_fail, cooldown_check_fail, skips_transient_dns_errors_connects,
     fatal_resolution_error_fails, connect_fails_second_has_fail_sockets_connects,
     first_all_socks_fail_second_connects, connect_timeout_tries_next_backend}

\* Every script of one or two targets, and of three the ones that differ in
\* what the calls do; one call more than targets.
AllConnects == {Success(0), Success(1), SockFail(1), SockFail(2), Fail, Timeout, NoConnection}
               \cup {ResolveError(e) : e \in DOMAIN ResolveErrors}
AllScripts == {BackendScript(s, k) : s \in {"Alive", "Cooling", "Drain", "Fail"}, k \in AllConnects}
FewScripts == {BackendScript(s, k) : s \in {"Alive", "Cooling"},
                 k \in {Success(1), SockFail(2), ResolveError("Nx"), ResolveError("Fatal")}}
              \cup {BackendScript(s, NoConnection) : s \in {"Drain", "Fail"}}

EveryScript ==
    {Test(s, Len(s) + 1, <<>>) :
       s \in [1 .. 1 -> AllScripts] \cup [1 .. 2 -> AllScripts] \cup [1 .. 3 -> FewScripts]}

SmallTests == BalancerTests \cup EveryScript
=============================================================================
