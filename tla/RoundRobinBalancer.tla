------------------------- MODULE RoundRobinBalancer -------------------------
(***************************************************************************)
(* RoundRobinBalancer::connect_backend (src/src/balancer/roundrobin.rs),   *)
(* called by any number of connection tasks at once, together with the     *)
(* cooldown handler it reads and reports to.                               *)
(*                                                                         *)
(* A call takes a ticket from the port's counter and goes through the pool *)
(* from there.  It skips drained targets, puts cooling ones aside and      *)
(* tries the others; then it tries those put aside.  A position of a call  *)
(* is the distance from its start: 0 is the target it starts with.         *)
(*                                                                         *)
(* The first pass loads a status in one step and acts on what it loaded in *)
(* the next: reports of other calls and a drain can fall in between.       *)
(***************************************************************************)
EXTENDS SimpleCooldownHandler, Sequences

CONSTANTS
    Pools,     \* ProxyConfig: the sequence of targets of each port
    ForPorts,  \* the ports connect_backend is called for
    AddrForm,  \* how the configuration writes the address of each target
    UsizeMod,  \* 2^64 in the program: where a counter wraps
    MaxAddrs   \* bound of the model: addresses a lookup returns

ASSUME PoolsAssumption == \A p \in DOMAIN Pools : Pools[p] \in Seq(Targets)

\* A Vec holds fewer than half as many elements as a usize has values.
ASSUME UsizeAssumption ==
    /\ UsizeMod \in Nat \ {0}
    /\ \A p \in DOMAIN Pools : 2 * Len(Pools[p]) <= UsizeMod + 1
ASSUME AddrsAssumption == MaxAddrs \in Nat \ {0}
ASSUME FormAssumption == AddrForm \in [Targets -> {"socket", "name", "bad"}]

VARIABLES
    rr_counter,  \* port_to_rr_counter
    call         \* the connect_backend call each caller is in

vars == <<handlerVars, rr_counter, call>>

\* get_pool(p), an unknown port's pool being empty like one with no targets.
GetPool(p) == IF p \in DOMAIN Pools THEN Pools[p] ELSE <<>>

(***************************************************************************)
(* A call: its argument, where in the pool it started, how many positions  *)
(* the first pass is done with, the status loaded for the next one (while  *)
(* pc is "match"), the positions put aside, the addresses of the current   *)
(* target not yet dialled, and what it returned.  attempts and drained     *)
(* record the positions tried, in order, and skipped as drained.           *)
(***************************************************************************)
NoCall == [pc |-> "idle", backends |-> <<>>, start_idx |-> 0, i |-> 0, status |-> Drain,
           cooling |-> <<>>, addrs |-> 0, outcome |-> "none",
           attempts |-> <<>>, drained |-> {}]

PCs == {"idle", "scan", "match", "resolve", "dial", "ready", "trynext", "done"}
DnsErrors == {"DnsNxError", "DnsTransientError"}
FatalErrors == {"BadAddressError", "ProxyStateError", "BackendNotFound"}
Outcomes == {"none", "Ready", "TargetResolutionError", "ConnectionError"} \cup FatalErrors

CallType ==
    [pc : PCs, backends : Seq(Targets), start_idx : Nat, i : Nat, status : BackendStatus,
     cooling : Seq(Nat), addrs : 0 .. MaxAddrs, outcome : Outcomes,
     attempts : Seq(Nat), drained : SUBSET Nat]

Elems(s) == {s[n] : n \in 1 .. Len(s)}

\* The positions a call has tried, skipped or put aside; with its start they
\* lie within its pool.
Covered(k) == Elems(k.attempts) \cup k.drained \cup Elems(k.cooling)

InPool(k) ==
    /\ k.backends # <<>> => k.start_idx < Len(k.backends)
    /\ k.i <= Len(k.backends)
    /\ Covered(k) \subseteq 0 .. k.i - 1

TypeOK ==
    /\ HandlerTypeOK
    /\ rr_counter \in [DOMAIN Pools -> 0 .. UsizeMod - 1]
    /\ call \in [Callers -> CallType]
    /\ \A c \in Callers : InPool(call[c])

\* The target at a position of a call (the sum is one of usize, which a
\* release build lets wrap), and the one the call is trying.
IndexAt(k, n) == (((k.start_idx + n) % UsizeMod) % Len(k.backends)) + 1
TargetAt(k, n) == k.backends[IndexAt(k, n)]
Current(k) == TargetAt(k, k.attempts[Len(k.attempts)])

Init ==
    /\ HandlerInit
    /\ rr_counter = [p \in DOMAIN Pools |-> 0]
    /\ call = [c \in Callers |-> NoCall]

-----------------------------------------------------------------------------
\* connect_backend(p): no pool, or an empty one, is an error.
CallUnserved(c, p) ==
    /\ call[c].pc = "idle"
    /\ GetPool(p) = <<>>
    /\ call' = [call EXCEPT ![c].pc = "done", ![c].outcome = "TargetResolutionError"]
    /\ UNCHANGED <<handlerVars, rr_counter>>

\* Mutant: the ticket itself is the start, the index being reduced anyway.
CallNoModulo(c, p) ==
    /\ call[c].pc = "idle"
    /\ GetPool(p) # <<>>
    /\ call' = [call EXCEPT ![c].pc = "scan", ![c].backends = GetPool(p),
                            ![c].start_idx = rr_counter[p]]
    /\ rr_counter' = [rr_counter EXCEPT ![p] = (@ + 1) % UsizeMod]
    /\ UNCHANGED handlerVars

\* Otherwise fetch_add gives the start, and the counter wraps.
Call(c, p) ==
    /\ call[c].pc = "idle"
    /\ GetPool(p) # <<>>
    /\ call' = [call EXCEPT ![c].pc = "scan", ![c].backends = GetPool(p),
                            ![c].start_idx = rr_counter[p] % Len(GetPool(p))]
    /\ rr_counter' = [rr_counter EXCEPT ![p] = (@ + 1) % UsizeMod]
    /\ UNCHANGED handlerVars

\* get_target_status: the first pass loads the status of the next target.
Scanning(k) == k.pc = "scan" /\ k.i < Len(k.backends)

LoadStatus(c) ==
    /\ Scanning(call[c])
    /\ call' = [call EXCEPT ![c].pc = "match",
                            ![c].status = target_status[TargetAt(call[c], call[c].i)]]
    /\ UNCHANGED <<handlerVars, rr_counter>>

\* It acts on the status it has loaded, whatever the status is by now.
ScanDrained(c) ==
    /\ call[c].pc = "match"
    /\ call[c].status.kind = "Drain"
    /\ call' = [call EXCEPT ![c].pc = "scan", ![c].i = @ + 1, ![c].status = Drain,
                            ![c].drained = @ \cup {call[c].i}]
    /\ UNCHANGED <<handlerVars, rr_counter>>

\* Mutant: a cooling target is skipped for good.
ScanCoolingDrops(c) ==
    /\ call[c].pc = "match"
    /\ Cooling(call[c].status)
    /\ call' = [call EXCEPT ![c].pc = "scan", ![c].i = @ + 1, ![c].status = Drain]
    /\ UNCHANGED <<handlerVars, rr_counter>>

ScanCooling(c) ==
    /\ call[c].pc = "match"
    /\ Cooling(call[c].status)
    /\ call' = [call EXCEPT ![c].pc = "scan", ![c].i = @ + 1, ![c].status = Drain,
                            ![c].cooling = Append(@, call[c].i)]
    /\ UNCHANGED <<handlerVars, rr_counter>>

\* Mutant: the arm of a drained target lacks its `continue`.
ScanTryAny(c) ==
    /\ call[c].pc = "match"
    /\ ~Cooling(call[c].status)
    /\ call' = [call EXCEPT ![c].pc = "resolve", ![c].i = @ + 1, ![c].status = Drain,
                            ![c].attempts = Append(@, call[c].i)]
    /\ UNCHANGED <<handlerVars, rr_counter>>

ScanTry(c) ==
    /\ call[c].pc = "match"
    /\ call[c].status.kind = "Alive"
    /\ ~Cooling(call[c].status)
    /\ call' = [call EXCEPT ![c].pc = "resolve", ![c].i = @ + 1, ![c].status = Drain,
                            ![c].attempts = Append(@, call[c].i)]
    /\ UNCHANGED <<handlerVars, rr_counter>>

\* Mutant: the second pass does not move on.
TryCoolingStays(c) ==
    /\ call[c].pc = "scan"
    /\ call[c].i = Len(call[c].backends)
    /\ call[c].cooling # <<>>
    /\ Len(call[c].attempts) <= Len(call[c].backends)
    /\ call' = [call EXCEPT ![c].pc = "resolve",
                            ![c].attempts = Append(@, Head(call[c].cooling))]
    /\ UNCHANGED <<handlerVars, rr_counter>>

\* The second pass tries what was put aside and looks at no status.
TryCooling(c) ==
    /\ call[c].pc = "scan"
    /\ call[c].i = Len(call[c].backends)
    /\ call[c].cooling # <<>>
    /\ call' = [call EXCEPT ![c].pc = "resolve", ![c].cooling = Tail(@),
                            ![c].attempts = Append(@, Head(call[c].cooling))]
    /\ UNCHANGED <<handlerVars, rr_counter>>

GiveUp(c) ==
    /\ call[c].pc = "scan"
    /\ call[c].i = Len(call[c].backends)
    /\ call[c].cooling = <<>>
    /\ call' = [call EXCEPT ![c].pc = "done", ![c].outcome = "ConnectionError"]
    /\ UNCHANGED <<handlerVars, rr_counter>>

-----------------------------------------------------------------------------
(* connect: resolve the target, dial its addresses, report.                *)

\* lookup_host answers with n addresses.
ResolveOk(c, n) ==
    /\ call[c].pc = "resolve"
    /\ call' = [call EXCEPT ![c].pc = "dial", ![c].addrs = n]
    /\ UNCHANGED <<handlerVars, rr_counter>>

\* DnsNxError or DnsTransientError: report a failure, try the next target.
ResolveFail(c, e) ==
    /\ call[c].pc = "resolve"
    /\ e \in DnsErrors
    /\ call' = [call EXCEPT ![c].pc = "trynext"]
    /\ ReportCall(c, Current(call[c]), "Failure")
    /\ UNCHANGED <<clock, target_status, rr_counter>>

\* Mutant: any error of the lookup is a failure of the target.
ResolveFatalGoesOn(c, e) ==
    /\ call[c].pc = "resolve"
    /\ e \in FatalErrors
    /\ call' = [call EXCEPT ![c].pc = "trynext"]
    /\ ReportCall(c, Current(call[c]), "Failure")
    /\ UNCHANGED <<clock, target_status, rr_counter>>

\* Any other error of the lookup ends the call, and nothing is reported.
ResolveFatal(c, e) ==
    /\ call[c].pc = "resolve"
    /\ e \in FatalErrors
    /\ call' = [call EXCEPT ![c].pc = "done", ![c].outcome = e]
    /\ UNCHANGED <<handlerVars, rr_counter>>

\* HickoryTokioResolver::lookup_host: a socket address stands for itself, a
\* name with a port is looked up, anything else is refused.
LookupSizes(t) ==
    [socket |-> {1}, name |-> 0 .. MaxAddrs, bad |-> {}][AddrForm[t]]

\* A NetError is the absence of the name or of records for it, or transient.
FromNetError(e) ==
    IF e \in {"nx_domain", "no_records_found"} THEN "DnsNxError" ELSE "DnsTransientError"

LookupErrors(t) ==
    [socket |-> {}, bad |-> {"BadAddressError"},
     name |-> {FromNetError(e) : e \in {"nx_domain", "no_records_found", "other"}}][AddrForm[t]]

LookupHost(c) ==
    /\ call[c].pc = "resolve"
    /\ \/ \E n \in LookupSizes(Current(call[c])) : ResolveOk(c, n)
       \/ \E e \in LookupErrors(Current(call[c])) : ResolveFail(c, e) \/ ResolveFatal(c, e)

DialOk(c) ==
    /\ call[c].pc = "dial"
    /\ call[c].addrs > 0
    /\ call' = [call EXCEPT ![c].pc = "ready", ![c].addrs = 0]
    /\ ReportCall(c, Current(call[c]), "Success")
    /\ UNCHANGED <<clock, target_status, rr_counter>>

\* The connect fails, or CONNECT_TIMEOUT passes: the next address.
DialFail(c) ==
    /\ call[c].pc = "dial"
    /\ call[c].addrs > 0
    /\ call' = [call EXCEPT ![c].addrs = @ - 1]
    /\ UNCHANGED <<handlerVars, rr_counter>>

\* Mutant: the failure is written straight to the status.
DialExhaustedStores(c) ==
    /\ call[c].pc = "dial"
    /\ call[c].addrs = 0
    /\ call' = [call EXCEPT ![c].pc = "trynext"]
    /\ target_status' = [target_status EXCEPT ![Current(call[c])] = Alive(clock + COOLDOWN)]
    /\ UNCHANGED <<clock, report, rr_counter>>

DialExhausted(c) ==
    /\ call[c].pc = "dial"
    /\ call[c].addrs = 0
    /\ call' = [call EXCEPT ![c].pc = "trynext"]
    /\ ReportCall(c, Current(call[c]), "Failure")
    /\ UNCHANGED <<clock, target_status, rr_counter>>

\* The report has returned: ConnectAttempt::Ready or ConnectAttempt::TryNext.
Ready(c) ==
    /\ call[c].pc = "ready"
    /\ report[c].at = "idle"
    /\ call' = [call EXCEPT ![c].pc = "done", ![c].outcome = "Ready"]
    /\ UNCHANGED <<handlerVars, rr_counter>>

\* Mutant: the same target is tried until it answers.
TryNextSame(c) ==
    /\ call[c].pc = "trynext"
    /\ report[c].at = "idle"
    /\ call' = [call EXCEPT ![c].pc = "resolve"]
    /\ UNCHANGED <<handlerVars, rr_counter>>

TryNext(c) ==
    /\ call[c].pc = "trynext"
    /\ report[c].at = "idle"
    /\ call' = [call EXCEPT ![c].pc = "scan"]
    /\ UNCHANGED <<handlerVars, rr_counter>>

\* The caller takes the result.
Return(c) ==
    /\ call[c].pc = "done"
    /\ call' = [call EXCEPT ![c] = NoCall]
    /\ UNCHANGED <<handlerVars, rr_counter>>

\* The runtime drops the caller's task, and the call with it, at an await: a
\* lookup that asks the name service, or a connect.
Awaiting(k) ==
    \/ k.pc = "resolve" /\ AddrForm[Current(k)] = "name"
    \/ k.pc = "dial" /\ k.addrs > 0

DropCall(c) ==
    /\ Awaiting(call[c])
    /\ call' = [call EXCEPT ![c] = NoCall]
    /\ UNCHANGED <<handlerVars, rr_counter>>

-----------------------------------------------------------------------------
CallStep(c) ==
    \/ LoadStatus(c) \/ ScanDrained(c) \/ ScanCooling(c) \/ ScanTry(c)
    \/ TryCooling(c) \/ GiveUp(c)
    \/ LookupHost(c) \/ DialOk(c) \/ DialFail(c) \/ DialExhausted(c)
    \/ Ready(c) \/ TryNext(c) \/ Return(c)
    \/ ReportStep(c) /\ UNCHANGED <<rr_counter, call>>

Next ==
    \/ \E c \in Callers : CallStep(c) \/ DropCall(c)
    \/ \E c \in Callers, p \in ForPorts : CallUnserved(c, p) \/ Call(c, p)
    \/ (Tick \/ \E t \in Targets : DrainTarget(t)) /\ UNCHANGED <<rr_counter, call>>

Spec == Init /\ [][Next]_vars

\* A call that has begun goes on: lookups answer, connects end at the latest
\* with CONNECT_TIMEOUT.
FairSpec == Spec /\ \A c \in Callers : WF_vars(CallStep(c))

-----------------------------------------------------------------------------
\* A call returns ConnectionError only when every entry of its pool was tried
\* and failed in that very call, or was seen drained, whatever other calls did
\* to the cooldowns meanwhile and wherever the counter, about to wrap, made it
\* start.
SearchComplete ==
    \A c \in Callers : call[c].outcome = "ConnectionError" =>
      \A j \in 1 .. Len(call[c].backends) :
        \E n \in Elems(call[c].attempts) \cup call[c].drained : IndexAt(call[c], n) = j

\* Whatever the calls do to the statuses they do through the handler's
\* operations, one report per caller at a time: the composition implements
\* the specification of the cooldown handler.
HandlerRespected == HandlerSpec

\* A call tries no position twice, and in round-robin order: first those that
\* were not cooling, then, starting over, those that were.
RoundRobinOrder ==
    \A c \in Callers :
      LET a == call[c].attempts
          Down(n) == n + 1 \in 1 .. Len(a) /\ a[n + 1] < a[n]
      IN /\ \A m, n \in 1 .. Len(a) : a[m] = a[n] => m = n
         /\ \A m, n \in 1 .. Len(a) : Down(m) /\ Down(n) => m = n

\* A target whose address is not one is never put into cooldown, and a call
\* that reaches it ends there, with BadAddressError and only then, however
\* healthy the rest of the pool: the lookup's fatal error is not a failure of
\* the target.
BadAddressEndsCall ==
    /\ \A t \in Targets : AddrForm[t] = "bad" => target_status[t] \in {Alive(None), Drain}
    /\ \A c \in Callers :
         LET k == call[c]
             Bad(m) == AddrForm[TargetAt(k, k.attempts[m])] = "bad"
         IN /\ \A m \in 1 .. Len(k.attempts) :
                 Bad(m) => m = Len(k.attempts) /\ k.pc \in {"resolve", "done"}
            /\ k.outcome = "BadAddressError" =>
                 k.attempts # <<>> /\ Bad(Len(k.attempts))

\* What a call k has still before it: the positions to look at (twice, if
\* one is put aside), and within an attempt the lookup, the addresses and the
\* steps of its report r.
Rest(k) == 2 * (Len(k.backends) - k.i) + Len(k.cooling)

ReportRank == [load |-> 3, decide |-> 2, store |-> 1, idle |-> 0]
AttemptRank(k, r) ==
    CASE k.pc = "resolve" -> MaxAddrs + 7
      [] k.pc = "dial" -> k.addrs + 6
      [] k.pc \in {"ready", "trynext"} -> ReportRank[r.at] + 2
      [] k.pc = "scan" -> 1
      [] OTHER -> 0

\* A search does not depend on the others for its end: whatever they do to
\* the statuses, each of its steps leaves less to do, so their number is
\* bounded by the length of the pool and the addresses of its targets.
SearchRunsDown ==
    [][\A c \in Callers :
         (call[c].pc \notin {"idle", "done"} /\ <<call'[c], report'[c]>> # <<call[c], report[c]>>)
         => \/ call'[c] = NoCall
            \/ 0 <= Rest(call'[c]) /\ Rest(call'[c]) < Rest(call[c])
            \/ /\ Rest(call'[c]) = Rest(call[c])
               /\ AttemptRank(call'[c], report'[c]) < AttemptRank(call[c], report[c])]_vars

\* The positions at which a call has t in hand: tried, put aside, or not
\* seen drained when it was loaded.
InHand(c, t) ==
    LET k == call[c]
        loaded == IF k.pc = "match" /\ k.status.kind = "Alive" THEN {k.i} ELSE {}
    IN {n \in Elems(k.cooling) \cup Elems(k.attempts) \cup loaded : TargetAt(k, n) = t}

\* What a drain does achieve: as long as a target stays drained no call gets
\* it in hand at another position, so the calls that begin meanwhile do not
\* try it at all, and an older one only where it had loaded the status, or
\* put the target aside, before the drain.
DrainStopsNewCandidates ==
    [][\A c \in Callers, t \in Targets :
         target_status[t].kind = "Drain" => InHand(c, t)' \subseteq InHand(c, t)]_vars

\* Every call that is not dropped returns.
CallReturns == \A c \in Callers : (call[c].pc # "idle") ~> (call[c].pc \in {"done", "idle"})

\* src/src/balancer/traits.rs:34, "Durably drain traffic from this backend":
\* at least no call turns, in its second pass, to a target that is drained by
\* then.
NoAttemptOnDrained ==
    [][\A c \in Callers : call[c].pc = "scan" /\ call'[c].pc = "resolve" =>
         target_status[Current(call'[c])].kind # "Drain"]_vars
=============================================================================
