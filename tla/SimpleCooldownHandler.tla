------------------------ MODULE SimpleCooldownHandler ------------------------
(***************************************************************************)
(* The status of the backends (TargetState in src/src/state.rs) and the    *)
(* cooldown handler that updates it                                        *)
(* (src/src/balancer/simplecooldownhandler.rs).                            *)
(*                                                                         *)
(* A status sits in an ArcSwap: one load and one store are atomic, a       *)
(* report of a connection attempt is not.  It loads the status, reads the  *)
(* clock and stores, and the reports of other callers, running on other    *)
(* threads, and `drain` can fall in between.                               *)
(***************************************************************************)
EXTENDS Integers

CONSTANTS
    Targets,   \* the backends of the configuration
    Callers,   \* the tasks that report connection attempts
    COOLDOWN,  \* the length of a cooldown, in ticks of the clock
    MaxClock   \* bound of the model: the clock stops here

ASSUME TargetsAssumption == Targets # {}
ASSUME CooldownAssumption == COOLDOWN \in Nat \ {0}
ASSUME ClockAssumption == MaxClock \in Nat

VARIABLES
    clock,          \* Instant::now()
    target_status,  \* TargetState::target_status
    report          \* the report_connection_attempt each caller is in

handlerVars == <<clock, target_status, report>>

(***************************************************************************)
(* BackendStatus.  cool_until: None is the instant 0, which is never in    *)
(* the future; no cooldown ends at 0.                                      *)
(***************************************************************************)
None == 0
Alive(cool_until) == [kind |-> "Alive", cool_until |-> cool_until]
Drain == [kind |-> "Drain", cool_until |-> None]

BackendStatus == {Alive(u) : u \in 0 .. MaxClock + COOLDOWN} \cup {Drain}

Cooling(status) == status.kind = "Alive" /\ status.cool_until > clock

\* A report: where it is, for which target and result, and the status it has
\* loaded ("decide") or is about to store ("store").
NoReport == [at |-> "idle", target |-> CHOOSE t \in Targets : TRUE,
             result |-> "Success", status |-> Drain]

HandlerTypeOK ==
    /\ clock \in 0 .. MaxClock
    /\ target_status \in [Targets -> BackendStatus]
    /\ report \in [Callers -> [at : {"idle", "load", "decide", "store"},
                               target : Targets,
                               result : {"Success", "Failure"},
                               status : BackendStatus]]

HandlerInit ==
    /\ clock = 0
    /\ target_status = [t \in Targets |-> Alive(None)]
    /\ report = [c \in Callers |-> NoReport]

-----------------------------------------------------------------------------
\* A caller enters report_connection_attempt(t, r).
ReportCall(c, t, r) ==
    /\ report[c].at = "idle"
    /\ report' = [report EXCEPT ![c] = [at |-> "load", target |-> t, result |-> r,
                                        status |-> Drain]]

\* The call returns.
ReportReturn(c) == report' = [report EXCEPT ![c] = NoReport]

\* Mutant: a drained target is updated like any other.
ReportLoadAll(c) ==
    /\ report[c].at = "load"
    /\ report' = [report EXCEPT ![c].at = "decide",
                                ![c].status = target_status[report[c].target]]
    /\ UNCHANGED <<clock, target_status>>

\* Load the status; a drained target is left alone.
ReportLoad(c) ==
    /\ report[c].at = "load"
    /\ LET status == target_status[report[c].target] IN
       IF status.kind = "Drain"
       THEN ReportReturn(c)
       ELSE report' = [report EXCEPT ![c].at = "decide", ![c].status = status]
    /\ UNCHANGED <<clock, target_status>>

\* Mutant: a failure during a cooldown prolongs it.
ReportDecideProlongs(c) ==
    /\ report[c].at = "decide"
    /\ IF report[c].result = "Failure"
       THEN report' = [report EXCEPT ![c].at = "store",
              ![c].status = Alive((IF Cooling(report[c].status)
                                   THEN report[c].status.cool_until
                                   ELSE clock) + COOLDOWN)]
       ELSE ReportReturn(c)
    /\ UNCHANGED <<clock, target_status>>

\* Read the clock.  A failure starts a cooldown from now; a success ends the
\* loaded cooldown if it is still running and otherwise changes nothing.
ReportDecide(c) ==
    /\ report[c].at = "decide"
    /\ IF report[c].result = "Failure"
       THEN report' = [report EXCEPT ![c].at = "store",
                                     ![c].status = Alive(clock + COOLDOWN)]
       ELSE IF Cooling(report[c].status)
       THEN report' = [report EXCEPT ![c].at = "store", ![c].status = Alive(None)]
       ELSE ReportReturn(c)
    /\ UNCHANGED <<clock, target_status>>

\* update_target_status
ReportStore(c) ==
    /\ report[c].at = "store"
    /\ target_status' = [target_status EXCEPT ![report[c].target] = report[c].status]
    /\ ReportReturn(c)
    /\ UNCHANGED clock

\* `drain`, which the trait offers and main does not call.
DrainTarget(t) ==
    /\ target_status' = [target_status EXCEPT ![t] = Drain]
    /\ UNCHANGED <<clock, report>>

Tick ==
    /\ clock < MaxClock
    /\ clock' = clock + 1
    /\ UNCHANGED <<target_status, report>>

ReportStep(c) == ReportLoad(c) \/ ReportDecide(c) \/ ReportStore(c)

HandlerNext ==
    \/ Tick
    \/ \E t \in Targets : DrainTarget(t)
    \/ \E c \in Callers :
         \/ ReportStep(c)
         \/ \E t \in Targets, r \in {"Success", "Failure"} :
              ReportCall(c, t, r) /\ UNCHANGED <<clock, target_status>>

HandlerSpec == HandlerInit /\ [][HandlerNext]_handlerVars

-----------------------------------------------------------------------------
\* No cooldown reaches further than COOLDOWN past now, however many failures
\* are reported at once and however late a store lands: a backend that stops
\* failing is first choice again COOLDOWN after its last failure.
CooldownBounded ==
    /\ \A t \in Targets : target_status[t].cool_until <= clock + COOLDOWN
    /\ \A c \in Callers : report[c].status.cool_until <= clock + COOLDOWN

Sealed(t) ==
    /\ target_status[t] = Drain
    /\ \A c \in Callers : report[c].target = t => report[c].at \notin {"decide", "store"}

\* A drained target that no report has loaded stays drained: a report that
\* begins later never brings it back.
DrainSeals == [][\A t \in Targets : Sealed(t) => Sealed(t)']_handlerVars
=============================================================================
