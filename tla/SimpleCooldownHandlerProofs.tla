--------------------- MODULE SimpleCooldownHandlerProofs ---------------------
(***************************************************************************)
(* Proofs about the cooldown handler, for any targets, callers, length of  *)
(* the cooldown and bound of the clock.  HandlerTypeOK /\ CooldownBounded  *)
(* is inductive: CooldownBounded covers the statuses that reports have     *)
(* loaded and not yet stored, which is what makes it so.                   *)
(***************************************************************************)
EXTENDS SimpleCooldownHandler, TLAPS

\* The statuses and the idle report have the types and fields the handler
\* gives them.
LEMMA StatusFacts ==
  /\ NoReport \in [at : {"idle", "load", "decide", "store"}, target : Targets,
                   result : {"Success", "Failure"}, status : BackendStatus]
  /\ NoReport.at = "idle" /\ NoReport.status.cool_until = 0
  /\ Drain \in BackendStatus /\ Drain.kind = "Drain" /\ Drain.cool_until = 0
  /\ \A u \in 0 .. MaxClock + COOLDOWN :
       Alive(u) \in BackendStatus /\ Alive(u).cool_until = u /\ Alive(u).kind = "Alive"
  /\ \A s \in BackendStatus :
       s.cool_until \in 0 .. MaxClock + COOLDOWN /\ s.kind \in {"Alive", "Drain"}
BY TargetsAssumption, CooldownAssumption, ClockAssumption
DEF NoReport, Drain, Alive, BackendStatus, None

HandlerInv == HandlerTypeOK /\ CooldownBounded

\* A step of the handler, or of the clock, keeps the types and the bound.
LEMMA HandlerStep == HandlerInv /\ [HandlerNext]_handlerVars => HandlerInv'
<1> SUFFICES ASSUME HandlerInv, [HandlerNext]_handlerVars PROVE HandlerInv'
  OBVIOUS
<1> DEFINE Rep == [at : {"idle", "load", "decide", "store"}, target : Targets,
                   result : {"Success", "Failure"}, status : BackendStatus]
<1>t. /\ clock \in 0 .. MaxClock /\ target_status \in [Targets -> BackendStatus]
      /\ report \in [Callers -> Rep]
      /\ COOLDOWN \in Nat /\ MaxClock \in Nat
      /\ \A t \in Targets : target_status[t].cool_until <= clock + COOLDOWN
      /\ \A c \in Callers : report[c].status.cool_until <= clock + COOLDOWN
  BY CooldownAssumption, ClockAssumption DEF HandlerInv, HandlerTypeOK, CooldownBounded
<1>1. CASE Tick
  <2>1. clock' = clock + 1 /\ clock' \in 0 .. MaxClock
        /\ UNCHANGED <<target_status, report>>
    BY <1>1, <1>t DEF Tick
  <2>2. /\ \A t \in Targets : target_status[t].cool_until \in Int
        /\ \A c \in Callers : report[c].status.cool_until \in Int
    BY <1>t, StatusFacts
  <2> QED BY <2>1, <2>2, <1>t DEF HandlerInv, HandlerTypeOK, CooldownBounded
<1>2. ASSUME NEW t \in Targets, DrainTarget(t) PROVE HandlerInv'
  BY <1>2, <1>t, StatusFacts DEF DrainTarget, HandlerInv, HandlerTypeOK, CooldownBounded
<1>3. ASSUME NEW c \in Callers, ReportStep(c) PROVE HandlerInv'
  <2>r. report[c] \in Rep
    BY <1>t
  <2>1. CASE ReportLoad(c)
    <3>1. CASE target_status[report[c].target].kind = "Drain"
      BY <2>1, <3>1, <2>r, <1>t, StatusFacts
      DEF ReportLoad, ReportReturn, HandlerInv, HandlerTypeOK, CooldownBounded
    <3>2. CASE target_status[report[c].target].kind # "Drain"
      BY <2>1, <3>2, <2>r, <1>t, StatusFacts
      DEF ReportLoad, HandlerInv, HandlerTypeOK, CooldownBounded
    <3> QED BY <3>1, <3>2
  <2>2. CASE ReportDecide(c)
    <3>1. clock + COOLDOWN \in 0 .. MaxClock + COOLDOWN /\ 0 \in 0 .. MaxClock + COOLDOWN
      BY <1>t
    <3>2. ASSUME NEW s \in BackendStatus, s.cool_until <= clock + COOLDOWN,
                 report' = [report EXCEPT ![c].at = "store", ![c].status = s],
                 UNCHANGED <<clock, target_status>>
          PROVE  HandlerInv'
      BY <3>2, <2>r, <1>t DEF HandlerInv, HandlerTypeOK, CooldownBounded
    <3>u. UNCHANGED <<clock, target_status>>
      BY <2>2 DEF ReportDecide
    <3>3. CASE report' = [report EXCEPT ![c].at = "store", ![c].status = Alive(clock + COOLDOWN)]
      <4>1. /\ Alive(clock + COOLDOWN) \in BackendStatus
            /\ Alive(clock + COOLDOWN).cool_until <= clock + COOLDOWN
        BY <3>1, <1>t, StatusFacts
      <4> QED BY <4>1, <3>2, <3>3, <3>u
    <3>4. CASE report' = [report EXCEPT ![c].at = "store", ![c].status = Alive(None)]
      <4>1. /\ Alive(None) \in BackendStatus
            /\ Alive(None).cool_until <= clock + COOLDOWN
        BY <3>1, <1>t, StatusFacts DEF None
      <4> QED BY <4>1, <3>2, <3>4, <3>u
    <3>5. CASE ReportReturn(c)
      BY <2>2, <3>5, <1>t, StatusFacts
      DEF ReportDecide, ReportReturn, HandlerInv, HandlerTypeOK, CooldownBounded
    <3> QED BY <2>2, <3>3, <3>4, <3>5 DEF ReportDecide
  <2>3. CASE ReportStore(c)
    BY <2>3, <2>r, <1>t, StatusFacts
    DEF ReportStore, ReportReturn, HandlerInv, HandlerTypeOK, CooldownBounded
  <2> QED BY <1>3, <2>1, <2>2, <2>3 DEF ReportStep
<1>4. ASSUME NEW c \in Callers, NEW t \in Targets, NEW r \in {"Success", "Failure"},
             ReportCall(c, t, r), UNCHANGED <<clock, target_status>>
      PROVE  HandlerInv'
  BY <1>4, <1>t, StatusFacts DEF ReportCall, HandlerInv, HandlerTypeOK, CooldownBounded
<1>5. CASE UNCHANGED handlerVars
  BY <1>5 DEF handlerVars, HandlerInv, HandlerTypeOK, CooldownBounded
<1> QED BY <1>1, <1>2, <1>3, <1>4, <1>5 DEF HandlerNext

\* Before any report no target is cooling.
LEMMA HandlerInitInv == HandlerInit => HandlerInv
BY StatusFacts, CooldownAssumption, ClockAssumption
DEF HandlerInit, HandlerInv, HandlerTypeOK, CooldownBounded, None

\* No cooldown, stored or about to be stored, ends later than COOLDOWN from
\* now, however the reports of different callers interleave.
THEOREM CooldownIsBounded == HandlerSpec => []CooldownBounded
<1>1. HandlerInv => CooldownBounded
  BY DEF HandlerInv
<1> QED BY <1>1, HandlerInitInv, HandlerStep, PTL DEF HandlerSpec

\* Once a target is drained and no report has loaded its earlier status, no
\* later report of an attempt brings it back.
THEOREM DrainIsSealed == HandlerSpec => DrainSeals
<1>1. HandlerInv /\ [HandlerNext]_handlerVars =>
        [\A t \in Targets : Sealed(t) => Sealed(t)']_handlerVars
  <2> SUFFICES ASSUME HandlerInv, HandlerNext, NEW t \in Targets, Sealed(t)
               PROVE  Sealed(t)'
    OBVIOUS
  <2>t. /\ target_status \in [Targets -> BackendStatus]
        /\ report \in [Callers -> [at : {"idle", "load", "decide", "store"}, target : Targets,
                                   result : {"Success", "Failure"}, status : BackendStatus]]
    BY DEF HandlerInv, HandlerTypeOK
  <2>1. CASE Tick
    BY <2>1 DEF Tick, Sealed
  <2>2. ASSUME NEW u \in Targets, DrainTarget(u) PROVE Sealed(t)'
    BY <2>2, <2>t DEF DrainTarget, Sealed
  <2>3. ASSUME NEW c \in Callers, ReportLoad(c) PROVE Sealed(t)'
    <3>1. CASE report[c].target = t
      BY <2>3, <3>1, <2>t, StatusFacts DEF ReportLoad, ReportReturn, Sealed
    <3>2. CASE report[c].target # t
      BY <2>3, <3>2, <2>t, StatusFacts, SMTT(30) DEF ReportLoad, ReportReturn, Sealed
    <3> QED BY <3>1, <3>2
  <2>4. ASSUME NEW c \in Callers, ReportDecide(c) PROVE Sealed(t)'
    <3>1. report[c].target # t /\ UNCHANGED target_status
      BY <2>4 DEF ReportDecide, Sealed
    <3> QED BY <2>4, <3>1, <2>t, StatusFacts, SMTT(30) DEF ReportDecide, ReportReturn, Sealed
  <2>5. ASSUME NEW c \in Callers, ReportStore(c) PROVE Sealed(t)'
    <3>1. report[c].target # t
      BY <2>5 DEF ReportStore, Sealed
    <3> QED BY <2>5, <3>1, <2>t, StatusFacts DEF ReportStore, ReportReturn, Sealed
  <2>6. ASSUME NEW c \in Callers, NEW u \in Targets, NEW r \in {"Success", "Failure"},
               ReportCall(c, u, r), UNCHANGED <<clock, target_status>>
        PROVE  Sealed(t)'
    BY <2>6, <2>t DEF ReportCall, Sealed
  <2> QED BY <2>1, <2>2, <2>3, <2>4, <2>5, <2>6 DEF HandlerNext, ReportStep
<1> QED BY <1>1, HandlerInitInv, HandlerStep, PTL DEF HandlerSpec, DrainSeals
=============================================================================
