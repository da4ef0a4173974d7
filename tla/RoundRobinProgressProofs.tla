---------------------- MODULE RoundRobinProgressProofs ----------------------
(***************************************************************************)
(* Proofs about what the steps of connect_backend achieve: a search gets   *)
(* shorter with each of its steps, and a drain keeps new searches away     *)
(* from its target.  Both are action properties and hold of any number of  *)
(* concurrent calls because a step changes one call's record only.  What   *)
(* they need besides BalancerInv is that a report is under way only where  *)
(* its call waits for it.                                                  *)
(***************************************************************************)
EXTENDS RoundRobinBalancerProofs

ReportsInside ==
    \A c \in Callers : report[c].at # "idle" => call[c].pc \in {"ready", "trynext"}

\* The body of SearchRunsDown for one call.
RunsDown(c) ==
    \/ call'[c] = NoCall
    \/ 0 <= Rest(call'[c]) /\ Rest(call'[c]) < Rest(call[c])
    \/ /\ Rest(call'[c]) = Rest(call[c])
       /\ AttemptRank(call'[c], report'[c]) < AttemptRank(call[c], report[c])

-----------------------------------------------------------------------------
\* A step of a call, or the drop of it, leaves the others alone.
LEMMA OthersStay ==
  ASSUME BalancerInv, NEW c \in Callers, CallStep(c) \/ DropCall(c),
         NEW d \in Callers, d # c
  PROVE  call'[d] = call[d] /\ report'[d] = report[d]
<1>t. /\ call \in [Callers -> CallType]
      /\ report = [e \in Callers |-> report[e]]
  BY DEF BalancerInv, CallsOK, HandlerInv, HandlerTypeOK
<1>1. call'[d] = call[d]
  BY <1>t DEF CallStep, LoadStatus, ScanDrained, ScanCooling, ScanTry, TryCooling, GiveUp, LookupHost,
     ResolveOk, ResolveFail, ResolveFatal, DialOk, DialFail, DialExhausted, Ready, TryNext,
     Return, DropCall
<1>2. report'[d] = report[d]
  BY <1>t DEF CallStep, LoadStatus, ScanDrained, ScanCooling, ScanTry, TryCooling, GiveUp, LookupHost,
     ResolveOk, ResolveFail, ResolveFatal, DialOk, DialFail, DialExhausted, Ready, TryNext,
     Return, DropCall, ReportStep, ReportLoad, ReportDecide, ReportStore, ReportCall,
     ReportReturn, handlerVars
<1> QED BY <1>1, <1>2

\* So does the beginning of a call, and the clock and a drain touch none.
LEMMA OthersStayAtCall ==
  ASSUME BalancerInv, NEW c \in Callers, NEW p \in ForPorts,
         CallUnserved(c, p) \/ Call(c, p), NEW d \in Callers
  PROVE  report'[d] = report[d] /\ (d # c => call'[d] = call[d])
<1>t. call \in [Callers -> CallType]
  BY DEF BalancerInv, CallsOK
<1> QED BY <1>t DEF CallUnserved, Call, handlerVars

\* A step of a report brings it nearer to its end.
LEMMA ReportFalls ==
  ASSUME BalancerInv, NEW c \in Callers, ReportStep(c)
  PROVE  /\ report[c].at # "idle"
         /\ ReportRank[report'[c].at] < ReportRank[report[c].at]
<1>t. report = [e \in Callers |-> report[e]]
      /\ report[c] = [at |-> report[c].at, target |-> report[c].target,
                      result |-> report[c].result, status |-> report[c].status]
  BY DEF BalancerInv, HandlerInv, HandlerTypeOK
<1>1. CASE ReportLoad(c)
  <2>1. report[c].at = "load" /\ report'[c].at \in {"decide", "idle"}
    BY <1>1, <1>t DEF ReportLoad, ReportReturn, NoReport
  <2> QED BY <2>1 DEF ReportRank
<1>2. CASE ReportDecide(c)
  <2>1. report[c].at = "decide" /\ report'[c].at \in {"store", "idle"}
    BY <1>2, <1>t DEF ReportDecide, ReportReturn, NoReport
  <2> QED BY <2>1 DEF ReportRank
<1>3. CASE ReportStore(c)
  <2>1. report[c].at = "store" /\ report'[c].at = "idle"
    BY <1>3, <1>t DEF ReportStore, ReportReturn, NoReport
  <2> QED BY <2>1 DEF ReportRank
<1> QED BY <1>1, <1>2, <1>3 DEF ReportStep

\* The other steps of a call do not touch its report, or begin one.
LEMMA ReportBegins ==
  ASSUME BalancerInv, NEW c \in Callers, CallStep(c) \/ DropCall(c), ~ReportStep(c)
  PROVE  \/ UNCHANGED report
         \/ /\ call[c].pc \in {"resolve", "dial"} /\ call'[c].pc \in {"ready", "trynext"}
            /\ report[c].at = "idle" /\ report'[c].at = "load"
<1>t. /\ call = [e \in Callers |-> call[e]] /\ report = [e \in Callers |-> report[e]]
      /\ call[c] \in CallType
  BY DEF BalancerInv, CallsOK, HandlerInv, HandlerTypeOK
<1>1. CASE DialOk(c) \/ DialExhausted(c) \/ \E e \in DnsErrors : ResolveFail(c, e)
  <2>1. call[c].pc \in {"resolve", "dial"} /\ report[c].at = "idle" /\ report'[c].at = "load"
    BY <1>1, <1>t DEF DialOk, DialExhausted, ResolveFail, ReportCall
  <2>2. call'[c].pc \in {"ready", "trynext"}
    BY <1>1, <1>t DEF DialOk, DialExhausted, ResolveFail, CallType
  <2> QED BY <2>1, <2>2
<1>2. CASE LookupHost(c)
  BY <1>1, <1>2, LookupOutcomes
  DEF ResolveOk, ResolveFatal, handlerVars, BalancerInv, CallsOK
<1> QED BY <1>1, <1>2 DEF CallStep, LoadStatus, ScanDrained, ScanCooling, ScanTry, TryCooling, GiveUp,
    DialFail, Ready, TryNext, Return, DropCall, handlerVars

\* A report is under way only where its call waits for it.
LEMMA ReportsStayInside ==
  ASSUME BalancerInv, ReportsInside, [Next]_vars
  PROVE  ReportsInside'
<1> SUFFICES ASSUME NEW d \in Callers, report'[d].at # "idle"
             PROVE  call'[d].pc \in {"ready", "trynext"}
  BY DEF ReportsInside
<1>0. report[d].at # "idle" => call[d].pc \in {"ready", "trynext"}
  BY DEF ReportsInside
<1>1. CASE \E c \in Callers : CallStep(c) \/ DropCall(c)
  <2>1. PICK c \in Callers : CallStep(c) \/ DropCall(c)
    BY <1>1
  <2>2. CASE d # c
    BY <1>0, <2>1, <2>2, OthersStay
  <2>3. CASE d = c /\ ReportStep(c)
    <3>1. report[c].at # "idle"
      BY <2>3, ReportFalls
    <3>3. call[c].pc \in {"ready", "trynext"}
      BY <1>0, <2>3, <3>1
    <3>4. UNCHANGED call
      BY <2>1, <3>1, <3>3
      DEF CallStep, LoadStatus, ScanDrained, ScanCooling, ScanTry, TryCooling, GiveUp, LookupHost,
          DialOk, DialFail, DialExhausted, Ready, TryNext, Return, DropCall, Awaiting, Scanning
    <3> QED BY <2>3, <3>3, <3>4
  <2>4. CASE d = c /\ ~ReportStep(c)
    <3>1. CASE UNCHANGED report
      <4>1. call[c].pc \in {"ready", "trynext"} /\ report[c].at # "idle"
        BY <1>0, <2>4, <3>1
      <4> QED BY <2>1, <2>4, <4>1
          DEF CallStep, LoadStatus, ScanDrained, ScanCooling, ScanTry, TryCooling, GiveUp, LookupHost,
              DialOk, DialFail, DialExhausted, Ready, TryNext, Return, DropCall, Awaiting, Scanning
    <3> QED BY <2>1, <2>4, <3>1, ReportBegins
  <2> QED BY <2>2, <2>3, <2>4
<1>2. CASE \E c \in Callers, p \in ForPorts : CallUnserved(c, p) \/ Call(c, p)
  <2>1. PICK c \in Callers, p \in ForPorts : CallUnserved(c, p) \/ Call(c, p)
    BY <1>2
  <2>2. report'[d] = report[d] /\ (d # c => call'[d] = call[d])
    BY <2>1, OthersStayAtCall
  <2>3. call[c].pc = "idle"
    BY <2>1 DEF CallUnserved, Call
  <2> QED BY <1>0, <2>2, <2>3
<1>3. CASE (Tick \/ \E t \in Targets : DrainTarget(t)) /\ UNCHANGED call
  BY <1>0, <1>3 DEF Tick, DrainTarget
<1>4. CASE UNCHANGED vars
  BY <1>0, <1>4 DEF vars, handlerVars
<1> QED BY <1>1, <1>2, <1>3, <1>4 DEF Next

\* Along every behaviour.
LEMMA ReportsAlwaysInside == Spec => [](BalancerInv /\ ReportsInside)
<1>1. Init => ReportsInside
  BY DEF Init, HandlerInit, ReportsInside, NoReport
<1>2. BalancerInv /\ ReportsInside /\ [Next]_vars => ReportsInside'
  BY ReportsStayInside
<1> QED BY <1>1, <1>2, BalancerInvariance, PTL DEF Spec

-----------------------------------------------------------------------------
\* The arithmetic of it: a position looked at counts twice, one put aside once.
LEMMA RestArithmetic ==
  ASSUME NEW len \in Nat, NEW i \in Nat, NEW j \in Nat, NEW a \in Nat, NEW b \in Nat,
         j <= len, \/ j = i + 1 /\ b <= a + 1
                   \/ j = i /\ b < a
  PROVE  0 <= 2 * (len - j) + b /\ 2 * (len - j) + b < 2 * (len - i) + a
OBVIOUS

\* Each step of the two passes leaves fewer positions to look at.
LEMMA PassesFall ==
  ASSUME BalancerInv, NEW c \in Callers,
         ScanDrained(c) \/ ScanCooling(c) \/ ScanTry(c) \/ TryCooling(c)
  PROVE  0 <= Rest(call'[c]) /\ Rest(call'[c]) < Rest(call[c])
<1> DEFINE k == call[c]
           h == call'[c]
<1>t. /\ call \in [Callers -> CallType] /\ CallOK(k)
  BY DEF BalancerInv, CallsOK
<1>k. /\ k.i \in Nat /\ Len(k.backends) \in Nat /\ k.i <= Len(k.backends)
      /\ k.cooling \in Seq(Nat) /\ Len(k.cooling) \in Nat
      /\ k.pc = "match" => k.i < Len(k.backends)
  BY <1>t DEF CallOK, CallType, InPool
<1>1. CASE ScanDrained(c) \/ ScanTry(c)
  <2>1. h.backends = k.backends /\ h.i = k.i + 1 /\ h.cooling = k.cooling
    BY <1>1, <1>t DEF ScanDrained, ScanTry, CallType
  <2>2. k.i < Len(k.backends)
    BY <1>1, <1>k DEF ScanDrained, ScanTry
  <2>3. h.i \in Nat /\ h.i <= Len(k.backends)
    BY <1>k, <2>1, <2>2
  <2>4. Len(k.cooling) <= Len(k.cooling) + 1
    BY <1>k
  <2> QED BY <1>k, <2>1, <2>3, <2>4, RestArithmetic DEF Rest
<1>2. CASE ScanCooling(c)
  <2>1. h.backends = k.backends /\ h.i = k.i + 1 /\ h.cooling = Append(k.cooling, k.i)
    BY <1>2, <1>t DEF ScanCooling, CallType
  <2>2. k.i < Len(k.backends)
    BY <1>2, <1>k DEF ScanCooling
  <2>3. Len(h.cooling) = Len(k.cooling) + 1
    BY <1>k, <2>1
  <2>4. /\ h.i \in Nat /\ h.i <= Len(k.backends)
        /\ Len(h.cooling) \in Nat /\ Len(h.cooling) <= Len(k.cooling) + 1
    BY <1>k, <2>1, <2>2, <2>3, SMTT(30)
  <2> QED BY <1>k, <2>1, <2>4, RestArithmetic DEF Rest
<1>3. CASE TryCooling(c)
  <2>1. h.backends = k.backends /\ h.i = k.i /\ h.cooling = Tail(k.cooling)
    BY <1>3, <1>t DEF TryCooling, CallType
  <2>2. k.cooling # <<>>
    BY <1>3 DEF TryCooling
  <2>3. Len(Tail(k.cooling)) = Len(k.cooling) - 1 /\ Len(Tail(k.cooling)) \in Nat
    BY <1>k, <2>2
  <2>4. Len(h.cooling) \in Nat /\ Len(h.cooling) < Len(k.cooling)
    BY <1>k, <2>1, <2>3
  <2> QED BY <1>k, <2>1, <2>4, RestArithmetic DEF Rest
<1> QED BY <1>1, <1>2, <1>3

\* The steps in between leave the positions alone and less of the attempt.
LEMMA AttemptFalls ==
  ASSUME BalancerInv, ReportsInside, NEW c \in Callers,
         \/ LoadStatus(c) \/ GiveUp(c) \/ LookupHost(c) \/ DialOk(c) \/ DialFail(c)
         \/ DialExhausted(c) \/ Ready(c) \/ TryNext(c)
  PROVE  /\ Rest(call'[c]) = Rest(call[c])
         /\ AttemptRank(call'[c], report'[c]) < AttemptRank(call[c], report[c])
<1> DEFINE k == call[c]
           h == call'[c]
           q == report[c]
           r == report'[c]
<1>t. call \in [Callers -> CallType] /\ CallOK(k) /\ report = [e \in Callers |-> report[e]]
  BY DEF BalancerInv, CallsOK, HandlerInv, HandlerTypeOK
<1>k. k.addrs \in 0 .. MaxAddrs /\ MaxAddrs \in Nat /\ k \in CallType
  BY <1>t, AddrsAssumption DEF CallOK, CallType
<1>1. CASE LoadStatus(c) \/ GiveUp(c)
  <2>1. /\ k.pc = "scan" /\ h.pc \in {"match", "done"}
        /\ h.backends = k.backends /\ h.i = k.i /\ h.cooling = k.cooling
    BY <1>1, <1>t, <1>k DEF LoadStatus, Scanning, GiveUp, CallType
  <2> HIDE DEF k, h, q, r
  <2>2. AttemptRank(k, q) = 1 /\ AttemptRank(h, r) = 0
    BY <2>1 DEF AttemptRank
  <2> QED BY <2>1, <2>2 DEF Rest, k, h, q, r
<1>2. ASSUME NEW n \in 0 .. MaxAddrs, ResolveOk(c, n)
      PROVE  Rest(h) = Rest(k) /\ AttemptRank(h, r) < AttemptRank(k, q)
  <2>1. /\ k.pc = "resolve" /\ h.pc = "dial" /\ h.addrs = n
        /\ h.backends = k.backends /\ h.i = k.i /\ h.cooling = k.cooling
    BY <1>2, <1>t, <1>k DEF ResolveOk, CallType
  <2> HIDE DEF k, h, q, r
  <2>2. AttemptRank(k, q) = MaxAddrs + 7 /\ AttemptRank(h, r) = n + 6
    BY <2>1 DEF AttemptRank
  <2> QED BY <1>k, <2>1, <2>2 DEF Rest
<1>3. ASSUME NEW e \in FatalErrors, ResolveFatal(c, e)
      PROVE  Rest(h) = Rest(k) /\ AttemptRank(h, r) < AttemptRank(k, q)
  <2>1. /\ k.pc = "resolve" /\ h.pc = "done"
        /\ h.backends = k.backends /\ h.i = k.i /\ h.cooling = k.cooling
    BY <1>3, <1>t, <1>k DEF ResolveFatal, CallType
  <2> HIDE DEF k, h, q, r
  <2>2. AttemptRank(k, q) = MaxAddrs + 7 /\ AttemptRank(h, r) = 0
    BY <2>1 DEF AttemptRank
  <2> QED BY <1>k, <2>1, <2>2 DEF Rest
<1>4. ASSUME DialOk(c) \/ DialExhausted(c) \/ \E e \in DnsErrors : ResolveFail(c, e)
      PROVE  Rest(h) = Rest(k) /\ AttemptRank(h, r) < AttemptRank(k, q)
  <2>1. /\ k.pc \in {"resolve", "dial"} /\ h.pc \in {"ready", "trynext"}
        /\ h.backends = k.backends /\ h.i = k.i /\ h.cooling = k.cooling
    BY <1>4, <1>t, <1>k DEF DialOk, DialExhausted, ResolveFail, CallType
  <2>2. r.at = "load"
    BY <1>4, <1>t DEF DialOk, DialExhausted, ResolveFail, ReportCall
  <2> HIDE DEF k, h, q, r
  <2>3. AttemptRank(k, q) \in {MaxAddrs + 7, k.addrs + 6}
    BY <2>1 DEF AttemptRank
  <2>4. AttemptRank(h, r) = 5
    BY <2>1, <2>2 DEF AttemptRank, ReportRank
  <2> QED BY <1>k, <2>1, <2>3, <2>4 DEF Rest
<1>5. CASE DialFail(c)
  <2>1. /\ k.pc = "dial" /\ h.pc = "dial" /\ h.addrs = k.addrs - 1
        /\ h.backends = k.backends /\ h.i = k.i /\ h.cooling = k.cooling
    BY <1>5, <1>t, <1>k DEF DialFail, CallType
  <2> HIDE DEF k, h, q, r
  <2>2. AttemptRank(k, q) = k.addrs + 6 /\ AttemptRank(h, r) = k.addrs - 1 + 6
    BY <2>1 DEF AttemptRank
  <2>3. Rest(h) = Rest(k) /\ AttemptRank(h, r) < AttemptRank(k, q)
    BY <1>k, <2>1, <2>2 DEF Rest
  <2> QED BY <2>3 DEF k, h, q, r
<1>6. CASE Ready(c) \/ TryNext(c)
  <2>1. /\ k.pc \in {"ready", "trynext"} /\ h.pc \in {"done", "scan"} /\ q.at = "idle"
        /\ h.backends = k.backends /\ h.i = k.i /\ h.cooling = k.cooling
    BY <1>6, <1>t, <1>k DEF Ready, TryNext, CallType
  <2> HIDE DEF k, h, q, r
  <2>2. AttemptRank(k, q) = 2 /\ AttemptRank(h, r) \in {0, 1}
    BY <2>1 DEF AttemptRank, ReportRank
  <2>3. Rest(h) = Rest(k) /\ AttemptRank(h, r) < AttemptRank(k, q)
    BY <2>1, <2>2 DEF Rest
  <2> QED BY <2>3 DEF k, h, q, r
<1>7. CASE LookupHost(c)
  BY <1>2, <1>3, <1>4, <1>7, <1>t, LookupOutcomes
<1> QED BY <1>1, <1>4, <1>5, <1>6, <1>7

\* A call under way whose record or report changes took a step of its own,
\* and has less before it.
LEMMA SearchStep ==
  ASSUME BalancerInv, ReportsInside, [Next]_vars,
         NEW d \in Callers, call[d].pc \notin {"idle", "done"},
         <<call'[d], report'[d]>> # <<call[d], report[d]>>
  PROVE  RunsDown(d)
<1>1. CASE \E c \in Callers : CallStep(c) \/ DropCall(c)
  <2>1. PICK c \in Callers : CallStep(c) \/ DropCall(c)
    BY <1>1
  <2>2. d = c
    BY <2>1, OthersStay
  <2>3. CASE DropCall(d)
    <3>1. call'[d] = NoCall
      BY <2>3 DEF DropCall, BalancerInv, CallsOK
    <3> QED BY <3>1 DEF RunsDown
  <2>4. CASE ReportStep(d) /\ UNCHANGED call
    <3>1. report[d].at # "idle" /\ ReportRank[report'[d].at] < ReportRank[report[d].at]
      BY <2>4, ReportFalls
    <3>2. call[d].pc \in {"ready", "trynext"}
      BY <3>1 DEF ReportsInside
    <3>5. report[d].at \in {"idle", "load", "decide", "store"}
          /\ report'[d].at \in {"idle", "load", "decide", "store"}
      BY <2>4 DEF BalancerInv, HandlerInv, HandlerTypeOK, ReportStep, ReportLoad,
         ReportDecide, ReportStore, ReportReturn, NoReport
    <3>6. ReportRank[report[d].at] \in Nat /\ ReportRank[report'[d].at] \in Nat
      BY <3>5 DEF ReportRank
    <3>3. /\ AttemptRank(call[d], report[d]) = ReportRank[report[d].at] + 2
          /\ AttemptRank(call[d], report'[d]) = ReportRank[report'[d].at] + 2
      BY <3>2 DEF AttemptRank
    <3>4. AttemptRank(call'[d], report'[d]) < AttemptRank(call[d], report[d])
      BY <2>4, <3>1, <3>3, <3>6
    <3> QED BY <2>4, <3>4 DEF RunsDown
  <2>5. CASE ScanDrained(d) \/ ScanCooling(d) \/ ScanTry(d) \/ TryCooling(d)
    BY <2>5, PassesFall DEF RunsDown
  <2>6. CASE \/ LoadStatus(d) \/ GiveUp(d) \/ LookupHost(d) \/ DialOk(d) \/ DialFail(d)
             \/ DialExhausted(d) \/ Ready(d) \/ TryNext(d)
    BY <2>6, AttemptFalls DEF RunsDown
  <2>7. ~Return(d)
    BY DEF Return
  <2> QED BY <2>1, <2>2, <2>3, <2>4, <2>5, <2>6, <2>7 DEF CallStep
<1>2. CASE \E c \in Callers, p \in ForPorts : CallUnserved(c, p) \/ Call(c, p)
  <2>1. PICK c \in Callers, p \in ForPorts : CallUnserved(c, p) \/ Call(c, p)
    BY <1>2
  <2>2. d # c
    BY <2>1 DEF CallUnserved, Call
  <2> QED BY <2>1, <2>2, OthersStayAtCall
<1>3. CASE (Tick \/ \E t \in Targets : DrainTarget(t)) /\ UNCHANGED call
  BY <1>3 DEF Tick, DrainTarget
<1>4. CASE UNCHANGED vars
  BY <1>4 DEF vars, handlerVars
<1> QED BY <1>1, <1>2, <1>3, <1>4 DEF Next

\* connect_backend takes a bounded number of steps: each of them lowers what
\* the call has before it, whatever other calls, reports and drains do to the
\* statuses it reads.  CallReturns adds only that the steps are taken.
THEOREM SearchIsBounded == Spec => SearchRunsDown
<1>1. BalancerInv /\ ReportsInside /\ [Next]_vars =>
        [\A c \in Callers :
           (call[c].pc \notin {"idle", "done"} /\ <<call'[c], report'[c]>> # <<call[c], report[c]>>)
           => \/ call'[c] = NoCall
              \/ 0 <= Rest(call'[c]) /\ Rest(call'[c]) < Rest(call[c])
              \/ /\ Rest(call'[c]) = Rest(call[c])
                 /\ AttemptRank(call'[c], report'[c]) < AttemptRank(call[c], report[c])]_vars
  BY SearchStep DEF RunsDown
<1> QED BY <1>1, ReportsAlwaysInside, PTL DEF Spec, SearchRunsDown

-----------------------------------------------------------------------------
\* The positions whose targets a call has in hand.
Loaded(k) == IF k.pc = "match" /\ k.status.kind = "Alive" THEN {k.i} ELSE {}
Seen(k) == Elems(k.cooling) \cup Elems(k.attempts) \cup Loaded(k)

\* Only the load of a status adds to them, and not that of a drained target.
LEMMA SeenGrows ==
  ASSUME BalancerInv, NEW c \in Callers, CallStep(c) \/ DropCall(c)
  PROVE  \/ Seen(call'[c]) = {}
         \/ /\ call'[c].backends = call[c].backends
            /\ call'[c].start_idx = call[c].start_idx
            /\ \A n \in Seen(call'[c]) :
                 \/ n \in Seen(call[c])
                 \/ target_status[TargetAt(call[c], n)].kind # "Drain"
<1> DEFINE k == call[c]
           h == call'[c]
           Kept == h.backends = k.backends /\ h.start_idx = k.start_idx
           Same == h.cooling = k.cooling /\ h.attempts = k.attempts
<1>t. call \in [Callers -> CallType] /\ CallOK(k) /\ k \in CallType
  BY DEF BalancerInv, CallsOK, CallOK
<1>k. k.cooling \in Seq(Nat) /\ k.attempts \in Seq(Nat) /\ k.i \in Nat
  BY <1>t DEF CallType
<1>0. CASE LoadStatus(c)
  <2> DEFINE status == target_status[TargetAt(k, k.i)]
  <2>1. Kept /\ Same /\ h.i = k.i /\ h.status = status
    BY <1>0, <1>t DEF LoadStatus, CallType
  <2>2. Loaded(h) = {} \/ (Loaded(h) = {k.i} /\ status.kind = "Alive")
    BY <2>1 DEF Loaded
  <2>3. \A n \in Seen(h) : n \in Seen(k) \/ (n = k.i /\ status.kind = "Alive")
    BY <2>1, <2>2 DEF Seen
  <2> QED BY <2>1, <2>3
<1>1. CASE ScanCooling(c)
  <2>1. /\ Kept /\ h.cooling = Append(k.cooling, k.i) /\ h.attempts = k.attempts
        /\ h.pc = "scan" /\ k.pc = "match"
    BY <1>1, <1>t DEF ScanCooling, CallType
  <2>2. k.status.kind = "Alive"
    BY <1>1 DEF ScanCooling, Cooling
  <2>3. Elems(Append(k.cooling, k.i)) = Elems(k.cooling) \cup {k.i}
    BY <1>k, ElemsAppend
  <2>4. Loaded(k) = {k.i} /\ Loaded(h) = {}
    BY <2>1, <2>2 DEF Loaded
  <2>5. Seen(h) = Seen(k)
    BY <2>1, <2>3, <2>4 DEF Seen
  <2> QED BY <2>1, <2>5
<1>2. CASE ScanTry(c)
  <2>1. /\ Kept /\ h.cooling = k.cooling /\ h.attempts = Append(k.attempts, k.i)
        /\ h.pc = "resolve" /\ k.pc = "match"
    BY <1>2, <1>t DEF ScanTry, CallType
  <2>2. k.status.kind = "Alive"
    BY <1>2 DEF ScanTry
  <2>3. Elems(Append(k.attempts, k.i)) = Elems(k.attempts) \cup {k.i}
    BY <1>k, ElemsAppend
  <2>4. Loaded(k) = {k.i} /\ Loaded(h) = {}
    BY <2>1, <2>2 DEF Loaded
  <2>5. Seen(h) = Seen(k)
    BY <2>1, <2>3, <2>4 DEF Seen
  <2> QED BY <2>1, <2>5
<1>3. CASE TryCooling(c)
  <2>0. k.cooling # <<>>
    BY <1>3 DEF TryCooling
  <2>1. /\ Kept /\ h.cooling = Tail(k.cooling)
        /\ h.attempts = Append(k.attempts, Head(k.cooling)) /\ h.pc = "resolve"
    BY <1>3, <1>t DEF TryCooling, CallType
  <2>2. /\ Head(k.cooling) \in Nat
        /\ Elems(k.cooling) = {Head(k.cooling)} \cup Elems(Tail(k.cooling))
    BY <1>k, <2>0, ElemsTail
  <2>3. Elems(Append(k.attempts, Head(k.cooling))) = Elems(k.attempts) \cup {Head(k.cooling)}
    BY <1>k, <2>2, ElemsAppend
  <2>4. Loaded(h) = {}
    BY <2>1 DEF Loaded
  <2>5. Seen(h) \subseteq Seen(k)
    BY <2>1, <2>2, <2>3, <2>4 DEF Seen
  <2> QED BY <2>1, <2>5
<1>4. CASE Return(c) \/ DropCall(c)
  <2>1. h = NoCall
    BY <1>4, <1>t DEF Return, DropCall
  <2>2. h.cooling = <<>> /\ h.attempts = <<>> /\ h.pc = "idle"
    BY <2>1 DEF NoCall
  <2> QED BY <2>2 DEF Seen, Loaded, Elems
<1>5. ASSUME Kept, Same, h.pc # "match"
      PROVE  Kept /\ Seen(h) \subseteq Seen(k)
  <2>1. Loaded(h) = {}
    BY <1>5 DEF Loaded
  <2> QED BY <1>5, <2>1 DEF Seen
<1>6. CASE ScanDrained(c)
  BY <1>5, <1>6, <1>t DEF ScanDrained, CallType
<1>7. CASE GiveUp(c) \/ Ready(c) \/ TryNext(c)
  BY <1>5, <1>7, <1>t DEF GiveUp, Ready, TryNext, CallType
<1>8. CASE DialOk(c) \/ DialFail(c) \/ DialExhausted(c)
  <2>1. CASE DialOk(c) \/ DialExhausted(c)
    BY <1>5, <2>1, <1>t DEF DialOk, DialExhausted, CallType
  <2>2. CASE DialFail(c)
    <3>1. Kept /\ Same /\ h.pc = "dial"
      BY <2>2, <1>t DEF DialFail, CallType
    <3> QED BY <1>5, <3>1
  <2> QED BY <1>8, <2>1, <2>2
<1>9. CASE LookupHost(c)
  <2>1. CASE \E n \in 0 .. MaxAddrs : ResolveOk(c, n)
    BY <1>5, <2>1, <1>t DEF ResolveOk, CallType
  <2>2. CASE \E e \in DnsErrors : ResolveFail(c, e)
    BY <1>5, <2>2, <1>t DEF ResolveFail, CallType
  <2>3. CASE \E e \in FatalErrors : ResolveFatal(c, e)
    BY <1>5, <2>3, <1>t DEF ResolveFatal, CallType
  <2> QED BY <1>9, <2>1, <2>2, <2>3, <1>t, LookupOutcomes
<1>10. CASE UNCHANGED call
  BY <1>10
<1> QED BY <1>0, <1>1, <1>2, <1>3, <1>4, <1>6, <1>7, <1>8, <1>9, <1>10 DEF CallStep

\* While a target is drained no step puts it into the hands of a call.
LEMMA InHandStep ==
  ASSUME BalancerInv, [Next]_vars, NEW d \in Callers, NEW t \in Targets,
         target_status[t].kind = "Drain"
  PROVE  InHand(d, t)' \subseteq InHand(d, t)
<1>0. /\ InHand(d, t) = {n \in Seen(call[d]) : TargetAt(call[d], n) = t}
      /\ InHand(d, t)' = {n \in Seen(call'[d]) : TargetAt(call'[d], n) = t}
  BY DEF InHand, Seen, Loaded, Elems, TargetAt, IndexAt
<1>1. CASE call'[d] = call[d]
  BY <1>0, <1>1
<1>2. CASE CallStep(d) \/ DropCall(d)
  <2>1. CASE Seen(call'[d]) = {}
    BY <1>0, <2>1
  <2>2. CASE /\ call'[d].backends = call[d].backends
             /\ call'[d].start_idx = call[d].start_idx
             /\ \A n \in Seen(call'[d]) :
                  \/ n \in Seen(call[d])
                  \/ target_status[TargetAt(call[d], n)].kind # "Drain"
    <3>1. \A n : TargetAt(call'[d], n) = TargetAt(call[d], n)
      BY <2>2 DEF TargetAt, IndexAt
    <3> QED BY <1>0, <2>2, <3>1
  <2> QED BY <1>2, <2>1, <2>2, SeenGrows
<1>3. CASE \E p \in ForPorts : CallUnserved(d, p) \/ Call(d, p)
  <2>1. call[d] = NoCall /\ call \in [Callers -> CallType]
    BY <1>3 DEF BalancerInv, CallsOK, CallOK, CallUnserved, Call
  <2>2. call'[d].cooling = <<>> /\ call'[d].attempts = <<>> /\ call'[d].pc # "match"
    BY <1>3, <2>1 DEF CallUnserved, Call, NoCall
  <2>3. Seen(call'[d]) = {}
    BY <2>2 DEF Seen, Loaded, Elems
  <2> QED BY <1>0, <2>3
<1>4. CASE \E c \in Callers : c # d /\ (CallStep(c) \/ DropCall(c))
  BY <1>1, <1>4, OthersStay
<1>5. CASE \E c \in Callers, p \in ForPorts : c # d /\ (CallUnserved(c, p) \/ Call(c, p))
  BY <1>1, <1>5, OthersStayAtCall
<1>6. CASE UNCHANGED call
  BY <1>1, <1>6
<1> QED BY <1>2, <1>3, <1>4, <1>5, <1>6 DEF Next, vars

\* A drain keeps every search away from its target that does not have it in
\* hand already.  A call that begins later never tries the target.  One under
\* way tries it at most where it had loaded the status, or put the target
\* aside, before the drain: the first pass acts on what it loaded, the second
\* loads nothing.
THEOREM DrainKeepsNewCallsAway == Spec => DrainStopsNewCandidates
<1>1. BalancerInv /\ [Next]_vars =>
        [\A c \in Callers, t \in Targets :
           target_status[t].kind = "Drain" => InHand(c, t)' \subseteq InHand(c, t)]_vars
  BY InHandStep
<1> QED BY <1>1, BalancerInvariance, PTL DEF Spec, DrainStopsNewCandidates
=============================================================================
