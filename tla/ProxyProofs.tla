----------------------------- MODULE ProxyProofs -----------------------------
(***************************************************************************)
(* Proofs about the server together with the balancer, for any number of   *)
(* connections and permits and any configuration.  The composition         *)
(* implements both components, so the invariant of ProxyServerProofs       *)
(* holds in it; CallInv adds what ties a call to its task: a task that is  *)
(* in a call is connecting, and a report is under way only inside the call *)
(* that made it.                                                           *)
(***************************************************************************)
EXTENDS Proxy, ProxyServerProofs

(***************************************************************************)
(* The records of calls and reports, by their fields: the proofs need      *)
(* where a call and a report are, and not what else they hold.             *)
(***************************************************************************)
CallFields == {"pc", "backends", "start_idx", "i", "status", "cooling", "addrs",
               "outcome", "attempts", "drained"}
ReportFields == {"at", "target", "result", "status"}

IsRecord(r, fields) == r = [f \in fields |-> r[f]]

CallShape ==
    /\ call = [c \in Conns |-> call[c]]
    /\ \A c \in Conns : IsRecord(call[c], CallFields)
    /\ report = [c \in Conns |-> report[c]]
    /\ \A c \in Conns : IsRecord(report[c], ReportFields)

ReportsInCalls ==
    \A c \in Conns : report[c].at # "idle" => call[c].pc \in {"ready", "trynext"}

CallInv ==
    /\ CallShape
    /\ ReportsInCalls
    /\ \A c \in Conns : call[c].pc # "idle" => task[c] = "connecting"

PortsKnown ==
    /\ port_of = [c \in Conns |-> port_of[c]]
    /\ \A c \in Conns : task[c] \in Live => port_of[c] \in Ports

-----------------------------------------------------------------------------
(* The server.                                                             *)

\* A step of the composition is a step of the server, or none of its business.
LEMMA ProxyStepIsServerStep == [ProxyNext]_proxyVars => [Next]_vars
<1> SUFFICES ASSUME [ProxyNext]_proxyVars PROVE [Next]_vars
  OBVIOUS
<1>1. CASE ServerStep
  BY <1>1 DEF ServerStep, Next, ListenNext, TaskNext
<1>2. ASSUME NEW p \in Ports, NEW c \in Conns, Spawn(p, c) PROVE [Next]_vars
  BY <1>2 DEF Spawn, Next, ListenNext
<1>3. ASSUME NEW c \in Conns, CallReturns(c) PROVE [Next]_vars
  <2>1. \E s \in {"copying", "closing"} : ConnectDone(c, s)
    BY <1>3 DEF CallReturns
  <2> QED BY <2>1 DEF Next, TaskNext
<1>4. ASSUME NEW c \in Conns, DropTask(c) PROVE [Next]_vars
  BY <1>4 DEF DropTask, Next, TaskNext
<1>5. ASSUME \/ Tick \/ UNCHANGED proxyVars
             \/ \E c \in Conns : BeginCall(c) \/ CallGoesOn(c)
      PROVE  [Next]_vars
  BY <1>5 DEF Tick, BeginCall, CallGoesOn, proxyVars
<1> QED BY <1>1, <1>2, <1>3, <1>4, <1>5 DEF ProxyNext

\* With the search for a backend spelled out, the server still does what
\* ProxyServer says: the theorems about it hold of the composition.
THEOREM ProxyImplementsServer == ProxySpec => ImplementsServer
<1>1. ProxyInit => Init
  BY DEF ProxyInit
<1> QED BY <1>1, ProxyStepIsServerStep, PTL DEF ProxySpec, Spec, ImplementsServer

\* The invariant of the server, in the composition.
LEMMA ServerInvariance == ProxySpec => []IInv
BY ProxyImplementsServer, Invariance, PTL DEF ImplementsServer

\* With the search running inside the tasks, dropped wherever a task can be
\* dropped, the server's permits are still conserved, its queue moves, no task
\* is orphaned, the limits bound what it holds, run reports what happened and
\* a drain only runs down.
THEOREM ServerGuaranteesHold ==
    ProxySpec => /\ [](/\ PermitsConserved
                       /\ QueueNeverStuck
                       /\ NoOrphans
                       /\ AdmissionBound
                       /\ ResultFaithful)
                 /\ DrainRunsDown
BY ProxyImplementsServer, PermitsAreConserved, QueueIsNeverStuck, NoConnectionOrphaned,
   AdmissionIsBounded, ResultIsFaithful, DrainIsBounded, PTL DEF ImplementsServer

\* When a task ends, a parked one may be handed its permit; no other changes.
LEMMA TaskEndEffect ==
  ASSUME IInv, NEW c \in Conns, Finish(c) \/ TaskPanic(c) \/ DropAborted(c)
  PROVE  /\ task'[c] \notin Live
         /\ \A d \in Conns \ {c} : \/ task'[d] = task[d]
                                   \/ task[d] = "waiting" /\ task'[d] = "granted"
<1>i. TypeOK /\ PermitsConserved /\ QueueNeverStuck /\ task \in [Conns -> TaskStates]
  BY DEF IInv, TypeOK
<1>l. \A s \in Joinable \cup {"free"} : s \notin Live /\ s # "leaving"
  BY DEF Joinable, Live, PermitStates, SlotStates
<1>1. ASSUME NEW s \in Joinable \cup {"free"}, task[c] \in PermitStates, Release(c, s)
      PROVE  /\ task'[c] \notin Live
             /\ \A d \in Conns \ {c} : \/ task'[d] = task[d]
                                       \/ task[d] = "waiting" /\ task'[d] = "granted"
  BY <1>1, <1>i, <1>l, ReleaseEffect
<1>2. CASE Finish(c) \/ TaskPanic(c)
  <2>1. task[c] \in PermitStates
    BY <1>2 DEF Finish, TaskPanic, PermitStates
  <2>2. \E s \in Joinable \cup {"free"} : Release(c, s)
    BY <1>2 DEF Finish, TaskPanic, EndTask, Joinable
  <2> QED BY <1>1, <2>1, <2>2
<1>3. CASE DropAborted(c)
  <2>1. CASE task[c] \in PermitStates /\ Release(c, "free")
    BY <1>1, <2>1
  <2>2. CASE task' = [task EXCEPT ![c] = "free"]
    BY <2>2, <1>i, <1>l
  <2> QED BY <1>3, <2>1, <2>2 DEF DropAborted
<1> QED BY <1>2, <1>3

\* The steps of the server beside a call neither make a task live nor end
\* one that is connecting.
LEMMA ServerStepTasks ==
  ASSUME IInv, ServerStep
  PROVE  \A d \in Conns : /\ task'[d] \in Live => task[d] \in Live
                          /\ task[d] = "connecting" => task'[d] = "connecting"
<1> DEFINE Goal == \A d \in Conns : /\ task'[d] \in Live => task[d] \in Live
                                    /\ task[d] = "connecting" => task'[d] = "connecting"
<1>t. task \in [Conns -> TaskStates]
  BY DEF IInv, TypeOK
<1>1. CASE UNCHANGED task
  BY <1>1
<1>2. ASSUME NEW p \in Ports, task' = [c \in Conns |-> IF c \in Reaped(p) THEN "free" ELSE task[c]]
      PROVE  Goal
  BY <1>2, <1>t DEF Reaped, Joinable, Live, PermitStates, SlotStates
<1>3. ASSUME NEW c \in Conns, NEW s \in {"free", "offered"}, task[c] # "connecting",
             task' = [task EXCEPT ![c] = s]
      PROVE  Goal
  BY <1>3, <1>t DEF Live, PermitStates, SlotStates
<1>4. ASSUME NEW c \in Conns, NEW s \in Live, task[c] \in Live, task[c] # "connecting",
             task' = [task EXCEPT ![c] = s]
      PROVE  Goal
  BY <1>4, <1>t
<1>5. ASSUME NEW c \in Conns, Finish(c) PROVE Goal
  <2>1. task[c] = "closing"
    BY <1>5 DEF Finish
  <2>2. "closing" \in Live /\ "granted" \in Live /\ "waiting" \in Live
    BY DEF Live, PermitStates, SlotStates
  <2> QED BY <1>5, <2>1, <2>2, TaskEndEffect
<1>6. ASSUME NEW c \in Conns, PollAcquire(c) \/ StartGranted(c) \/ CopyEnd(c) PROVE Goal
  BY <1>4, <1>6 DEF PollAcquire, StartGranted, CopyEnd, Live, PermitStates, SlotStates
<1>7. ASSUME NEW p \in Ports, NEW c \in Conns, AcceptFull(p, c) \/ Reject(p, c) \/ JoinNext(p, c)
      PROVE  Goal
  BY <1>3, <1>7 DEF AcceptFull, Reject, JoinNext, Reaped, Joinable, IInv, SocketsOwned
<1>8. ASSUME NEW p \in Ports, Reap(p) \/ DrainDeadline(p) \/ ListenerPanic(p) PROVE Goal
  BY <1>2, <1>8 DEF Reap, DrainDeadline, ListenerPanic, DropJoinSet
<1>9. ASSUME \/ RunNext \/ Terminated
             \/ \E p \in Ports : \/ Stop(p) \/ Drained(p)
                                 \/ \E e \in RetriableKinds \cup PermanentErrors : AcceptError(p, e)
      PROVE  Goal
  BY <1>9 DEF RunNext, Terminated, Stop, Drained, AcceptError, Serve, Return, Signal, BindOk,
     BindFail, JoinListener, taskVars, vars
<1>10. ASSUME NEW c \in Conns, DropAcquire(c) PROVE Goal
  <2>1. /\ "leaving" \in Live /\ "granted" \in Live /\ "waiting" \in Live
        /\ "leaving" \in Joinable \cup {"free", "leaving"} /\ "granted" \in PermitStates
    BY DEF Live, PermitStates, SlotStates
  <2>2. CASE task[c] = "granted" /\ Release(c, "leaving")
    <3>1. /\ task'[c] = "leaving"
          /\ \A d \in Conns \ {c} : \/ task'[d] = task[d]
                                    \/ task[d] = "waiting" /\ task'[d] = "granted"
      BY <2>1, <2>2, ReleaseEffect DEF IInv
    <3> QED BY <2>1, <2>2, <3>1
  <2>3. CASE task[c] = "waiting" /\ Unpark(c)
    BY <1>4, <2>1, <2>3 DEF Unpark
  <2> QED BY <1>10, <2>2, <2>3 DEF DropAcquire
<1> HIDE DEF Goal
<1>11. Goal
  BY <1>5, <1>6, <1>7, <1>8, <1>9, <1>10 DEF ServerStep
<1> QED BY <1>11 DEF Goal

-----------------------------------------------------------------------------
(* The balancer.                                                           *)

\* A live task was given its port when it was spawned.
LEMMA PortsKnownStep == IInv /\ PortsKnown /\ [ProxyNext]_proxyVars => PortsKnown'
<1> SUFFICES ASSUME IInv, PortsKnown, [ProxyNext]_proxyVars PROVE PortsKnown'
  OBVIOUS
<1>t. task \in [Conns -> TaskStates]
  BY DEF IInv, TypeOK
<1>f. ASSUME UNCHANGED port_of, \A d \in Conns : task'[d] \in Live => task[d] \in Live
      PROVE  PortsKnown'
  BY <1>f DEF PortsKnown
<1>1. CASE ServerStep
  BY <1>1, <1>f, ServerStepTasks DEF ServerStep
<1>2. ASSUME NEW p \in Ports, NEW c \in Conns, Spawn(p, c) PROVE PortsKnown'
  <2>1. /\ port_of' = [port_of EXCEPT ![c] = p]
        /\ \A d \in Conns \ {c} : task'[d] = task[d]
    BY <1>2, <1>t DEF Spawn, AcceptSpawn, Enqueue
  <2>2. /\ port_of' = [d \in Conns |-> port_of'[d]] /\ port_of'[c] = p
        /\ \A d \in Conns \ {c} : port_of'[d] = port_of[d]
    BY <2>1 DEF PortsKnown
  <2> QED BY <2>1, <2>2 DEF PortsKnown
<1>3. ASSUME NEW c \in Conns, CallReturns(c) PROVE PortsKnown'
  <2>1. /\ task[c] = "connecting" /\ UNCHANGED port_of
        /\ \A d \in Conns \ {c} : task'[d] = task[d]
    BY <1>3, <1>t DEF CallReturns, ConnectDone
  <2>2. "connecting" \in Live
    BY DEF Live, PermitStates
  <2> QED BY <1>f, <2>1, <2>2
<1>4. ASSUME NEW c \in Conns, DropTask(c) PROVE PortsKnown'
  <2>1. "waiting" \in Live
    BY DEF Live, SlotStates
  <2> QED BY <1>4, <1>f, <2>1, TaskEndEffect DEF DropTask
<1>5. ASSUME \/ Tick \/ UNCHANGED proxyVars
             \/ \E c \in Conns : BeginCall(c) \/ CallGoesOn(c)
      PROVE  PortsKnown'
  BY <1>5, <1>f DEF Tick, BeginCall, CallGoesOn, proxyVars, vars, taskVars
<1> QED BY <1>1, <1>2, <1>3, <1>4, <1>5 DEF ProxyNext

\* No task is live before the first spawn.
LEMMA PortsKnownInit == ProxyInit => PortsKnown
BY DEF ProxyInit, Init, New, PortsKnown, Live, PermitStates, SlotStates

\* A step of the composition is a step of the balancer, or none of its
\* business.
LEMMA ProxyStepIsBalancerStep ==
  ASSUME PortsKnown, [ProxyNext]_proxyVars
  PROVE  [Balancer!Next]_(Balancer!vars)
<1>1. ASSUME UNCHANGED balancerVars PROVE [Balancer!Next]_(Balancer!vars)
  BY <1>1 DEF balancerVars, Balancer!vars, Balancer!handlerVars
<1>2. ASSUME NEW c \in Conns, BeginCall(c) PROVE [Balancer!Next]_(Balancer!vars)
  <2>1. port_of[c] \in Ports
    BY <1>2 DEF BeginCall, PortsKnown, Live, PermitStates
  <2> QED BY <1>2, <2>1 DEF BeginCall, Balancer!Next
<1>3. ASSUME NEW c \in Conns, CallGoesOn(c) PROVE [Balancer!Next]_(Balancer!vars)
  BY <1>3 DEF CallGoesOn, Balancer!Next
<1>4. ASSUME NEW c \in Conns, CallReturns(c) PROVE [Balancer!Next]_(Balancer!vars)
  BY <1>4 DEF CallReturns, Balancer!Next, Balancer!CallStep
<1>5. ASSUME NEW c \in Conns, DropTask(c) PROVE [Balancer!Next]_(Balancer!vars)
  BY <1>1, <1>5 DEF DropTask, Balancer!Next
<1>6. CASE Tick
  BY <1>6 DEF Tick, Balancer!Next
<1> QED BY <1>1, <1>2, <1>3, <1>4, <1>5, <1>6 DEF ProxyNext, ServerStep, Spawn, proxyVars

\* The connection tasks use the balancer as its specification allows, which
\* includes that they call it for configured ports only: the theorems about
\* the balancer and the cooldown handler hold of the composition.
THEOREM ProxyImplementsBalancer == ProxySpec => ImplementsBalancer
<1>1. ProxyInit => Balancer!Init
  BY DEF ProxyInit
<1>2. PortsKnown /\ [ProxyNext]_proxyVars => [Balancer!Next]_(Balancer!vars)
  BY ProxyStepIsBalancerStep
<1> QED BY <1>1, <1>2, PortsKnownInit, PortsKnownStep, ServerInvariance, PTL
        DEF ProxySpec, Balancer!Spec, ImplementsBalancer

-----------------------------------------------------------------------------
(* Calls and permits.                                                      *)

\* The idle call and the idle report.
LEMMA IdleShape ==
  /\ IsRecord(Balancer!NoCall, CallFields) /\ Balancer!NoCall.pc = "idle"
  /\ IsRecord(Balancer!NoReport, ReportFields) /\ Balancer!NoReport.at = "idle"
<1>1. IsRecord(Balancer!NoCall, CallFields)
  BY DEF IsRecord, CallFields, Balancer!NoCall
<1>2. IsRecord(Balancer!NoReport, ReportFields)
  BY DEF IsRecord, ReportFields, Balancer!NoReport
<1>3. Balancer!NoCall.pc = "idle" /\ Balancer!NoReport.at = "idle"
  BY DEF Balancer!NoCall, Balancer!NoReport
<1> QED BY <1>1, <1>2, <1>3

\* What an action of caller c may do to the records: it keeps their shape and
\* those of the others.
OnlyOf(c) ==
    /\ CallShape'
    /\ \A d \in Conns \ {c} : call'[d] = call[d] /\ report'[d] = report[d]

\* The record of one call is replaced.
LEMMA CallUpdate ==
  ASSUME CallShape, NEW c \in Conns, NEW k, IsRecord(k, CallFields),
         call' = [call EXCEPT ![c] = k], UNCHANGED report
  PROVE  OnlyOf(c) /\ call'[c] = k /\ report'[c] = report[c]
<1>1. /\ call' = [d \in Conns |-> call'[d]] /\ call'[c] = k
      /\ \A d \in Conns \ {c} : call'[d] = call[d]
  BY DEF CallShape
<1>2. \A d \in Conns : IsRecord(call'[d], CallFields)
  BY <1>1 DEF CallShape
<1> QED BY <1>1, <1>2 DEF CallShape, OnlyOf, IsRecord, CallFields, ReportFields

\* The record of one report is replaced.
LEMMA ReportUpdate ==
  ASSUME CallShape, NEW c \in Conns, NEW r, IsRecord(r, ReportFields),
         report' = [report EXCEPT ![c] = r], UNCHANGED call
  PROVE  OnlyOf(c) /\ report'[c] = r /\ call'[c] = call[c]
<1>1. /\ report' = [d \in Conns |-> report'[d]] /\ report'[c] = r
      /\ \A d \in Conns \ {c} : report'[d] = report[d]
  BY DEF CallShape
<1>2. \A d \in Conns : IsRecord(report'[d], ReportFields)
  BY <1>1 DEF CallShape
<1> QED BY <1>1, <1>2 DEF CallShape, OnlyOf, IsRecord, CallFields, ReportFields

\* Both are: a call enters report_connection_attempt.
LEMMA BothUpdate ==
  ASSUME CallShape, NEW c \in Conns, NEW k, NEW r, IsRecord(k, CallFields),
         IsRecord(r, ReportFields), call' = [call EXCEPT ![c] = k],
         report' = [report EXCEPT ![c] = r]
  PROVE  OnlyOf(c) /\ report'[c] = r /\ call'[c] = k
<1>1. /\ report' = [d \in Conns |-> report'[d]] /\ report'[c] = r
      /\ call' = [d \in Conns |-> call'[d]] /\ call'[c] = k
      /\ \A d \in Conns \ {c} : call'[d] = call[d] /\ report'[d] = report[d]
  BY DEF CallShape
<1>2. \A d \in Conns : IsRecord(report'[d], ReportFields) /\ IsRecord(call'[d], CallFields)
  BY <1>1 DEF CallShape
<1> QED BY <1>1, <1>2 DEF CallShape, OnlyOf, IsRecord, CallFields, ReportFields

\* A report goes on, or returns, inside the call that made it.
LEMMA ReportEffect ==
  ASSUME CallShape, NEW c \in Conns, Balancer!ReportStep(c), UNCHANGED call
  PROVE  OnlyOf(c) /\ report[c].at # "idle" /\ call'[c] = call[c]
<1>r. IsRecord(report[c], ReportFields) /\ c \in DOMAIN report
  BY DEF CallShape
<1>1. ASSUME NEW at, NEW status,
             report' = [report EXCEPT ![c].at = at, ![c].status = status]
      PROVE  OnlyOf(c) /\ call'[c] = call[c]
  <2> DEFINE r == [report[c] EXCEPT !.at = at, !.status = status]
  <2>1. report' = [report EXCEPT ![c] = r]
    BY <1>1, <1>r DEF CallShape
  <2>2. IsRecord(r, ReportFields)
    BY <1>r DEF IsRecord, ReportFields
  <2> HIDE DEF r
  <2> QED BY <2>1, <2>2, ReportUpdate
<1>2. ASSUME Balancer!ReportReturn(c) PROVE OnlyOf(c) /\ call'[c] = call[c]
  BY <1>2, IdleShape, ReportUpdate DEF Balancer!ReportReturn
<1>3. report[c].at # "idle"
  BY DEF Balancer!ReportStep, Balancer!ReportLoad, Balancer!ReportDecide, Balancer!ReportStore
<1>4. CASE Balancer!ReportLoad(c)
  BY <1>1, <1>2, <1>4 DEF Balancer!ReportLoad
<1>5. CASE Balancer!ReportDecide(c)
  BY <1>1, <1>2, <1>5 DEF Balancer!ReportDecide
<1>6. CASE Balancer!ReportStore(c)
  BY <1>2, <1>6 DEF Balancer!ReportStore
<1> QED BY <1>3, <1>4, <1>5, <1>6 DEF Balancer!ReportStep

\* A call that goes on was begun, and enters a report only as it leaves the
\* attempt.
LEMMA CallEffect ==
  ASSUME CallShape, ReportsInCalls, NEW c \in Conns, Balancer!CallStep(c),
         call[c].pc # "done"
  PROVE  /\ OnlyOf(c) /\ call[c].pc # "idle"
         /\ report'[c].at # "idle" => call'[c].pc \in {"ready", "trynext"}
<1> DEFINE k == call[c]
           Goal == /\ OnlyOf(c) /\ call[c].pc # "idle"
                   /\ report'[c].at # "idle" => call'[c].pc \in {"ready", "trynext"}
<1>k. IsRecord(k, CallFields) /\ c \in DOMAIN call
  BY DEF CallShape
<1>q. k.pc \notin {"ready", "trynext"} => report[c].at = "idle"
  BY DEF ReportsInCalls
<1>0. ASSUME Balancer!LoadStatus(c) PROVE Goal
  <2> DEFINE r == [k EXCEPT !.pc = "match",
                            !.status = target_status[Balancer!TargetAt(k, k.i)]]
  <2>1. call' = [call EXCEPT ![c] = r] /\ UNCHANGED report /\ k.pc = "scan"
    BY <1>0, <1>k DEF Balancer!LoadStatus, Balancer!Scanning, Balancer!handlerVars, CallShape
  <2>2. IsRecord(r, CallFields)
    BY <1>k DEF IsRecord, CallFields
  <2> HIDE DEF r
  <2> QED BY <2>1, <2>2, <1>q, CallUpdate
<1>1. ASSUME Balancer!ScanDrained(c) PROVE Goal
  <2> DEFINE r == [k EXCEPT !.pc = "scan", !.i = @ + 1, !.status = Balancer!Drain,
                            !.drained = @ \cup {k.i}]
  <2>1. call' = [call EXCEPT ![c] = r] /\ UNCHANGED report /\ k.pc = "match"
    BY <1>1, <1>k DEF Balancer!ScanDrained, Balancer!handlerVars, CallShape
  <2>2. IsRecord(r, CallFields)
    BY <1>k DEF IsRecord, CallFields
  <2> HIDE DEF r
  <2> QED BY <2>1, <2>2, <1>q, CallUpdate
<1>2. ASSUME Balancer!ScanCooling(c) PROVE Goal
  <2> DEFINE r == [k EXCEPT !.pc = "scan", !.i = @ + 1, !.status = Balancer!Drain,
                            !.cooling = Append(@, k.i)]
  <2>1. call' = [call EXCEPT ![c] = r] /\ UNCHANGED report /\ k.pc = "match"
    BY <1>2, <1>k DEF Balancer!ScanCooling, Balancer!handlerVars, CallShape
  <2>2. IsRecord(r, CallFields)
    BY <1>k DEF IsRecord, CallFields
  <2> HIDE DEF r
  <2> QED BY <2>1, <2>2, <1>q, CallUpdate
<1>3. ASSUME Balancer!ScanTry(c) PROVE Goal
  <2> DEFINE r == [k EXCEPT !.pc = "resolve", !.i = @ + 1, !.status = Balancer!Drain,
                            !.attempts = Append(@, k.i)]
  <2>1. call' = [call EXCEPT ![c] = r] /\ UNCHANGED report /\ k.pc = "match"
    BY <1>3, <1>k DEF Balancer!ScanTry, Balancer!handlerVars, CallShape
  <2>2. IsRecord(r, CallFields)
    BY <1>k DEF IsRecord, CallFields
  <2> HIDE DEF r
  <2> QED BY <2>1, <2>2, <1>q, CallUpdate
<1>4. ASSUME Balancer!TryCooling(c) PROVE Goal
  <2> DEFINE r == [k EXCEPT !.pc = "resolve", !.cooling = Tail(@),
                            !.attempts = Append(@, Head(k.cooling))]
  <2>1. call' = [call EXCEPT ![c] = r] /\ UNCHANGED report /\ k.pc = "scan"
    BY <1>4, <1>k DEF Balancer!TryCooling, Balancer!handlerVars, CallShape
  <2>2. IsRecord(r, CallFields)
    BY <1>k DEF IsRecord, CallFields
  <2> HIDE DEF r
  <2> QED BY <2>1, <2>2, <1>q, CallUpdate
<1>5. ASSUME NEW o, k.pc # "idle", report[c].at = "idle", UNCHANGED report,
             call' = [call EXCEPT ![c].pc = "done", ![c].outcome = o]
      PROVE  Goal
  <2> DEFINE r == [k EXCEPT !.pc = "done", !.outcome = o]
  <2>1. call' = [call EXCEPT ![c] = r]
    BY <1>5, <1>k DEF CallShape
  <2>2. IsRecord(r, CallFields)
    BY <1>k DEF IsRecord, CallFields
  <2> HIDE DEF r
  <2> QED BY <1>5, <2>1, <2>2, CallUpdate
<1>6. ASSUME NEW n, Balancer!ResolveOk(c, n) PROVE Goal
  <2> DEFINE r == [k EXCEPT !.pc = "dial", !.addrs = n]
  <2>1. call' = [call EXCEPT ![c] = r] /\ UNCHANGED report /\ k.pc = "resolve"
    BY <1>6, <1>k DEF Balancer!ResolveOk, Balancer!handlerVars, CallShape
  <2>2. IsRecord(r, CallFields)
    BY <1>k DEF IsRecord, CallFields
  <2> HIDE DEF r
  <2> QED BY <2>1, <2>2, <1>q, CallUpdate
<1>7. ASSUME NEW t, NEW x, k.pc # "idle", call' = [call EXCEPT ![c].pc = "trynext"],
             Balancer!ReportCall(c, t, x)
      PROVE  Goal
  <2> DEFINE r == [k EXCEPT !.pc = "trynext"]
             q == [at |-> "load", target |-> t, result |-> x, status |-> Balancer!Drain]
  <2>1. call' = [call EXCEPT ![c] = r] /\ report' = [report EXCEPT ![c] = q]
    BY <1>7, <1>k DEF Balancer!ReportCall, CallShape
  <2>2. IsRecord(r, CallFields) /\ IsRecord(q, ReportFields) /\ r.pc = "trynext"
    BY <1>k DEF IsRecord, CallFields, ReportFields
  <2> HIDE DEF r, q
  <2> QED BY <1>7, <2>1, <2>2, BothUpdate
<1>8. ASSUME Balancer!DialOk(c) PROVE Goal
  <2> DEFINE r == [k EXCEPT !.pc = "ready", !.addrs = 0]
             q == [at |-> "load", target |-> Balancer!Current(call[c]), result |-> "Success",
                   status |-> Balancer!Drain]
  <2>1. /\ call' = [call EXCEPT ![c] = r] /\ report' = [report EXCEPT ![c] = q]
        /\ k.pc = "dial"
    BY <1>8, <1>k DEF Balancer!DialOk, Balancer!ReportCall, CallShape
  <2>2. IsRecord(r, CallFields) /\ IsRecord(q, ReportFields) /\ r.pc = "ready"
    BY <1>k DEF IsRecord, CallFields, ReportFields
  <2> HIDE DEF r, q
  <2> QED BY <2>1, <2>2, BothUpdate
<1>9. ASSUME Balancer!DialFail(c) PROVE Goal
  <2> DEFINE r == [k EXCEPT !.addrs = @ - 1]
  <2>1. call' = [call EXCEPT ![c] = r] /\ UNCHANGED report /\ k.pc = "dial"
    BY <1>9, <1>k DEF Balancer!DialFail, Balancer!handlerVars, CallShape
  <2>2. IsRecord(r, CallFields)
    BY <1>k DEF IsRecord, CallFields
  <2> HIDE DEF r
  <2> QED BY <2>1, <2>2, <1>q, CallUpdate
<1>10. ASSUME Balancer!TryNext(c) PROVE Goal
  <2> DEFINE r == [k EXCEPT !.pc = "scan"]
  <2>1. /\ call' = [call EXCEPT ![c] = r] /\ UNCHANGED report /\ k.pc = "trynext"
        /\ report[c].at = "idle"
    BY <1>10, <1>k DEF Balancer!TryNext, Balancer!handlerVars, CallShape
  <2>2. IsRecord(r, CallFields)
    BY <1>k DEF IsRecord, CallFields
  <2> HIDE DEF r
  <2> QED BY <2>1, <2>2, CallUpdate
<1>11. ASSUME Balancer!ReportStep(c), UNCHANGED call PROVE Goal
  BY <1>11, ReportEffect DEF ReportsInCalls
<1>12. ASSUME \/ Balancer!GiveUp(c) \/ Balancer!Ready(c)
              \/ \E e \in Balancer!LookupErrors(Balancer!Current(call[c])) :
                   Balancer!ResolveFatal(c, e)
       PROVE  Goal
  <2>1. /\ k.pc # "idle" /\ report[c].at = "idle" /\ UNCHANGED report
        /\ \E o : call' = [call EXCEPT ![c].pc = "done", ![c].outcome = o]
    BY <1>12, <1>q DEF Balancer!GiveUp, Balancer!Ready, Balancer!ResolveFatal,
       Balancer!handlerVars
  <2> HIDE DEF Goal, k
  <2> QED BY <1>5, <2>1
<1>13. ASSUME \/ Balancer!DialExhausted(c)
              \/ \E e \in Balancer!LookupErrors(Balancer!Current(call[c])) :
                   Balancer!ResolveFail(c, e)
       PROVE  Goal
  <2>1. /\ k.pc # "idle" /\ call' = [call EXCEPT ![c].pc = "trynext"]
        /\ Balancer!ReportCall(c, Balancer!Current(call[c]), "Failure")
    BY <1>13 DEF Balancer!DialExhausted, Balancer!ResolveFail
  <2> HIDE DEF Goal, k
  <2> QED BY <1>7, <2>1
<1>14. ASSUME Balancer!LookupHost(c) PROVE Goal
  BY <1>6, <1>12, <1>13, <1>14 DEF Balancer!LookupHost
<1>15. ~Balancer!Return(c)
  BY DEF Balancer!Return
<1> HIDE DEF Goal
<1>16. Goal
  BY <1>0, <1>1, <1>2, <1>3, <1>4, <1>8, <1>9, <1>10, <1>11, <1>12, <1>13, <1>14, <1>15
  DEF Balancer!CallStep
<1> QED BY <1>16 DEF Goal
\* A caller with no call under way begins one and reports nothing yet.
LEMMA BeginEffect ==
  ASSUME CallShape, NEW c \in Conns, NEW p,
         Balancer!CallUnserved(c, p) \/ Balancer!Call(c, p)
  PROVE  OnlyOf(c) /\ call[c].pc = "idle" /\ report'[c] = report[c]
<1> DEFINE k == call[c]
<1>k. IsRecord(k, CallFields)
  BY DEF CallShape
<1>1. CASE Balancer!CallUnserved(c, p)
  <2> DEFINE r == [k EXCEPT !.pc = "done", !.outcome = "TargetResolutionError"]
  <2>1. call' = [call EXCEPT ![c] = r] /\ UNCHANGED report /\ k.pc = "idle"
    BY <1>1, <1>k DEF Balancer!CallUnserved, Balancer!handlerVars, CallShape
  <2>2. IsRecord(r, CallFields)
    BY <1>k DEF IsRecord, CallFields
  <2> HIDE DEF r
  <2> QED BY <2>1, <2>2, CallUpdate
<1>2. CASE Balancer!Call(c, p)
  <2> DEFINE r == [k EXCEPT !.pc = "scan", !.backends = Balancer!GetPool(p),
                            !.start_idx = rr_counter[p] % Len(Balancer!GetPool(p))]
  <2>1. call' = [call EXCEPT ![c] = r] /\ UNCHANGED report /\ k.pc = "idle"
    BY <1>2, <1>k DEF Balancer!Call, Balancer!handlerVars, CallShape
  <2>2. IsRecord(r, CallFields)
    BY <1>k DEF IsRecord, CallFields
  <2> HIDE DEF r
  <2> QED BY <2>1, <2>2, CallUpdate
<1> QED BY <1>1, <1>2

\* A call that returned or was dropped was reporting nothing.
LEMMA EndEffect ==
  ASSUME CallShape, ReportsInCalls, NEW c \in Conns,
         Balancer!Return(c) \/ Balancer!DropCall(c)
  PROVE  OnlyOf(c) /\ call'[c].pc = "idle" /\ report'[c].at = "idle"
<1>1. /\ call' = [call EXCEPT ![c] = Balancer!NoCall] /\ UNCHANGED report
      /\ call[c].pc \in {"done", "resolve", "dial"}
  BY DEF Balancer!Return, Balancer!DropCall, Balancer!Awaiting, Balancer!handlerVars
<1>2. report[c].at = "idle"
  BY <1>1 DEF ReportsInCalls
<1> QED BY <1>1, <1>2, IdleShape, CallUpdate

\* Every step keeps a call in its task and a report in its call.
LEMMA CallInvStep == IInv /\ CallInv /\ [ProxyNext]_proxyVars => CallInv'
<1> SUFFICES ASSUME IInv, CallInv, [ProxyNext]_proxyVars PROVE CallInv'
  OBVIOUS
<1>t. task \in [Conns -> TaskStates] /\ CallShape /\ ReportsInCalls
  BY DEF IInv, TypeOK, CallInv
<1>c. ASSUME NEW c \in Conns, OnlyOf(c),
             report'[c].at # "idle" => call'[c].pc \in {"ready", "trynext"},
             call'[c].pc # "idle" => task'[c] = "connecting",
             \A d \in Conns \ {c} : task[d] = "connecting" => task'[d] = "connecting"
      PROVE  CallInv'
  BY <1>c DEF CallInv, OnlyOf, ReportsInCalls
<1>u. ASSUME UNCHANGED balancerVars,
             \A d \in Conns : task[d] = "connecting" => task'[d] = "connecting"
      PROVE  CallInv'
  <2>1. call' = call /\ report' = report
    BY <1>u DEF balancerVars
  <2> QED BY <1>u, <2>1
      DEF CallInv, CallShape, ReportsInCalls, IsRecord, CallFields, ReportFields
<1>1. CASE ServerStep
  BY <1>1, <1>u, ServerStepTasks DEF ServerStep
<1>2. ASSUME NEW p \in Ports, NEW c \in Conns, Spawn(p, c) PROVE CallInv'
  <2>1. \A d \in Conns : task[d] = "connecting" => task'[d] = "connecting"
    BY <1>2, <1>t DEF Spawn, AcceptSpawn, Enqueue, IInv, SocketsOwned
  <2> QED BY <1>2, <1>u, <2>1 DEF Spawn
<1>3. ASSUME NEW c \in Conns, BeginCall(c) PROVE CallInv'
  <2>1. OnlyOf(c) /\ call[c].pc = "idle" /\ report'[c] = report[c]
    BY <1>3, <1>t, BeginEffect DEF BeginCall
  <2>2. task[c] = "connecting" /\ task' = task
    BY <1>3 DEF BeginCall, vars, taskVars
  <2>3. report[c].at = "idle"
    BY <2>1, <1>t DEF ReportsInCalls
  <2> QED BY <1>c, <2>1, <2>2, <2>3
<1>4. ASSUME NEW c \in Conns, CallGoesOn(c) PROVE CallInv'
  <2>1. /\ OnlyOf(c) /\ call[c].pc # "idle"
        /\ report'[c].at # "idle" => call'[c].pc \in {"ready", "trynext"}
    BY <1>4, <1>t, CallEffect DEF CallGoesOn
  <2>2. task' = task
    BY <1>4 DEF CallGoesOn, vars, taskVars
  <2>3. task[c] = "connecting"
    BY <2>1 DEF CallInv
  <2> QED BY <1>c, <2>1, <2>2, <2>3
<1>5. ASSUME NEW c \in Conns, CallReturns(c) PROVE CallInv'
  <2>1. OnlyOf(c) /\ call'[c].pc = "idle" /\ report'[c].at = "idle"
    BY <1>5, <1>t, EndEffect DEF CallReturns
  <2>2. \A d \in Conns \ {c} : task'[d] = task[d]
    BY <1>5, <1>t DEF CallReturns, ConnectDone
  <2> QED BY <1>c, <2>1, <2>2
<1>6. ASSUME NEW c \in Conns, DropTask(c) PROVE CallInv'
  <2>1. \A d \in Conns \ {c} : task[d] = "connecting" => task'[d] = "connecting"
    BY <1>6, TaskEndEffect DEF DropTask
  <2>2. CASE call[c].pc = "idle"
    <3>1. call' = call /\ report' = report
      BY <1>6, <2>2 DEF DropTask, balancerVars
    <3>2. OnlyOf(c)
      BY <1>t, <3>1 DEF OnlyOf, CallShape, IsRecord, CallFields, ReportFields
    <3>3. report'[c].at = "idle" /\ call'[c].pc = "idle"
      BY <1>t, <2>2, <3>1 DEF ReportsInCalls
    <3> QED BY <1>c, <2>1, <3>2, <3>3
  <2>3. CASE call[c].pc # "idle"
    <3>1. OnlyOf(c) /\ call'[c].pc = "idle" /\ report'[c].at = "idle"
      BY <1>6, <1>t, <2>3, EndEffect DEF DropTask
    <3> QED BY <1>c, <2>1, <3>1
  <2> QED BY <2>2, <2>3
<1>7. CASE Tick \/ UNCHANGED proxyVars
  <2>1. call' = call /\ report' = report /\ task' = task
    BY <1>7 DEF Tick, Balancer!Tick, proxyVars, balancerVars, vars, taskVars
  <2> QED BY <2>1
      DEF CallInv, CallShape, ReportsInCalls, IsRecord, CallFields, ReportFields
<1> QED BY <1>1, <1>2, <1>3, <1>4, <1>5, <1>6, <1>7 DEF ProxyNext

\* connect_backend runs, and reports to the cooldown handler, only inside a
\* connection task that holds an open permit, so max_connections bounds the
\* calls in flight; a call ends with its task.
THEOREM CallsAreBounded == ProxySpec => []CallsHoldPermits
<1>1. ProxyInit => CallInv
  <2> SUFFICES ASSUME ProxyInit PROVE CallInv
    OBVIOUS
  <2>1. /\ call = [c \in Conns |-> Balancer!NoCall]
        /\ report = [c \in Conns |-> Balancer!NoReport]
    BY DEF ProxyInit, Balancer!Init, Balancer!HandlerInit
  <2> QED BY <2>1, IdleShape DEF CallInv, CallShape, ReportsInCalls
<1>2. IInv /\ CallInv => CallsHoldPermits
  <2> SUFFICES ASSUME IInv, CallInv PROVE CallsHoldPermits
    OBVIOUS
  <2>1. \A c \in InCall : c \in Conns /\ task[c] = "connecting"
    BY DEF CallInv, ReportsInCalls, InCall
  <2> DEFINE A == {c \in Conns : task[c] \in PermitStates}
  <2>2. InCall \subseteq A
    BY <2>1 DEF PermitStates
  <2>3. IsFiniteSet(A) /\ Cardinality(A) = Count(task, PermitStates)
    BY ConnsAssumption, FS_Subset DEF Count
  <2>4. IsFiniteSet(InCall) /\ Cardinality(InCall) <= Cardinality(A)
    BY <2>2, <2>3, FS_Subset
  <2>5. /\ Count(task, PermitStates) + open_permits = MaxConnections
        /\ open_permits \in Nat
    BY LimitsAssumption DEF IInv, TypeOK, PermitsConserved
  <2>6. Cardinality(A) \in Nat /\ Cardinality(InCall) \in Nat
    BY <2>3, <2>4, FS_CardinalityType
  <2>7. Cardinality(InCall) <= MaxConnections - open_permits
    BY <2>3, <2>4, <2>5, <2>6
  <2> QED BY <2>1, <2>7 DEF CallsHoldPermits, CallInv, ReportsInCalls
<1> QED BY <1>1, <1>2, CallInvStep, ServerInvariance, PTL DEF ProxySpec
=============================================================================
