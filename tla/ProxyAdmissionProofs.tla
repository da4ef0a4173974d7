------------------------- MODULE ProxyAdmissionProofs -------------------------
(***************************************************************************)
(* The proxy server implements AdmissionPool, for every number of ports,   *)
(* connections and permits.  A step of the server is a step of the pool or *)
(* leaves the pool as it is; which one it is rests on the server's         *)
(* inductive invariant, which says that the counters and the FIFO of the   *)
(* semaphores are what the states of the tasks make them.                  *)
(***************************************************************************)
EXTENDS ProxyAdmission, ProxyServerProofs

\* The pool counts as the server does.
LEMMA PoolCardinality ==
  ASSUME NEW S
  PROVE  Pool!Cardinality(S) = Cardinality(S)
BY DEF Pool!Cardinality, Cardinality

\* What the pool's operators are in the server's terms.  The pool forgets an
\* aborted task before its queue slot is back.
LEMMA PoolTerms ==
  ASSUME IInv
  PROVE  /\ Pool!Free <=> open_permits > 0
         /\ Pool!Parked = In({"waiting"})
         /\ Pool!Queued = In(SlotStates \ {"leaving"})
         /\ queue_permits > 0 => Pool!Cardinality(Pool!Queued) < MaxQueue
<1>t. /\ open_permits \in 0 .. MaxConnections /\ queue_permits \in 0 .. MaxQueue
      /\ waiters \in Seq(Conns) /\ task \in [Conns -> TaskStates]
  BY DEF IInv, TypeOK
<1>1. /\ Cardinality(In(PermitStates)) \in Nat
      /\ Cardinality(In(PermitStates)) + open_permits = MaxConnections
  BY CountNat DEF IInv, PermitsConserved, Count, In
<1>2. /\ Cardinality(In(SlotStates)) \in Nat
      /\ Cardinality(In(SlotStates)) + queue_permits = MaxQueue
  BY CountNat DEF IInv, PermitsConserved, Count, In
<1>3. Pool!Free <=> open_permits > 0
  BY <1>t, <1>1, LimitsAssumption, PoolCardinality DEF Pool!Free
<1>4. Pool!Parked = In({"waiting"})
  BY <1>t DEF IInv, QueueNeverStuck, Pool!Parked, In
<1>5. Pool!Queued = In(SlotStates \ {"leaving"})
  BY <1>4 DEF Pool!Queued, In, SlotStates
<1>6. queue_permits > 0 => Pool!Cardinality(Pool!Queued) < MaxQueue
  <2>1. Pool!Queued \subseteq In(SlotStates) /\ In(SlotStates) \subseteq Conns
    BY <1>5 DEF In
  <2>2. IsFiniteSet(In(SlotStates))
    BY <2>1, ConnsAssumption, FS_Subset
  <2>3. /\ Cardinality(Pool!Queued) \in Nat
        /\ Cardinality(Pool!Queued) <= Cardinality(In(SlotStates))
    BY <2>1, <2>2, FS_Subset, FS_CardinalityType
  <2> QED BY <1>t, <1>2, <2>3, LimitsAssumption, PoolCardinality
<1> QED BY <1>3, <1>4, <1>5, <1>6

\* A connection of which the pool knows nothing.
LEMMA OutsideTerms ==
  ASSUME IInv, NEW c \in Conns, task[c] \notin Live
  PROVE  Pool!Outside(c)
BY PoolTerms DEF Pool!Outside, In, Live, SlotStates, PermitStates

\* Steps the pool does not see: no task comes to or leaves the states that
\* the mapping tells apart.
LEMMA PoolStutter ==
  ASSUME waiters' = waiters,
         \A d \in Conns : \/ task'[d] = task[d]
                          \/ {task[d], task'[d]} \cap (Live \ {"leaving"}) = {}
                          \/ {task[d], task'[d]} \subseteq PermitStates \ {"granted"}
  PROVE  UNCHANGED Pool!poolVars
<1>1. /\ In(PermitStates)' = In(PermitStates)
      /\ In({"granted"})' = In({"granted"})
      /\ In({"queued"})' = In({"queued"})
  BY DEF In, Live, PermitStates, SlotStates
<1> QED BY <1>1 DEF Pool!poolVars

\* A permit comes back, from whichever end of a task: the pool sees the
\* connection leave and the longest parked one take its place.
LEMMA ReleaseLeaves ==
  ASSUME IInv, NEW c \in Conns, NEW s \in Joinable \cup {"free", "leaving"},
         task[c] \in PermitStates, Release(c, s)
  PROVE  Pool!Leave(c)
<1>t. /\ waiters \in Seq(Conns) /\ task \in [Conns -> TaskStates]
  BY DEF IInv, TypeOK
<1>0. c \in In(PermitStates)
  BY DEF In
<1>s. s \notin PermitStates /\ s # "granted" /\ s # "queued"
  BY DEF Joinable, PermitStates
<1>1. CASE waiters = <<>>
  <2>1. waiters' = waiters /\ task' = [task EXCEPT ![c] = s]
    BY <1>1 DEF Release
  <2>2. /\ In(PermitStates)' = (In(PermitStates) \ {c}) \cup {}
        /\ In({"granted"})' = (In({"granted"}) \ {c}) \cup {}
        /\ In({"queued"})' = In({"queued"})
    BY <2>1, <1>t, <1>s DEF In, PermitStates
  <2> QED BY <1>0, <1>1, <2>1, <2>2 DEF Pool!Leave
<1>2. CASE waiters # <<>>
  <2> DEFINE h == Head(waiters)
  <2>1. /\ waiters' = Tail(waiters)
        /\ task' = [task EXCEPT ![c] = s, ![h] = "granted"]
    BY <1>2 DEF Release
  <2>2. h \in Conns /\ task[h] = "waiting"
    <3>1. 1 \in 1 .. Len(waiters) /\ waiters[1] = h /\ h \in Conns
      BY <1>2, <1>t
    <3> QED BY <3>1 DEF IInv, QueueNeverStuck
  <2>3. h # c
    BY <2>2 DEF PermitStates
  <2> HIDE DEF h
  <2>4. /\ In(PermitStates)' = (In(PermitStates) \ {c}) \cup {h}
        /\ In({"granted"})' = (In({"granted"}) \ {c}) \cup {h}
        /\ In({"queued"})' = In({"queued"})
    BY <2>1, <2>2, <2>3, <1>t, <1>s DEF In, PermitStates
  <2> QED BY <1>0, <1>2, <2>1, <2>4 DEF Pool!Leave, h
<1> QED BY <1>1, <1>2

\* The steps of `run` and the ones of `listen` that admit nobody.
LEMMA QuietListener ==
  ASSUME IInv, NEW p \in Ports,
         \/ Reap(p) \/ Stop(p) \/ Drained(p) \/ DrainDeadline(p) \/ ListenerPanic(p)
         \/ \E e \in RetriableKinds \cup PermanentErrors : AcceptError(p, e)
         \/ \E c \in Conns : AcceptFull(p, c) \/ Reject(p, c) \/ JoinNext(p, c)
  PROVE  UNCHANGED Pool!poolVars
<1>t. task \in [Conns -> TaskStates]
  BY DEF IInv, TypeOK
<1>1. waiters' = waiters
  BY DEF Reap, Stop, Drained, DrainDeadline, ListenerPanic, AcceptError, AcceptFull, Reject,
         JoinNext, semVars
<1>2. \A d \in Conns : task'[d] = task[d] \/ {task[d], task'[d]} \cap Live = {}
  <2>1. CASE Stop(p) \/ Drained(p) \/ \E e \in RetriableKinds \cup PermanentErrors : AcceptError(p, e)
    BY <2>1 DEF Stop, Drained, AcceptError, taskVars
  <2>2. CASE Reap(p) \/ DrainDeadline(p) \/ ListenerPanic(p)
    BY <2>2 DEF Reap, DrainDeadline, ListenerPanic, DropJoinSet, Reaped, Joinable, Live,
                PermitStates, SlotStates
  <2>3. CASE \E c \in Conns : JoinNext(p, c)
    BY <2>3, <1>t DEF JoinNext, Reaped, Joinable, Live, PermitStates, SlotStates
  <2>4. CASE \E c \in Conns : AcceptFull(p, c)
    BY <2>4, <1>t DEF AcceptFull, Live, PermitStates, SlotStates
  <2>5. CASE \E c \in Conns : Reject(p, c)
    <3>1. PICK c \in Conns : Reject(p, c)
      BY <2>5
    <3>2. task[c] = "offered" /\ task' = [task EXCEPT ![c] = "free"]
      BY <3>1 DEF Reject, IInv, SocketsOwned
    <3> QED BY <3>2, <1>t DEF Live, PermitStates, SlotStates
  <2> QED BY <2>1, <2>2, <2>3, <2>4, <2>5
<1> QED BY <1>1, <1>2, PoolStutter

\* An admitted and a queued connection.
LEMMA Admitted ==
  ASSUME IInv, NEW p \in Ports, NEW c \in Conns
  PROVE  /\ AcceptSpawn(p, c) => Pool!Admit(c)
         /\ Enqueue(p, c) => Pool!Queue(c)
<1>t. task \in [Conns -> TaskStates]
  BY DEF IInv, TypeOK
<1>1. ASSUME AcceptSpawn(p, c) PROVE Pool!Admit(c)
  <2>1. /\ task[c] = "free" /\ open_permits > 0
        /\ task' = [task EXCEPT ![c] = "connecting"] /\ waiters' = waiters
    BY <1>1 DEF AcceptSpawn
  <2>2. Pool!Outside(c) /\ Pool!Free
    BY <2>1, OutsideTerms, PoolTerms DEF Live, PermitStates, SlotStates
  <2>3. /\ In(PermitStates)' = In(PermitStates) \cup {c}
        /\ In({"granted"})' = In({"granted"}) /\ In({"queued"})' = In({"queued"})
    BY <2>1, <1>t DEF In, PermitStates
  <2> QED BY <2>1, <2>2, <2>3 DEF Pool!Admit
<1>2. ASSUME Enqueue(p, c) PROVE Pool!Queue(c)
  <2>1. /\ task[c] = "offered" /\ queue_permits > 0
        /\ task' = [task EXCEPT ![c] = "queued"] /\ waiters' = waiters
    BY <1>2 DEF Enqueue, IInv, SocketsOwned
  <2>2. Pool!Outside(c) /\ Pool!Cardinality(Pool!Queued) < MaxQueue
    BY <2>1, OutsideTerms, PoolTerms DEF Live, PermitStates, SlotStates
  <2>3. /\ In(PermitStates)' = In(PermitStates)
        /\ In({"granted"})' = In({"granted"}) /\ In({"queued"})' = In({"queued"}) \cup {c}
    BY <2>1, <1>t DEF In, PermitStates
  <2> QED BY <2>1, <2>2, <2>3 DEF Pool!Queue
<1> QED BY <1>1, <1>2

\* The steps of a connection task that keeps what it holds, or gets more.
LEMMA TaskGoesOn ==
  ASSUME IInv, NEW c \in Conns
  PROVE  /\ PollAcquire(c) => Pool!Take(c) \/ Pool!Park(c)
         /\ StartGranted(c) => Pool!Start(c)
         /\ CopyEnd(c) \/ (\E s \in {"copying", "closing"} : ConnectDone(c, s))
              => UNCHANGED Pool!poolVars
<1>t. task \in [Conns -> TaskStates] /\ open_permits \in Nat
  BY DEF IInv, TypeOK
<1>1. ASSUME PollAcquire(c), open_permits > 0 PROVE Pool!Take(c)
  <2>1. /\ task[c] = "queued" /\ task' = [task EXCEPT ![c] = "granted"] /\ waiters' = waiters
    BY <1>1 DEF PollAcquire
  <2>2. /\ c \in In({"queued"}) /\ Pool!Free
        /\ In({"queued"})' = In({"queued"}) \ {c}
        /\ In(PermitStates)' = In(PermitStates) \cup {c}
        /\ In({"granted"})' = In({"granted"}) \cup {c}
    BY <1>1, <2>1, <1>t, PoolTerms DEF In, PermitStates
  <2> QED BY <2>1, <2>2 DEF Pool!Take
<1>2. ASSUME PollAcquire(c), ~(open_permits > 0) PROVE Pool!Park(c)
  <2>1. /\ task[c] = "queued" /\ task' = [task EXCEPT ![c] = "waiting"]
        /\ waiters' = Append(waiters, c)
    BY <1>2 DEF PollAcquire
  <2>2. /\ c \in In({"queued"}) /\ ~Pool!Free
        /\ In({"queued"})' = In({"queued"}) \ {c}
        /\ In(PermitStates)' = In(PermitStates)
        /\ In({"granted"})' = In({"granted"})
    BY <1>2, <2>1, <1>t, PoolTerms DEF In, PermitStates
  <2> QED BY <2>1, <2>2 DEF Pool!Park
<1>3. ASSUME StartGranted(c) PROVE Pool!Start(c)
  <2>1. /\ task[c] = "granted" /\ task' = [task EXCEPT ![c] = "connecting"]
        /\ waiters' = waiters
    BY <1>3 DEF StartGranted
  <2>2. /\ c \in In({"granted"})
        /\ In({"granted"})' = In({"granted"}) \ {c}
        /\ In(PermitStates)' = In(PermitStates)
        /\ In({"queued"})' = In({"queued"})
    BY <2>1, <1>t DEF In, PermitStates
  <2> QED BY <2>1, <2>2 DEF Pool!Start
<1>4. ASSUME CopyEnd(c) \/ \E s \in {"copying", "closing"} : ConnectDone(c, s)
      PROVE  UNCHANGED Pool!poolVars
  <2>1. PICK s \in {"copying", "closing"} :
          /\ task[c] \in {"connecting", "copying"} /\ task' = [task EXCEPT ![c] = s]
          /\ waiters' = waiters
    BY <1>4 DEF CopyEnd, ConnectDone, semVars
  <2>2. \A d \in Conns : task'[d] = task[d]
                          \/ {task[d], task'[d]} \subseteq PermitStates \ {"granted"}
    BY <2>1, <1>t DEF PermitStates
  <2> QED BY <2>1, <2>2, PoolStutter
<1> QED BY <1>1, <1>2, <1>3, <1>4

\* The end of a connection task, at any of its awaits.  For a task aborted in
\* its acquire the pool sees the first of its two steps only.
LEMMA TaskEnds ==
  ASSUME IInv, NEW c \in Conns
  PROVE  /\ Finish(c) \/ TaskPanic(c) => Pool!Leave(c)
         /\ DropAcquire(c) => Pool!Leave(c) \/ Pool!Withdraw(c)
         /\ DropAborted(c) => \/ Pool!Leave(c) \/ Pool!Withdraw(c)
                              \/ UNCHANGED Pool!poolVars
<1>t. task \in [Conns -> TaskStates]
  BY DEF IInv, TypeOK
<1>1. ASSUME Finish(c) \/ TaskPanic(c) PROVE Pool!Leave(c)
  <2>1. /\ task[c] \in PermitStates
        /\ \E s \in Joinable : Release(c, IF c \in aborted THEN "free" ELSE s)
    BY <1>1 DEF Finish, TaskPanic, EndTask, PermitStates, Joinable
  <2>2. \E s \in Joinable \cup {"free"} : Release(c, s)
    BY <2>1
  <2> QED BY <2>1, <2>2, ReleaseLeaves
<1>2. ASSUME DropAcquire(c) PROVE Pool!Leave(c) \/ Pool!Withdraw(c)
  <2>1. CASE task[c] = "granted"
    <3>1. Release(c, "leaving")
      BY <1>2, <2>1 DEF DropAcquire
    <3> QED BY <2>1, <3>1, ReleaseLeaves DEF PermitStates
  <2>2. CASE task[c] # "granted"
    <3>1. task[c] = "waiting" /\ Unpark(c)
      BY <1>2, <2>2 DEF DropAcquire
    <3>2. /\ In({"queued"})' = In({"queued"})
          /\ In(PermitStates)' = In(PermitStates) /\ In({"granted"})' = In({"granted"})
      BY <3>1, <1>t DEF Unpark, In, PermitStates
    <3> QED BY <3>1, <3>2 DEF Unpark, Pool!Withdraw
  <2> QED BY <2>1, <2>2
<1>3. ASSUME DropAborted(c)
      PROVE  Pool!Leave(c) \/ Pool!Withdraw(c) \/ UNCHANGED Pool!poolVars
  <2>1. CASE task[c] \in PermitStates
    <3>1. Release(c, "free")
      BY <1>3, <2>1 DEF DropAborted, PermitStates
    <3> QED BY <2>1, <3>1, ReleaseLeaves
  <2>2. CASE task[c] \notin PermitStates
    <3>0. /\ task[c] \in {"queued", "leaving"}
          /\ task' = [task EXCEPT ![c] = "free"] /\ waiters' = waiters
      BY <1>3, <2>2 DEF DropAborted
    <3>1. CASE task[c] = "queued"
      <4>1. /\ c \in In({"queued"})
            /\ In({"queued"})' = In({"queued"}) \ {c}
            /\ In(PermitStates)' = In(PermitStates) /\ In({"granted"})' = In({"granted"})
        BY <3>0, <3>1, <1>t DEF In, PermitStates
      <4> QED BY <3>0, <4>1 DEF Pool!Withdraw
    <3>2. CASE task[c] = "leaving"
      BY <3>0, <3>2, <1>t, PoolStutter DEF Live, PermitStates, SlotStates
    <3> QED BY <3>0, <3>1, <3>2
  <2> QED BY <2>1, <2>2
<1> QED BY <1>1, <1>2, <1>3

\* Every step of the server is a step of the pool or does not concern it.
LEMMA PoolStep == IInv /\ [Next]_vars => [Pool!Next]_(Pool!poolVars)
<1> SUFFICES ASSUME IInv, [Next]_vars PROVE Pool!Next \/ UNCHANGED Pool!poolVars
  OBVIOUS
<1>1. CASE RunNext \/ Terminated \/ UNCHANGED vars
  <2>1. task' = task /\ waiters' = waiters
    BY <1>1 DEF RunNext, Serve, Return, Signal, BindOk, BindFail, JoinListener, Terminated,
                vars, taskVars, semVars
  <2> QED BY <2>1, PoolStutter
<1>2. CASE \E p \in Ports : ListenNext(p)
  <2>1. PICK p \in Ports : ListenNext(p)
    BY <1>2
  <2>2. CASE \E c \in Conns : AcceptSpawn(p, c) \/ Enqueue(p, c)
    BY <2>2, Admitted DEF Pool!Next
  <2>3. CASE ~\E c \in Conns : AcceptSpawn(p, c) \/ Enqueue(p, c)
    BY <2>1, <2>3, QuietListener DEF ListenNext
  <2> QED BY <2>2, <2>3
<1>3. CASE \E c \in Conns : TaskNext(c)
  <2>1. PICK c \in Conns : TaskNext(c)
    BY <1>3
  <2>2. CASE Finish(c) \/ TaskPanic(c) \/ DropAcquire(c) \/ DropAborted(c)
    BY <2>2, TaskEnds DEF Pool!Next
  <2>3. CASE ~(Finish(c) \/ TaskPanic(c) \/ DropAcquire(c) \/ DropAborted(c))
    BY <2>1, <2>3, TaskGoesOn DEF TaskNext, Pool!Next
  <2> QED BY <2>2, <2>3
<1> QED BY <1>1, <1>2, <1>3 DEF Next

\* The server implements the admission pool: whatever listeners, signals,
\* errors and panics do, a place that is given up goes to the connection
\* parked longest, and nobody is admitted past one that is parked.
THEOREM ServerImplementsPool == Spec => ImplementsPool
<1>1. Init => Pool!Init
  BY DEF Init, New, Pool!Init, In, PermitStates
<1> QED BY <1>1, PoolStep, Invariance, PTL DEF Spec, ImplementsPool, Pool!Spec
-----------------------------------------------------------------------------
(* The order of the queue.                                                 *)

\* The second part of ServedInOrder.
NobodyGetsAhead ==
    \A m, n \in 1 .. Len(waiters'), j \in 1 .. Len(waiters) :
      m < n /\ waiters'[n] = waiters[j] => \E i \in 1 .. j - 1 : waiters'[m] = waiters[i]

\* The FIFO keeps its order when nothing, the first or any one is removed:
\* each of those left was at this place or at the next one, and once one was
\* at the next, so were those behind it.
LEMMA RemovalKeepsOrder ==
  ASSUME IInv, NEW gap \in Nat, waiters' \in Seq(Conns),
         \A n \in 1 .. Len(waiters') :
           LET was == IF n < gap THEN n ELSE n + 1
           IN  was \in 1 .. Len(waiters) /\ waiters'[n] = waiters[was]
  PROVE  NobodyGetsAhead
<1> SUFFICES ASSUME NEW m \in 1 .. Len(waiters'), NEW n \in 1 .. Len(waiters'),
                    NEW j \in 1 .. Len(waiters), m < n, waiters'[n] = waiters[j]
             PROVE  \E i \in 1 .. j - 1 : waiters'[m] = waiters[i]
  BY DEF NobodyGetsAhead
<1> DEFINE was(k) == IF k < gap THEN k ELSE k + 1
<1>1. /\ was(m) \in 1 .. Len(waiters) /\ waiters'[m] = waiters[was(m)]
      /\ was(n) \in 1 .. Len(waiters) /\ waiters'[n] = waiters[was(n)]
  OBVIOUS
<1>0. \A x, y \in 1 .. Len(waiters) : waiters[x] = waiters[y] => x = y
  BY DEF IInv, QueueNeverStuck
<1>3. was(m) < was(n)
  BY <1>1
<1> HIDE DEF was
<1>2. was(n) = j
  BY <1>0, <1>1
<1>4. was(m) \in 1 .. j - 1
  BY <1>1, <1>2, <1>3
<1> QED BY <1>1, <1>4

\* It keeps it when one that was not parked is put behind the others.
LEMMA AppendKeepsOrder ==
  ASSUME IInv, NEW c \in Conns, task[c] # "waiting", waiters' = Append(waiters, c)
  PROVE  NobodyGetsAhead
<1>t. waiters \in Seq(Conns) /\ Len(waiters) \in Nat
  BY DEF IInv, TypeOK
<1>a. /\ Len(waiters') = Len(waiters) + 1 /\ waiters'[Len(waiters) + 1] = c
      /\ \A n \in 1 .. Len(waiters) : waiters'[n] = waiters[n]
  BY <1>t
<1> SUFFICES ASSUME NEW m \in 1 .. Len(waiters'), NEW n \in 1 .. Len(waiters'),
                    NEW j \in 1 .. Len(waiters), m < n, waiters'[n] = waiters[j]
             PROVE  \E i \in 1 .. j - 1 : waiters'[m] = waiters[i]
  BY SMTT(30) DEF NobodyGetsAhead
<1>1. n # Len(waiters) + 1
  BY <1>a DEF IInv, QueueNeverStuck
<1>2. n \in 1 .. Len(waiters) /\ m \in 1 .. Len(waiters)
  BY <1>1, <1>a, <1>t
<1>3. n = j
  BY <1>2, <1>a DEF IInv, QueueNeverStuck
<1> QED BY <1>2, <1>3, <1>a

\* Every step of the pool keeps the order of those parked and serves, while
\* one is parked, only the first.
LEMMA PoolStepInOrder ==
  ASSUME IInv, IInv', [Pool!Next]_(Pool!poolVars)
  PROVE  /\ waiters # <<>> => In(PermitStates)' \ In(PermitStates) \subseteq {Head(waiters)}
         /\ NobodyGetsAhead
<1> DEFINE First == waiters # <<>> =>
                      In(PermitStates)' \ In(PermitStates) \subseteq {Head(waiters)}
<1>t. waiters \in Seq(Conns) /\ waiters' \in Seq(Conns) /\ Len(waiters) \in Nat
  BY DEF IInv, TypeOK
<1>f. waiters # <<>> => ~Pool!Free
  BY PoolTerms DEF IInv, QueueNeverStuck
<1>0. ASSUME waiters' = waiters PROVE NobodyGetsAhead
  <2>1. Len(waiters) + 1 \in Nat
    BY <1>t
  <2>2. \A n \in 1 .. Len(waiters') :
          LET was == IF n < Len(waiters) + 1 THEN n ELSE n + 1
          IN  was \in 1 .. Len(waiters) /\ waiters'[n] = waiters[was]
    BY <1>0, <1>t
  <2> QED BY <2>1, <2>2, <1>t, RemovalKeepsOrder
<1>1. ASSUME NEW c \in Conns, Pool!Admit(c) \/ Pool!Take(c) PROVE First /\ NobodyGetsAhead
  BY <1>1, <1>f, <1>0 DEF Pool!Admit, Pool!Take
<1>2. ASSUME NEW c \in Conns, Pool!Queue(c) \/ Pool!Start(c) PROVE First /\ NobodyGetsAhead
  BY <1>2, <1>0 DEF Pool!Queue, Pool!Start
<1>3. ASSUME NEW c \in Conns, Pool!Park(c) PROVE First /\ NobodyGetsAhead
  <2>1. /\ task[c] # "waiting" /\ waiters' = Append(waiters, c)
        /\ In(PermitStates)' = In(PermitStates)
    BY <1>3 DEF Pool!Park, In
  <2> QED BY <2>1, AppendKeepsOrder
<1>4. ASSUME NEW c \in Conns, Pool!Leave(c) PROVE First /\ NobodyGetsAhead
  <2>1. CASE waiters = <<>>
    BY <1>4, <2>1, <1>0 DEF Pool!Leave
  <2>2. CASE waiters # <<>>
    <3>1. /\ waiters' = Tail(waiters)
          /\ In(PermitStates)' = (In(PermitStates) \ {c}) \cup {Head(waiters)}
      BY <1>4, <2>2 DEF Pool!Leave
    <3>2. \A n \in 1 .. Len(waiters') :
            LET was == IF n < 0 THEN n ELSE n + 1
            IN  was \in 1 .. Len(waiters) /\ waiters'[n] = waiters[was]
      BY <3>1, <2>2, <1>t
    <3>3. NobodyGetsAhead
      BY <3>2, <1>t, RemovalKeepsOrder
    <3> QED BY <3>1, <3>3
  <2> QED BY <2>1, <2>2
<1>5. ASSUME NEW c \in Conns, Pool!Withdraw(c) PROVE First /\ NobodyGetsAhead
  <2>1. In(PermitStates)' = In(PermitStates)
    BY <1>5 DEF Pool!Withdraw
  <2>2. CASE waiters' = waiters
    BY <2>1, <2>2, <1>0
  <2>3. CASE waiters' # waiters
    <3>1. PICK gap \in 1 .. Len(waiters) :
            waiters' = [j \in 1 .. Len(waiters) - 1 |->
                          IF j < gap THEN waiters[j] ELSE waiters[j + 1]]
      BY <1>5, <2>3 DEF Pool!Withdraw
    <3>2. Len(waiters') = Len(waiters) - 1
      BY <3>1, <1>t
    <3>3. \A n \in 1 .. Len(waiters') :
            LET was == IF n < gap THEN n ELSE n + 1
            IN  was \in 1 .. Len(waiters) /\ waiters'[n] = waiters[was]
      BY <3>1, <3>2, <1>t
    <3>4. gap \in Nat
      BY <1>t
    <3>5. NobodyGetsAhead
      BY <3>3, <3>4, <1>t, RemovalKeepsOrder
    <3> QED BY <2>1, <3>5
  <2> QED BY <2>2, <2>3
<1>6. CASE UNCHANGED Pool!poolVars
  BY <1>6, <1>0 DEF Pool!poolVars
<1> QED BY <1>1, <1>2, <1>3, <1>4, <1>5, <1>6 DEF Pool!Next

\* A parked connection is never overtaken, by newcomers of any listener or by
\* connections parked after it, however tasks end, panic or are aborted.
THEOREM ParkedAreServedInOrder == Spec => ServedInOrder
<1>1. IInv /\ IInv' /\ [Next]_vars =>
        [/\ waiters # <<>> => In(PermitStates)' \ In(PermitStates) \subseteq {Head(waiters)}
         /\ \A m, n \in 1 .. Len(waiters'), j \in 1 .. Len(waiters) :
              m < n /\ waiters'[n] = waiters[j] =>
                \E i \in 1 .. j - 1 : waiters'[m] = waiters[i]]_vars
  <2> SUFFICES ASSUME IInv, IInv', [Next]_vars
               PROVE  /\ waiters # <<>> =>
                           In(PermitStates)' \ In(PermitStates) \subseteq {Head(waiters)}
                      /\ NobodyGetsAhead
    BY DEF NobodyGetsAhead
  <2> QED BY PoolStep, PoolStepInOrder
<1> QED BY <1>1, Invariance, PTL DEF Spec, ServedInOrder
=============================================================================
