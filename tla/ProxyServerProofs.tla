-------------------------- MODULE ProxyServerProofs --------------------------
(***************************************************************************)
(* Proofs about ProxyServer, for any number of ports, connections and      *)
(* permits.  The inductive invariant is                                    *)
(*                                                                         *)
(*     TypeOK /\ PermitsConserved /\ QueueNeverStuck                       *)
(*            /\ TasksOwned /\ SocketsOwned /\ JoinSetsDropped /\ Outcomes   *)
(*                                                                         *)
(* The permits are counted over the tasks; the count is kept by a release  *)
(* because the task it is handed to is the head of a FIFO that holds       *)
(* exactly the parked tasks (QueueNeverStuck), and by a spawn or an abort  *)
(* because sockets and tasks have one owner (SocketsOwned, TasksOwned).    *)
(* Outcomes ties the result of each listener to where it is.               *)
(***************************************************************************)
EXTENDS ProxyServer, FiniteSetTheorems, TLAPS

Outcomes ==
    /\ \A p \in Ports : accept_res[p] = "pending" <=>
                          listener[p] \notin {"drain", "exited", "joined"}
    /\ \A p \in Ports : accept_res[p] = "panic" => listener[p] # "drain"
    /\ \A p \in Ports : accept_res[p] \notin {"pending", "panic"} => cancelled

IInv ==
    /\ TypeOK
    /\ PermitsConserved
    /\ QueueNeverStuck
    /\ TasksOwned
    /\ SocketsOwned
    /\ JoinSetsDropped
    /\ Outcomes

-----------------------------------------------------------------------------
(* Counting tasks.                                                         *)

\* The tasks in given states are finitely many, so their count is a number.
LEMMA CountNat ==
  ASSUME NEW f, NEW S
  PROVE  /\ IsFiniteSet({c \in Conns : f[c] \in S})
         /\ Count(f, S) \in Nat
BY ConnsAssumption, FS_Subset, FS_CardinalityType DEF Count

\* Tasks that move within S, or outside S, do not change the count of S.
LEMMA CountSame ==
  ASSUME NEW f, NEW g, NEW S,
         \A c \in Conns : f[c] \in S <=> g[c] \in S
  PROVE  Count(g, S) = Count(f, S)
<1>1. {c \in Conns : f[c] \in S} = {c \in Conns : g[c] \in S}
  OBVIOUS
<1> QED BY <1>1 DEF Count

\* One task that enters S adds one to the count of S.
LEMMA CountGain ==
  ASSUME NEW f, NEW g, NEW S, NEW c \in Conns,
         f[c] \notin S, g[c] \in S,
         \A d \in Conns \ {c} : f[d] \in S <=> g[d] \in S
  PROVE  Count(g, S) = Count(f, S) + 1
<1> DEFINE F == {d \in Conns : f[d] \in S}
           G == {d \in Conns : g[d] \in S}
<1>1. G = F \cup {c} /\ c \notin F
  OBVIOUS
<1>2. IsFiniteSet(F)
  BY CountNat
<1>3. Cardinality(F \cup {c}) = Cardinality(F) + 1
  BY <1>1, <1>2, FS_AddElement
<1> QED BY <1>1, <1>3 DEF Count

\* One task that leaves S takes one from the count of S.
LEMMA CountLose ==
  ASSUME NEW f, NEW g, NEW S, NEW c \in Conns,
         f[c] \in S, g[c] \notin S,
         \A d \in Conns \ {c} : f[d] \in S <=> g[d] \in S
  PROVE  Count(g, S) = Count(f, S) - 1
<1>1. Count(f, S) = Count(g, S) + 1
  BY CountGain
<1>2. Count(g, S) \in Nat
  BY CountNat
<1> QED BY <1>1, <1>2

-----------------------------------------------------------------------------
(* The semaphore.                                                          *)

\* A step that parks and unparks no task and frees no permit leaves the FIFO
\* of the semaphore as QueueNeverStuck describes it.
LEMMA QueueSame ==
  ASSUME TypeOK, QueueNeverStuck, waiters' = waiters,
         open_permits' > 0 => open_permits > 0,
         \A c \in Conns : task'[c] = "waiting" <=> task[c] = "waiting"
  PROVE  QueueNeverStuck'
BY DEF QueueNeverStuck

\* Returning a permit conserves it: it goes to the counter when no task is
\* parked, and otherwise to the first parked task, which leaves the FIFO.
LEMMA ReleaseEffect ==
  ASSUME TypeOK, PermitsConserved, QueueNeverStuck,
         NEW c \in Conns, NEW s \in Joinable \cup {"free", "leaving"},
         task[c] \in PermitStates, s = "leaving" => task[c] = "granted", Release(c, s)
  PROVE  /\ task' \in [Conns -> TaskStates]
         /\ open_permits' \in Nat
         /\ waiters' \in Seq(Conns)
         /\ QueueNeverStuck'
         /\ Count(task', PermitStates) + open_permits' = MaxConnections
         /\ Count(task', SlotStates) = IF task[c] \in SlotStates /\ s # "leaving"
                                       THEN Count(task, SlotStates) - 1
                                       ELSE Count(task, SlotStates)
         /\ task'[c] = s
         /\ \A d \in Conns \ {c} :
              \/ task'[d] = task[d]
              \/ task[d] = "waiting" /\ task'[d] = "granted"
<1>s. /\ s \in TaskStates
      /\ s \notin PermitStates /\ s # "waiting" /\ (s \in SlotStates <=> s = "leaving")
      /\ "granted" \in TaskStates /\ "granted" \in PermitStates /\ "granted" \in SlotStates
      /\ "waiting" \in SlotStates /\ "waiting" \notin PermitStates
  BY DEF Joinable, TaskStates, PermitStates, SlotStates, Live
<1>t. /\ task \in [Conns -> TaskStates] /\ open_permits \in Nat
      /\ waiters \in Seq(Conns) /\ MaxConnections \in Nat
  BY LimitsAssumption DEF TypeOK
<1>1. CASE waiters = <<>>
  <2>1. /\ open_permits' = open_permits + 1
        /\ task' = [task EXCEPT ![c] = s]
        /\ waiters' = waiters
    BY <1>1 DEF Release
  <2>2. task' \in [Conns -> TaskStates] /\ task'[c] = s
        /\ \A d \in Conns \ {c} : task'[d] = task[d]
    BY <2>1, <1>s, <1>t
  <2>3. Count(task', PermitStates) = Count(task, PermitStates) - 1
    BY <2>2, <1>s, CountLose
  <2>4. Count(task, PermitStates) \in Nat
    BY CountNat
  <2>5. Count(task', SlotStates) = IF task[c] \in SlotStates /\ s # "leaving"
                                   THEN Count(task, SlotStates) - 1
                                   ELSE Count(task, SlotStates)
    <3>1. CASE task[c] \in SlotStates /\ s # "leaving"
      BY <3>1, <2>2, <1>s, CountLose
    <3>2. CASE ~(task[c] \in SlotStates /\ s # "leaving")
      <4>1. \A d \in Conns : task[d] \in SlotStates <=> task'[d] \in SlotStates
        BY <3>2, <2>2, <1>s
      <4> QED BY <3>2, <4>1, CountSame
    <3> QED BY <3>1, <3>2
  <2>6. QueueNeverStuck'
    BY <1>1, <2>1, <2>2, <1>s DEF QueueNeverStuck, PermitStates
  <2> QED BY <2>1, <2>2, <2>3, <2>4, <2>5, <2>6, <1>t DEF PermitsConserved
<1>2. CASE waiters # <<>>
  <2> DEFINE h == Head(waiters)
             mid == [task EXCEPT ![c] = s]
  <2>1. /\ open_permits' = open_permits
        /\ task' = [task EXCEPT ![c] = s, ![h] = "granted"]
        /\ waiters' = Tail(waiters)
    BY <1>2 DEF Release
  <2>2. /\ Len(waiters) \in Nat /\ Len(waiters) >= 1
        /\ h = waiters[1] /\ h \in Conns
        /\ waiters' \in Seq(Conns) /\ Len(waiters') = Len(waiters) - 1
        /\ \A i \in 1 .. Len(waiters') : waiters'[i] = waiters[i + 1]
    BY <1>2, <1>t, <2>1
  <2>3. task[h] = "waiting" /\ h # c
    BY <2>2, <1>s DEF QueueNeverStuck, PermitStates
  <2>4. /\ mid \in [Conns -> TaskStates] /\ mid[c] = s /\ mid[h] = "waiting"
        /\ \A d \in Conns \ {c} : mid[d] = task[d]
    BY <2>2, <2>3, <1>s, <1>t
  <2>5. /\ task' \in [Conns -> TaskStates] /\ task'[c] = s /\ task'[h] = "granted"
        /\ \A d \in Conns \ {c, h} : task'[d] = task[d]
        /\ \A d \in Conns \ {h} : task'[d] = mid[d]
    BY <2>1, <2>2, <2>3, <2>4, <1>s, <1>t
  <2>6. Count(mid, PermitStates) = Count(task, PermitStates) - 1
    <3> HIDE DEF mid, h
    <3> QED BY <2>4, <1>s, CountLose
  <2>7. Count(task', PermitStates) = Count(mid, PermitStates) + 1
    <3> HIDE DEF mid, h
    <3> QED BY <2>2, <2>4, <2>5, <1>s, CountGain
  <2>8. Count(task, PermitStates) \in Nat
    BY CountNat
  <2>9. Count(task', SlotStates) = IF task[c] \in SlotStates /\ s # "leaving"
                                   THEN Count(task, SlotStates) - 1
                                   ELSE Count(task, SlotStates)
    <3>0. \A d \in Conns \ {c} : task[d] \in SlotStates <=> task'[d] \in SlotStates
      BY <2>2, <2>3, <2>5, <1>s
    <3>1. CASE task[c] \in SlotStates /\ s # "leaving"
      BY <3>0, <3>1, <2>5, <1>s, CountLose
    <3>2. CASE ~(task[c] \in SlotStates /\ s # "leaving")
      <4>1. \A d \in Conns : task[d] \in SlotStates <=> task'[d] \in SlotStates
        BY <3>0, <3>2, <2>5, <1>s
      <4> QED BY <3>2, <4>1, CountSame
    <3> QED BY <3>1, <3>2
  <2>10. QueueNeverStuck'
    <3>1. \A i, j \in 1 .. Len(waiters') : waiters'[i] = waiters'[j] => i = j
      BY <2>2 DEF QueueNeverStuck
    <3>2. ASSUME NEW d \in Conns
          PROVE  task'[d] = "waiting" <=> \E i \in 1 .. Len(waiters') : waiters'[i] = d
      <4>1. CASE d = h
        <5>1. \A i \in 1 .. Len(waiters') : waiters'[i] # d
          BY <4>1, <2>2 DEF QueueNeverStuck
        <5> QED BY <5>1, <4>1, <2>5
      <4>2. CASE d = c
        <5>1. \A i \in 1 .. Len(waiters) : waiters[i] # d
          BY <4>2, <1>s DEF QueueNeverStuck, PermitStates
        <5> QED BY <5>1, <4>2, <2>2, <2>5, <1>s
      <4>3. CASE d # h /\ d # c
        <5>1. task'[d] = task[d]
          BY <4>3, <2>5
        <5>2. ASSUME task[d] = "waiting"
              PROVE  \E i \in 1 .. Len(waiters') : waiters'[i] = d
          <6>1. PICK i \in 1 .. Len(waiters) : waiters[i] = d
            BY <5>2 DEF QueueNeverStuck
          <6>2. i # 1 /\ i - 1 \in 1 .. Len(waiters')
            BY <6>1, <4>3, <2>2
          <6>3. waiters'[i - 1] = d
            BY <6>1, <6>2, <2>2
          <6> QED BY <6>2, <6>3
        <5>3. ASSUME NEW i \in 1 .. Len(waiters'), waiters'[i] = d
              PROVE  task[d] = "waiting"
          BY <5>3, <2>2 DEF QueueNeverStuck
        <5> QED BY <5>1, <5>2, <5>3
      <4> QED BY <4>1, <4>2, <4>3
    <3>3. open_permits' > 0 => waiters' = <<>>
      BY <1>2, <2>1 DEF QueueNeverStuck
    <3> QED BY <3>1, <3>2, <3>3 DEF QueueNeverStuck
  <2>11. \A d \in Conns \ {c} :
           \/ task'[d] = task[d]
           \/ task[d] = "waiting" /\ task'[d] = "granted"
    BY <2>2, <2>3, <2>5
  <2>12. Count(task', PermitStates) + open_permits' = MaxConnections
    <3> HIDE DEF mid, h
    <3> QED BY <2>1, <2>6, <2>7, <2>8, <1>t DEF PermitsConserved
  <2> QED BY <2>1, <2>2, <2>5, <2>9, <2>10, <2>11, <2>12, <1>t
<1> QED BY <1>1, <1>2

\* Dropping a parked acquire takes exactly that task out of the FIFO.
LEMMA UnparkEffect ==
  ASSUME TypeOK, QueueNeverStuck, NEW c \in Conns, task[c] = "waiting", Unpark(c)
  PROVE  waiters' \in Seq(Conns) /\ QueueNeverStuck'
<1>1. PICK k \in 1 .. Len(waiters) :
        /\ waiters[k] = c
        /\ waiters' = [j \in 1 .. Len(waiters) - 1 |->
                         IF j < k THEN waiters[j] ELSE waiters[j + 1]]
  BY DEF Unpark
<1>t. /\ waiters \in Seq(Conns) /\ Len(waiters) \in Nat
      /\ task \in [Conns -> TaskStates]
      /\ task' = [task EXCEPT ![c] = "leaving"] /\ open_permits' = open_permits
  BY DEF TypeOK, Unpark
<1> DEFINE n == Len(waiters)
           w == waiters'
<1>2. /\ w \in Seq(Conns) /\ Len(w) = n - 1
      /\ \A i \in 1 .. n - 1 : w[i] = IF i < k THEN waiters[i] ELSE waiters[i + 1]
  <2>1. w = [j \in 1 .. n - 1 |-> IF j < k THEN waiters[j] ELSE waiters[j + 1]]
    BY <1>1
  <2>2. \A j \in 1 .. n - 1 :
          (IF j < k THEN waiters[j] ELSE waiters[j + 1]) \in Conns
    BY <1>t
  <2>3. n - 1 \in Nat
    BY <1>t, <1>1
  <2> HIDE DEF w, n
  <2> QED BY <2>1, <2>2, <2>3
<1>u. /\ \A i, j \in 1 .. n : waiters[i] = waiters[j] => i = j
      /\ \A d \in Conns : task[d] = "waiting" <=> \E i \in 1 .. n : waiters[i] = d
      /\ open_permits > 0 => waiters = <<>>
      /\ n \in Nat /\ k \in 1 .. n /\ waiters[k] = c
  BY <1>1, <1>t DEF QueueNeverStuck
<1> HIDE DEF n, w
<1>3. \A i, j \in 1 .. n - 1 : w[i] = w[j] => i = j
  <2> SUFFICES ASSUME NEW i \in 1 .. n - 1, NEW j \in 1 .. n - 1, w[i] = w[j]
               PROVE  i = j
    OBVIOUS
  <2>1. i \in 1 .. n /\ i + 1 \in 1 .. n /\ j \in 1 .. n /\ j + 1 \in 1 .. n
    BY <1>u
  <2>2. CASE i < k /\ j < k
    BY <2>1, <2>2, <1>2, <1>u
  <2>3. CASE i < k /\ ~(j < k)
    BY <2>1, <2>3, <1>2, <1>u
  <2>4. CASE ~(i < k) /\ j < k
    BY <2>1, <2>4, <1>2, <1>u
  <2>5. CASE ~(i < k) /\ ~(j < k)
    <3>1. waiters[i + 1] = waiters[j + 1]
      BY <2>5, <1>2
    <3>2. i + 1 = j + 1
      BY <3>1, <2>1, <1>u
    <3> QED BY <3>2, <1>u
  <2> QED BY <2>2, <2>3, <2>4, <2>5
<1>4. ASSUME NEW d \in Conns
      PROVE  task'[d] = "waiting" <=> \E i \in 1 .. n - 1 : w[i] = d
  <2>1. CASE d = c
    <3>1. ASSUME NEW i \in 1 .. n - 1, w[i] = c
          PROVE  FALSE
      <4>1. CASE i < k
        BY <3>1, <4>1, <1>2, <1>u
      <4>2. CASE ~(i < k)
        <5>1. i + 1 \in 1 .. n /\ waiters[i + 1] = c
          BY <3>1, <4>2, <1>2, <1>u
        <5>2. i + 1 = k
          BY <5>1, <1>u
        <5> QED BY <4>2, <5>2, <1>u
      <4> QED BY <4>1, <4>2
    <3> QED BY <2>1, <3>1, <1>t
  <2>2. CASE d # c
    <3>1. task'[d] = task[d]
      BY <2>2, <1>t
    <3>2. ASSUME task[d] = "waiting"
          PROVE  \E i \in 1 .. n - 1 : w[i] = d
      <4>1. PICK i \in 1 .. n : waiters[i] = d
        BY <3>2, <1>u
      <4>2. CASE i < k
        <5>1. i \in 1 .. n - 1 /\ w[i] = d
          BY <4>1, <4>2, <1>2, <1>u
        <5> QED BY <5>1
      <4>3. CASE i > k
        <5>1. i - 1 \in 1 .. n - 1 /\ w[i - 1] = waiters[(i - 1) + 1]
          BY <4>3, <1>2, <1>u
        <5>2. (i - 1) + 1 = i
          BY <1>u
        <5> QED BY <4>1, <5>1, <5>2
      <4> QED BY <4>1, <4>2, <4>3, <1>u, <2>2
    <3>3. ASSUME NEW i \in 1 .. n - 1, w[i] = d
          PROVE  task[d] = "waiting"
      <4>1. i \in 1 .. n /\ i + 1 \in 1 .. n
        BY <1>u
      <4> QED BY <3>3, <4>1, <1>2, <1>u
    <3> QED BY <3>1, <3>2, <3>3
  <2> QED BY <2>1, <2>2
<1>5. open_permits' > 0 => FALSE
  BY <1>t, <1>u DEF n
<1>6. QueueNeverStuck'
  BY <1>2, <1>3, <1>4, <1>5 DEF QueueNeverStuck, w
<1> QED BY <1>2, <1>6 DEF w

-----------------------------------------------------------------------------
(* The inductive invariant, one lemma per group of actions.                *)

\* The limits in TypeOK follow from the conservation of permits.
LEMMA TypeFromCounts ==
  ASSUME PermitsConserved, open_permits \in Nat, queue_permits \in Nat
  PROVE  open_permits \in 0 .. MaxConnections /\ queue_permits \in 0 .. MaxQueue
<1>1. Count(task, PermitStates) \in Nat /\ Count(task, SlotStates) \in Nat
  BY CountNat
<1> QED BY <1>1, LimitsAssumption DEF PermitsConserved

\* Initially every permit is in its semaphore and no task exists.
LEMMA InitIInv == Init => IInv
<1> SUFFICES ASSUME Init PROVE IInv
  OBVIOUS
<1>1. TypeOK
  <2>1. /\ run_pc \in {"bind", "join", "returned"}
        /\ first_error \in RunErrors \cup {"none"}
        /\ cancelled \in BOOLEAN
        /\ aborted \in SUBSET Conns
    BY DEF Init, New
  <2>2. /\ listener \in [Ports -> ListenerStates]
        /\ accept_res \in [Ports -> PermanentErrors \cup {"pending", "Ok", "panic"}]
        /\ in_sock \in [Ports -> SUBSET Conns]
        /\ connections \in [Ports -> SUBSET Conns]
    BY DEF Init, New, ListenerStates
  <2>3. task \in [Conns -> TaskStates]
    BY DEF Init, New, TaskStates
  <2>4. open_permits \in 0 .. MaxConnections /\ queue_permits \in 0 .. MaxQueue
    BY LimitsAssumption DEF Init, New
  <2>5. waiters \in Seq(Conns)
    BY DEF Init, New
  <2> QED BY <2>1, <2>2, <2>3, <2>4, <2>5 DEF TypeOK
<1>2. PermitsConserved
  <2>1. \A S : "free" \notin S => {c \in Conns : task[c] \in S} = {}
    BY DEF Init, New
  <2>2. "free" \notin PermitStates /\ "free" \notin SlotStates
    BY DEF PermitStates, SlotStates
  <2>3. Count(task, PermitStates) = 0 /\ Count(task, SlotStates) = 0
    BY <2>1, <2>2, FS_EmptySet DEF Count
  <2> QED BY <2>3, LimitsAssumption DEF Init, New, PermitsConserved
<1>3. QueueNeverStuck
  BY DEF Init, New, QueueNeverStuck
<1>4. TasksOwned /\ SocketsOwned /\ JoinSetsDropped /\ Outcomes
  BY DEF Init, New, TasksOwned, SocketsOwned, JoinSetsDropped, Outcomes,
         Live, PermitStates, SlotStates
<1> QED BY <1>1, <1>2, <1>3, <1>4 DEF IInv

\* The steps of `run`, of signals and of a listener that move no connection.
LEMMA QuietStep ==
  ASSUME IInv,
         UNCHANGED <<in_sock, connections, taskVars, semVars>>,
         run_pc' \in {"bind", "join", "returned"},
         first_error' \in RunErrors \cup {"none"},
         cancelled' \in BOOLEAN,
         listener' \in [Ports -> ListenerStates],
         accept_res' \in [Ports -> PermanentErrors \cup {"pending", "Ok", "panic"}],
         \A p \in Ports : listener[p] = "queueing" => listener'[p] = "queueing",
         JoinSetsDropped', Outcomes'
  PROVE  IInv'
<1>1. TypeOK'
  BY DEF IInv, TypeOK, taskVars, semVars
<1>2. PermitsConserved' /\ QueueNeverStuck' /\ TasksOwned'
  BY DEF IInv, PermitsConserved, QueueNeverStuck, TasksOwned, Count, taskVars, semVars
<1>3. SocketsOwned'
  BY DEF IInv, SocketsOwned, TypeOK, taskVars
<1> QED BY <1>1, <1>2, <1>3 DEF IInv

\* Every action of `run`, and a signal, is a quiet step.
LEMMA RunStep == IInv /\ RunNext => IInv'
<1> SUFFICES ASSUME IInv, RunNext PROVE IInv'
  OBVIOUS
<1> USE DEF IInv, TypeOK, ListenerStates, RunErrors, PermanentErrors, taskVars,
            JoinSetsDropped, Outcomes
<1>1. CASE Serve
  BY <1>1, QuietStep DEF Serve
<1>2. CASE Return \/ Signal
  BY <1>2, QuietStep DEF Return, Signal, runVars
<1>3. ASSUME NEW p \in Ports, BindOk(p) PROVE IInv'
  BY <1>3, QuietStep DEF BindOk, NextPort, runVars
<1>4. ASSUME NEW p \in Ports, NEW e \in BindErrors, BindFail(p, e) PROVE IInv'
  BY <1>4, QuietStep DEF BindFail, MaybeIntoBindError, BindErrors
<1>5. ASSUME NEW p \in Ports, JoinListener(p) PROVE IInv'
  <2>1. UNCHANGED <<run_pc, accept_res, in_sock, connections, taskVars, semVars>>
    BY <1>5 DEF JoinListener
  <2>2. /\ listener' \in [Ports -> ListenerStates]
        /\ \A q \in Ports : listener[q] = "queueing" => listener'[q] = "queueing"
    BY <1>5 DEF JoinListener
  <2>3. first_error' \in RunErrors \cup {"none"} /\ cancelled' \in BOOLEAN
    BY <1>5 DEF JoinListener, JoinError
  <2>4. JoinSetsDropped' /\ Outcomes'
    BY <1>5 DEF JoinListener
  <2> QED BY <2>1, <2>2, <2>3, <2>4, QuietStep
<1> QED BY <1>1, <1>2, <1>3, <1>4, <1>5 DEF RunNext

\* A retried or permanent accept error, the cancelled() branch and the end of
\* a drain are quiet steps of a listener.
LEMMA ListenQuietStep ==
  ASSUME IInv, NEW p \in Ports,
         \/ Stop(p) \/ Drained(p)
         \/ \E e \in RetriableKinds \cup PermanentErrors : AcceptError(p, e)
  PROVE  IInv'
<1> USE DEF IInv, TypeOK, ListenerStates, PermanentErrors, taskVars, runVars,
            JoinSetsDropped, Outcomes
<1>1. CASE Stop(p)
  BY <1>1, QuietStep DEF Stop
<1>2. CASE Drained(p)
  BY <1>2, QuietStep DEF Drained
<1>3. ASSUME NEW e \in RetriableKinds \cup PermanentErrors, AcceptError(p, e)
      PROVE  IInv'
  <2>1. CASE e \in RetriableKinds
    BY <1>3, <2>1, QuietStep DEF AcceptError
  <2>2. CASE e \notin RetriableKinds
    BY <1>3, <2>2, QuietStep DEF AcceptError
  <2> QED BY <2>1, <2>2
<1> QED BY <1>1, <1>2, <1>3

\* TypeOK after a step that moves connections: the limits come from the
\* conservation of permits.
LEMMA TypeStep ==
  ASSUME TypeOK, PermitsConserved',
         UNCHANGED runVars, cancelled' = cancelled,
         listener' \in [Ports -> ListenerStates],
         accept_res' \in [Ports -> PermanentErrors \cup {"pending", "Ok", "panic"}],
         in_sock' \in [Ports -> SUBSET Conns],
         connections' \in [Ports -> SUBSET Conns],
         task' \in [Conns -> TaskStates],
         aborted' \in SUBSET Conns,
         open_permits' \in Nat, queue_permits' \in Nat, waiters' \in Seq(Conns)
  PROVE  TypeOK'
<1>1. open_permits' \in 0 .. MaxConnections /\ queue_permits' \in 0 .. MaxQueue
  <2>1. Count(task', PermitStates) \in Nat /\ Count(task', SlotStates) \in Nat
    BY CountNat
  <2> QED BY <2>1, LimitsAssumption DEF PermitsConserved
<1> QED BY <1>1 DEF TypeOK, runVars

\* Reaping, joining in the drain and dropping the JoinSet free joinable tasks,
\* which hold nothing; those still live become aborted.
LEMMA ReapStep ==
  ASSUME IInv, NEW p \in Ports,
         \/ Reap(p) \/ DrainDeadline(p) \/ ListenerPanic(p)
         \/ \E c \in Conns : JoinNext(p, c)
  PROVE  IInv'
<1> USE DEF IInv
<1>t. /\ task \in [Conns -> TaskStates] /\ connections \in [Ports -> SUBSET Conns]
      /\ listener \in [Ports -> ListenerStates] /\ in_sock \in [Ports -> SUBSET Conns]
      /\ open_permits \in Nat /\ queue_permits \in Nat
      /\ waiters \in Seq(Conns) /\ aborted \in SUBSET Conns
      /\ accept_res \in [Ports -> PermanentErrors \cup {"pending", "Ok", "panic"}]
  BY LimitsAssumption DEF TypeOK
<1>1. /\ task' \in [Conns -> TaskStates]
      /\ \A d \in Conns : task'[d] = task[d] \/ (task[d] \in Joinable /\ task'[d] = "free")
  BY <1>t DEF Reap, DrainDeadline, ListenerPanic, JoinNext, DropJoinSet, Reaped, TaskStates
<1>2. UNCHANGED <<runVars, cancelled, in_sock, semVars>>
  BY DEF Reap, DrainDeadline, ListenerPanic, JoinNext
<1>3. Joinable \cap (Live \cup {"free", "offered"}) = {} /\ "waiting" \in Live
      /\ PermitStates \subseteq Live /\ SlotStates \subseteq Live /\ "free" \notin Live
  BY DEF Joinable, Live, PermitStates, SlotStates
<1>4. PermitsConserved'
  <2>1. \A d \in Conns : /\ task[d] \in PermitStates <=> task'[d] \in PermitStates
                         /\ task[d] \in SlotStates <=> task'[d] \in SlotStates
    BY <1>1, <1>3
  <2>2. /\ Count(task', PermitStates) = Count(task, PermitStates)
        /\ Count(task', SlotStates) = Count(task, SlotStates)
    BY <2>1, CountSame
  <2> QED BY <2>2, <1>2 DEF PermitsConserved, semVars
<1>5. QueueNeverStuck'
  BY <1>1, <1>2, <1>3, QueueSame DEF semVars
<1>6. /\ listener' \in [Ports -> ListenerStates]
      /\ listener[p] \in {"reap", "accept", "drain"}
      /\ \A q \in Ports \ {p} : listener'[q] = listener[q] /\ accept_res'[q] = accept_res[q]
      /\ accept_res' \in [Ports -> PermanentErrors \cup {"pending", "Ok", "panic"}]
  BY <1>t DEF Reap, DrainDeadline, ListenerPanic, JoinNext, ListenerStates
<1>7. /\ connections' \in [Ports -> SUBSET Conns]
      /\ connections'[p] \subseteq connections[p]
      /\ \A q \in Ports \ {p} : connections'[q] = connections[q]
      /\ aborted' \in SUBSET Conns
      /\ \A c \in connections'[p] : task'[c] = task[c] /\ c \notin aborted'
      /\ \A c \in connections[p] \ connections'[p] :
           \/ task[c] \in Joinable /\ task'[c] = "free" /\ c \notin aborted'
           \/ task[c] \in Live /\ task'[c] = task[c] /\ c \in aborted'
      /\ aborted' \subseteq aborted \cup connections[p] /\ aborted \subseteq aborted'
      /\ \A d \in Conns \ connections[p] : task'[d] = task[d]
  <2>1. CASE Reap(p)
    BY <2>1, <1>t DEF Reap, Reaped, TasksOwned
  <2>2. CASE DrainDeadline(p) \/ ListenerPanic(p)
    BY <2>2, <1>t DEF DrainDeadline, ListenerPanic, DropJoinSet, Reaped, TasksOwned
  <2>3. CASE \E c \in Conns : JoinNext(p, c)
    BY <2>3, <1>t DEF JoinNext, Reaped, TasksOwned
  <2> QED BY <2>1, <2>2, <2>3
<1>8. TasksOwned'
  <2>1. ASSUME NEW c \in Conns, task'[c] \in Live
        PROVE  c \in aborted' \/ \E q \in Ports : c \in connections'[q]
    BY <2>1, <1>1, <1>3, <1>7 DEF TasksOwned
  <2>2. ASSUME NEW q \in Ports, NEW c \in connections'[q]
        PROVE  task'[c] \in Live \cup Joinable /\ c \notin aborted'
    <3>1. c \in connections[q] /\ c \in Conns
      BY <1>t, <1>7
    <3>2. CASE q = p
      BY <3>1, <3>2, <1>7 DEF TasksOwned
    <3>3. CASE q # p
      BY <3>1, <3>3, <1>7 DEF TasksOwned
    <3> QED BY <3>2, <3>3
  <2>3. ASSUME NEW c \in aborted'
        PROVE  task'[c] \in Live
    BY <1>1, <1>3, <1>7, <1>t DEF TasksOwned
  <2>4. \A q, r \in Ports : q # r => connections'[q] \cap connections'[r] = {}
    BY <1>7 DEF TasksOwned
  <2> QED BY <2>1, <2>2, <2>3, <2>4 DEF TasksOwned
<1>9. SocketsOwned'
  <2>1. \A d \in Conns : task'[d] = "offered" <=> task[d] = "offered"
    BY <1>1, <1>3
  <2>2. in_sock' = in_sock
    BY <1>2
  <2>3. \A q \in Ports : listener[q] = "queueing" => listener'[q] = "queueing"
    BY <1>6
  <2> QED BY <2>1, <2>2, <2>3, <1>t DEF SocketsOwned
<1>10. JoinSetsDropped'
  <2>1. CASE Reap(p) \/ \E c \in Conns : JoinNext(p, c)
    BY <2>1, <1>t DEF Reap, JoinNext, JoinSetsDropped
  <2>2. CASE DrainDeadline(p)
    BY <2>2, <1>t DEF DrainDeadline, DropJoinSet, JoinSetsDropped, Outcomes
  <2>3. CASE ListenerPanic(p)
    BY <2>3, <1>t DEF ListenerPanic, DropJoinSet, JoinSetsDropped
  <2> QED BY <2>1, <2>2, <2>3
<1>11. Outcomes'
  <2>1. CASE Reap(p) \/ \E c \in Conns : JoinNext(p, c)
    BY <2>1, <1>t DEF Outcomes, Reap, JoinNext
  <2>2. CASE DrainDeadline(p)
    BY <2>2, <1>t DEF Outcomes, DrainDeadline
  <2>3. CASE ListenerPanic(p)
    BY <2>3, <1>t DEF Outcomes, ListenerPanic
  <2> QED BY <2>1, <2>2, <2>3
<1>12. TypeOK'
  BY <1>t, <1>1, <1>2, <1>4, <1>6, <1>7, TypeStep DEF semVars
<1> QED BY <1>4, <1>5, <1>8, <1>9, <1>10, <1>11, <1>12

\* Admitting, offering, queueing or rejecting a socket: it has one owner and
\* takes the permit it is counted for.
LEMMA AdmitStep ==
  ASSUME IInv, NEW p \in Ports, NEW c \in Conns,
         AcceptSpawn(p, c) \/ AcceptFull(p, c) \/ Enqueue(p, c) \/ Reject(p, c)
  PROVE  IInv'
<1> USE DEF IInv
<1>t. /\ task \in [Conns -> TaskStates] /\ connections \in [Ports -> SUBSET Conns]
      /\ listener \in [Ports -> ListenerStates] /\ in_sock \in [Ports -> SUBSET Conns]
      /\ open_permits \in Nat /\ queue_permits \in Nat
      /\ waiters \in Seq(Conns) /\ aborted \in SUBSET Conns
      /\ accept_res \in [Ports -> PermanentErrors \cup {"pending", "Ok", "panic"}]
  BY LimitsAssumption DEF TypeOK
<1>n. /\ Count(task, PermitStates) \in Nat /\ Count(task, SlotStates) \in Nat
      /\ MaxConnections \in Nat /\ MaxQueue \in Nat
  BY CountNat, LimitsAssumption
<1>o. \A q \in Ports : c \notin connections[q]
  BY DEF TasksOwned, SocketsOwned, AcceptSpawn, AcceptFull, Enqueue, Reject,
         Live, Joinable, PermitStates, SlotStates
<1>a. c \notin aborted /\ task[c] \in {"free", "offered"}
  BY DEF TasksOwned, SocketsOwned, AcceptSpawn, AcceptFull, Enqueue, Reject,
         Live, PermitStates, SlotStates
<1>1. /\ task' \in [Conns -> TaskStates]
      /\ \A d \in Conns \ {c} : task'[d] = task[d]
      /\ open_permits' \in Nat /\ queue_permits' \in Nat
      /\ UNCHANGED <<runVars, cancelled, accept_res, aborted, waiters>>
      /\ listener' \in [Ports -> ListenerStates]
      /\ in_sock' \in [Ports -> SUBSET Conns]
      /\ connections' \in [Ports -> SUBSET Conns]
  <2>1. /\ "reap" \in ListenerStates /\ "queueing" \in ListenerStates
        /\ {"connecting", "offered", "queued", "free"} \subseteq TaskStates
    BY DEF ListenerStates, TaskStates, Live, PermitStates, SlotStates
  <2>2. CASE AcceptSpawn(p, c)
    BY <2>1, <2>2, <1>t DEF AcceptSpawn
  <2>3. CASE AcceptFull(p, c)
    BY <2>1, <2>3, <1>t DEF AcceptFull, semVars
  <2>4. CASE Enqueue(p, c)
    BY <2>1, <2>4, <1>t DEF Enqueue
  <2>5. CASE Reject(p, c)
    BY <2>1, <2>5, <1>t DEF Reject, semVars
  <2> QED BY <2>2, <2>3, <2>4, <2>5
<1>2. PermitsConserved'
  <2>1. CASE AcceptSpawn(p, c)
    <3>1. task[c] = "free" /\ task'[c] = "connecting"
      BY <2>1, <1>t DEF AcceptSpawn
    <3>2. Count(task', PermitStates) = Count(task, PermitStates) + 1
      BY <3>1, <1>1, CountGain, SMTT(30) DEF PermitStates
    <3>3. Count(task', SlotStates) = Count(task, SlotStates)
      BY <3>1, <1>1, CountSame DEF SlotStates
    <3> QED BY <2>1, <3>2, <3>3, <1>n, <1>t DEF AcceptSpawn, PermitsConserved
  <2>2. CASE Enqueue(p, c)
    <3>1. task[c] = "offered" /\ task'[c] = "queued"
      BY <2>2, <1>t DEF Enqueue, SocketsOwned
    <3>2. Count(task', PermitStates) = Count(task, PermitStates)
      BY <3>1, <1>1, CountSame DEF PermitStates
    <3>3. Count(task', SlotStates) = Count(task, SlotStates) + 1
      BY <3>1, <1>1, CountGain DEF SlotStates
    <3> QED BY <2>2, <3>2, <3>3, <1>n, <1>t DEF Enqueue, PermitsConserved
  <2>3. CASE AcceptFull(p, c) \/ Reject(p, c)
    <3>1. task[c] \in {"free", "offered"} /\ task'[c] \in {"free", "offered"}
      BY <2>3, <1>a, <1>t DEF AcceptFull, Reject
    <3>2. Count(task', PermitStates) = Count(task, PermitStates)
      BY <3>1, <1>1, CountSame DEF PermitStates
    <3>3. Count(task', SlotStates) = Count(task, SlotStates)
      BY <3>1, <1>1, CountSame DEF SlotStates
    <3> QED BY <2>3, <3>2, <3>3 DEF AcceptFull, Reject, PermitsConserved, semVars
  <2> QED BY <2>1, <2>2, <2>3
<1>3. QueueNeverStuck'
  <2>1. \A d \in Conns : task'[d] = "waiting" <=> task[d] = "waiting"
    BY <1>1, <1>a, <1>t DEF AcceptSpawn, AcceptFull, Enqueue, Reject
  <2>2. open_permits' > 0 => open_permits > 0
    BY <1>t DEF AcceptSpawn, AcceptFull, Enqueue, Reject, semVars
  <2> QED BY <1>1, <2>1, <2>2, QueueSame
<1>4. TasksOwned'
  <2>1. CASE AcceptSpawn(p, c) \/ Enqueue(p, c)
    <3>1. /\ connections' = [connections EXCEPT ![p] = @ \cup {c}]
          /\ task'[c] \in Live
      BY <2>1, <1>t DEF AcceptSpawn, Enqueue, Live, PermitStates, SlotStates
    <3> QED BY <3>1, <1>1, <1>a, <1>o, <1>t DEF TasksOwned
  <2>2. CASE AcceptFull(p, c) \/ Reject(p, c)
    <3>1. connections' = connections /\ task'[c] \notin Live
      BY <2>2, <1>t DEF AcceptFull, Reject, Live, PermitStates, SlotStates
    <3> QED BY <3>1, <1>1, <1>a, <1>o, <1>t DEF TasksOwned
  <2> QED BY <2>1, <2>2
<1>5. SocketsOwned'
  <2>1. CASE AcceptSpawn(p, c)
    BY <2>1, <1>1, <1>t DEF AcceptSpawn, SocketsOwned
  <2>2. CASE AcceptFull(p, c)
    BY <2>2, <1>1, <1>t DEF AcceptFull, SocketsOwned
  <2>3. CASE Enqueue(p, c) \/ Reject(p, c)
    <3>1. /\ in_sock' = [in_sock EXCEPT ![p] = {}] /\ in_sock[p] = {c}
          /\ task'[c] # "offered" /\ listener' = [listener EXCEPT ![p] = "reap"]
      BY <2>3, <1>t DEF Enqueue, Reject, SocketsOwned
    <3>2. \A q \in Ports \ {p} : /\ in_sock'[q] = in_sock[q] /\ c \notin in_sock[q]
                                 /\ listener'[q] = listener[q]
      BY <3>1, <1>t DEF SocketsOwned
    <3>3. in_sock'[p] = {}
      BY <3>1, <1>t
    <3>4. ASSUME NEW d \in Conns, task'[d] = "offered"
          PROVE  \E q \in Ports : d \in in_sock'[q]
      <4>1. d # c /\ task[d] = "offered"
        BY <3>1, <3>4, <1>1
      <4> QED BY <4>1, <3>1, <3>2 DEF SocketsOwned
    <3>5. ASSUME NEW q \in Ports, NEW d \in in_sock'[q]
          PROVE  task'[d] = "offered" /\ in_sock'[q] = {d} /\ listener'[q] = "queueing"
      <4>1. q # p /\ d \in in_sock[q] /\ d # c /\ d \in Conns
        BY <3>2, <3>3, <3>5, <1>t
      <4> QED BY <4>1, <3>2, <1>1 DEF SocketsOwned
    <3>6. \A q, r \in Ports : q # r => in_sock'[q] \cap in_sock'[r] = {}
      BY <3>2, <3>3 DEF SocketsOwned
    <3> QED BY <3>4, <3>5, <3>6 DEF SocketsOwned
  <2> QED BY <2>1, <2>2, <2>3
<1>6. JoinSetsDropped' /\ Outcomes'
  BY <1>1, <1>t DEF AcceptSpawn, AcceptFull, Enqueue, Reject, JoinSetsDropped, Outcomes
<1>7. TypeOK'
  BY <1>t, <1>1, <1>2, TypeStep
<1> QED BY <1>2, <1>3, <1>4, <1>5, <1>6, <1>7

\* What a connection task does on its own leaves every owner as it was when
\* the task stays live.
LEMMA OwnersKept ==
  ASSUME IInv, UNCHANGED <<listener, accept_res, in_sock, connections, aborted, cancelled>>,
         \A d \in Conns : \/ task'[d] = task[d]
                          \/ task[d] \in Live /\ task'[d] \in Live
  PROVE  TasksOwned' /\ SocketsOwned' /\ JoinSetsDropped' /\ Outcomes'
<1>1. "offered" \notin Live
  BY DEF Live, PermitStates, SlotStates
<1>2. \A d \in Conns : /\ task'[d] \in Live <=> task[d] \in Live
                       /\ task'[d] \in Joinable <=> task[d] \in Joinable
                       /\ task'[d] = "offered" <=> task[d] = "offered"
  BY <1>1 DEF Joinable, Live, PermitStates, SlotStates
<1>t. aborted \subseteq Conns /\ connections \in [Ports -> SUBSET Conns]
      /\ in_sock \in [Ports -> SUBSET Conns]
  BY DEF IInv, TypeOK
<1>3. TasksOwned'
  BY <1>2, <1>t DEF IInv, TasksOwned
<1>4. SocketsOwned'
  BY <1>2, <1>t DEF IInv, SocketsOwned
<1>5. JoinSetsDropped' /\ Outcomes'
  BY DEF IInv, JoinSetsDropped, Outcomes
<1> QED BY <1>3, <1>4, <1>5

\* A task that ends hands its permit on and is joinable, or gone if aborted.
LEMMA OwnersOfEnded ==
  ASSUME IInv, UNCHANGED <<listener, accept_res, in_sock, connections, cancelled>>,
         NEW c \in Conns, task[c] \in Live, aborted' = aborted \ {c},
         IF c \in aborted THEN task'[c] = "free" ELSE task'[c] \in Joinable,
         \A d \in Conns \ {c} : \/ task'[d] = task[d]
                                \/ task[d] \in Live /\ task'[d] \in Live
  PROVE  TasksOwned' /\ SocketsOwned' /\ JoinSetsDropped' /\ Outcomes'
<1>1. /\ "offered" \notin Live \cup Joinable /\ "free" \notin Live \cup Joinable
      /\ Live \cap Joinable = {} /\ "free" # "offered"
  BY DEF Live, PermitStates, SlotStates, Joinable
<1>2. \A d \in Conns \ {c} : /\ task'[d] \in Live <=> task[d] \in Live
                             /\ task'[d] \in Joinable <=> task[d] \in Joinable
                             /\ task'[d] = "offered" <=> task[d] = "offered"
  BY <1>1
<1>t. aborted \subseteq Conns /\ connections \in [Ports -> SUBSET Conns]
      /\ in_sock \in [Ports -> SUBSET Conns]
  BY DEF IInv, TypeOK
<1>3. TasksOwned'
  BY <1>1, <1>2, <1>t DEF IInv, TasksOwned
<1>4. SocketsOwned'
  <2>1. task[c] # "offered" /\ task'[c] # "offered"
    BY <1>1
  <2>2. \A d \in Conns : task'[d] = "offered" <=> task[d] = "offered"
    BY <2>1, <1>2
  <2> QED BY <2>2, <1>t DEF IInv, SocketsOwned
<1>5. JoinSetsDropped' /\ Outcomes'
  BY DEF IInv, JoinSetsDropped, Outcomes
<1> QED BY <1>3, <1>4, <1>5

\* Waiting for a permit, getting it, connecting and copying: the permits and
\* slots a task holds follow its state.
LEMMA ProgressStep ==
  ASSUME IInv, NEW c \in Conns,
         \/ PollAcquire(c) \/ StartGranted(c) \/ CopyEnd(c)
         \/ \E s \in {"copying", "closing"} : ConnectDone(c, s)
  PROVE  IInv'
<1> USE DEF IInv
<1>t. /\ task \in [Conns -> TaskStates] /\ open_permits \in Nat /\ queue_permits \in Nat
      /\ waiters \in Seq(Conns) /\ Len(waiters) \in Nat
  BY LimitsAssumption DEF TypeOK
<1>n. /\ Count(task, PermitStates) \in Nat /\ Count(task, SlotStates) \in Nat
      /\ MaxConnections \in Nat /\ MaxQueue \in Nat
  BY CountNat, LimitsAssumption
<1>1. /\ task' \in [Conns -> TaskStates]
      /\ task[c] \in Live /\ task'[c] \in Live
      /\ \A d \in Conns \ {c} : task'[d] = task[d]
      /\ UNCHANGED <<runVars, cancelled, listener, accept_res, in_sock, connections, aborted>>
  BY <1>t DEF PollAcquire, StartGranted, CopyEnd, ConnectDone, TaskStates, Live,
              PermitStates, SlotStates
<1>2. TasksOwned' /\ SocketsOwned' /\ JoinSetsDropped' /\ Outcomes'
  BY <1>1, OwnersKept
<1>3. /\ PermitsConserved' /\ QueueNeverStuck'
      /\ open_permits' \in Nat /\ queue_permits' \in Nat /\ waiters' \in Seq(Conns)
  <2>1. CASE PollAcquire(c) /\ open_permits > 0
    <3>1. /\ task[c] = "queued" /\ task'[c] = "granted"
          /\ open_permits' = open_permits - 1 /\ UNCHANGED <<queue_permits, waiters>>
      BY <2>1, <1>t DEF PollAcquire
    <3>2. Count(task', PermitStates) = Count(task, PermitStates) + 1
      BY <3>1, <1>1, CountGain DEF PermitStates
    <3>3. Count(task', SlotStates) = Count(task, SlotStates)
      BY <3>1, <1>1, CountSame DEF SlotStates
    <3>4. QueueNeverStuck'
      BY <2>1, <3>1, <1>1, QueueSame
    <3> QED BY <2>1, <3>1, <3>2, <3>3, <3>4, <1>n, <1>t DEF PermitsConserved
  <2>2. CASE PollAcquire(c) /\ ~(open_permits > 0)
    <3>1. /\ task[c] = "queued" /\ task'[c] = "waiting"
          /\ waiters' = Append(waiters, c) /\ UNCHANGED <<open_permits, queue_permits>>
      BY <2>2, <1>t DEF PollAcquire
    <3>2. Count(task', PermitStates) = Count(task, PermitStates)
      BY <3>1, <1>1, CountSame DEF PermitStates
    <3>3. Count(task', SlotStates) = Count(task, SlotStates)
      BY <3>1, <1>1, CountSame DEF SlotStates
    <3> DEFINE n == Len(waiters)
               w == waiters'
    <3>4. /\ w \in Seq(Conns) /\ Len(w) = n + 1 /\ n \in Nat /\ w[n + 1] = c
          /\ \A i \in 1 .. n : w[i] = waiters[i]
      BY <3>1, <1>t
    <3>5. /\ \A i, j \in 1 .. n : waiters[i] = waiters[j] => i = j
          /\ \A d \in Conns : task[d] = "waiting" <=> \E i \in 1 .. n : waiters[i] = d
          /\ \A i \in 1 .. n : waiters[i] # c
      BY <3>1 DEF QueueNeverStuck
    <3> HIDE DEF n, w
    <3>6. \A i \in 1 .. n + 1 : i \in 1 .. n \/ i = n + 1
      BY <3>4
    <3>7. \A i, j \in 1 .. n + 1 : w[i] = w[j] => i = j
      BY <3>4, <3>5, <3>6
    <3>8. ASSUME NEW d \in Conns
          PROVE  task'[d] = "waiting" <=> \E i \in 1 .. n + 1 : w[i] = d
      <4>1. CASE d = c
        <5>1. n + 1 \in 1 .. n + 1
          BY <3>4
        <5> QED BY <4>1, <5>1, <3>1, <3>4
      <4>2. CASE d # c
        <5>1. \A i \in 1 .. n : i \in 1 .. n + 1
          BY <3>4
        <5>2. task'[d] = task[d]
          BY <4>2, <1>1
        <5> QED BY <4>2, <5>1, <5>2, <3>4, <3>5, <3>6
      <4> QED BY <4>1, <4>2
    <3>9. QueueNeverStuck'
      BY <2>2, <3>1, <3>4, <3>7, <3>8 DEF QueueNeverStuck, w
    <3> QED BY <3>1, <3>2, <3>3, <3>4, <3>9, <1>n, <1>t DEF PermitsConserved, w
  <2>3. CASE StartGranted(c)
    <3>1. /\ task[c] = "granted" /\ task'[c] = "connecting"
          /\ queue_permits' = queue_permits + 1 /\ UNCHANGED <<open_permits, waiters>>
      BY <2>3, <1>t DEF StartGranted
    <3>2. Count(task', PermitStates) = Count(task, PermitStates)
      BY <3>1, <1>1, CountSame DEF PermitStates
    <3>3. Count(task', SlotStates) = Count(task, SlotStates) - 1
      BY <3>1, <1>1, CountLose DEF SlotStates
    <3>4. QueueNeverStuck'
      BY <3>1, <1>1, QueueSame
    <3> QED BY <3>1, <3>2, <3>3, <3>4, <1>n, <1>t DEF PermitsConserved
  <2>4. CASE CopyEnd(c) \/ \E s \in {"copying", "closing"} : ConnectDone(c, s)
    <3>1. /\ task[c] \in {"connecting", "copying"} /\ task'[c] \in {"copying", "closing"}
          /\ UNCHANGED <<open_permits, queue_permits, waiters>>
      BY <2>4, <1>t DEF CopyEnd, ConnectDone, semVars
    <3>2. Count(task', PermitStates) = Count(task, PermitStates)
      BY <3>1, <1>1, CountSame DEF PermitStates
    <3>3. Count(task', SlotStates) = Count(task, SlotStates)
      BY <3>1, <1>1, CountSame DEF SlotStates
    <3>4. QueueNeverStuck'
      BY <3>1, <1>1, QueueSame
    <3> QED BY <3>1, <3>2, <3>3, <3>4, <1>n, <1>t DEF PermitsConserved
  <2> QED BY <2>1, <2>2, <2>3, <2>4
<1>4. TypeOK'
  <2>1. /\ listener' \in [Ports -> ListenerStates]
        /\ accept_res' \in [Ports -> PermanentErrors \cup {"pending", "Ok", "panic"}]
        /\ in_sock' \in [Ports -> SUBSET Conns]
        /\ connections' \in [Ports -> SUBSET Conns]
        /\ aborted' \in SUBSET Conns
    BY <1>1 DEF TypeOK
  <2> QED BY <2>1, <1>1, <1>3, TypeStep
<1> QED BY <1>2, <1>3, <1>4

\* An aborted task whose acquire is dropped gives up the permit it was handed,
\* or its place in the FIFO, and keeps its queue slot.
LEMMA AcquireDropped ==
  ASSUME IInv, NEW c \in Conns, DropAcquire(c)
  PROVE  IInv'
<1> USE DEF IInv
<1>t. /\ task \in [Conns -> TaskStates] /\ open_permits \in Nat /\ queue_permits \in Nat
      /\ waiters \in Seq(Conns)
  BY LimitsAssumption DEF TypeOK
<1>n. /\ Count(task, PermitStates) \in Nat /\ Count(task, SlotStates) \in Nat
      /\ MaxConnections \in Nat /\ MaxQueue \in Nat
  BY CountNat, LimitsAssumption
<1>s. /\ {"waiting", "granted", "leaving"} \subseteq Live /\ Live \subseteq TaskStates
      /\ {"waiting", "granted", "leaving"} \subseteq SlotStates
      /\ "granted" \in PermitStates
      /\ "waiting" \notin PermitStates /\ "leaving" \notin PermitStates
  BY DEF Live, PermitStates, SlotStates, TaskStates
<1>1. /\ queue_permits' = queue_permits
      /\ UNCHANGED <<runVars, cancelled, listener, accept_res, in_sock, connections, aborted>>
  BY DEF DropAcquire
<1>2. /\ task' \in [Conns -> TaskStates]
      /\ task[c] \in Live /\ task'[c] \in Live
      /\ \A d \in Conns \ {c} : \/ task'[d] = task[d]
                                \/ task[d] = "waiting" /\ task'[d] = "granted"
      /\ PermitsConserved' /\ QueueNeverStuck'
      /\ open_permits' \in Nat /\ waiters' \in Seq(Conns)
  <2>1. CASE task[c] = "granted"
    <3>1. Release(c, "leaving") /\ "leaving" \in Joinable \cup {"free", "leaving"}
      BY <2>1 DEF DropAcquire
    <3>2. /\ task' \in [Conns -> TaskStates] /\ task'[c] = "leaving"
          /\ \A d \in Conns \ {c} : \/ task'[d] = task[d]
                                    \/ task[d] = "waiting" /\ task'[d] = "granted"
          /\ QueueNeverStuck' /\ open_permits' \in Nat /\ waiters' \in Seq(Conns)
          /\ Count(task', PermitStates) + open_permits' = MaxConnections
          /\ Count(task', SlotStates) = Count(task, SlotStates)
      BY <2>1, <3>1, <1>s, ReleaseEffect
    <3> QED BY <2>1, <3>2, <1>1, <1>s DEF PermitsConserved
  <2>2. CASE task[c] = "waiting"
    <3>1. Unpark(c) /\ task' = [task EXCEPT ![c] = "leaving"] /\ open_permits' = open_permits
      BY <2>2 DEF DropAcquire, Unpark
    <3>2. /\ task' \in [Conns -> TaskStates] /\ task'[c] = "leaving"
          /\ \A d \in Conns \ {c} : task'[d] = task[d]
      BY <3>1, <1>t, <1>s
    <3>3. /\ Count(task', PermitStates) = Count(task, PermitStates)
          /\ Count(task', SlotStates) = Count(task, SlotStates)
      <4>1. \A d \in Conns : /\ task[d] \in PermitStates <=> task'[d] \in PermitStates
                             /\ task[d] \in SlotStates <=> task'[d] \in SlotStates
        BY <2>2, <3>2, <1>s
      <4> QED BY <4>1, CountSame
    <3>4. waiters' \in Seq(Conns) /\ QueueNeverStuck'
      BY <2>2, <3>1, UnparkEffect
    <3>5. PermitsConserved'
      BY <3>1, <3>3, <1>1 DEF PermitsConserved
    <3> QED BY <2>2, <3>1, <3>2, <3>4, <3>5, <1>s, <1>t
  <2> QED BY <2>1, <2>2 DEF DropAcquire
<1>3. TasksOwned' /\ SocketsOwned' /\ JoinSetsDropped' /\ Outcomes'
  BY <1>1, <1>2, <1>s, OwnersKept
<1>4. TypeOK'
  <2>1. /\ listener' \in [Ports -> ListenerStates]
        /\ accept_res' \in [Ports -> PermanentErrors \cup {"pending", "Ok", "panic"}]
        /\ in_sock' \in [Ports -> SUBSET Conns]
        /\ connections' \in [Ports -> SUBSET Conns]
        /\ aborted' \in SUBSET Conns /\ queue_permits' \in Nat
    BY <1>1, <1>t DEF TypeOK
  <2> QED BY <2>1, <1>1, <1>2, TypeStep
<1> QED BY <1>2, <1>3, <1>4

\* The end of a task, normal, by a panic or dropped after an abort, returns
\* all it holds and nothing else.
LEMMA EndStep ==
  ASSUME IInv, NEW c \in Conns, Finish(c) \/ TaskPanic(c) \/ DropAborted(c)
  PROVE  IInv'
<1> USE DEF IInv
<1>t. /\ task \in [Conns -> TaskStates] /\ open_permits \in Nat /\ queue_permits \in Nat
      /\ waiters \in Seq(Conns) /\ aborted \in SUBSET Conns
  BY LimitsAssumption DEF TypeOK
<1>n. /\ Count(task, PermitStates) \in Nat /\ Count(task, SlotStates) \in Nat
      /\ MaxConnections \in Nat /\ MaxQueue \in Nat
  BY CountNat, LimitsAssumption
<1>s. /\ PermitStates \subseteq Live /\ SlotStates \subseteq Live
      /\ "waiting" \in SlotStates /\ "granted" \in PermitStates
      /\ {"queued", "leaving"} \subseteq SlotStates \ PermitStates
      /\ "free" \notin Live /\ "free" \in TaskStates /\ "free" # "waiting"
      /\ "leaving" \notin Joinable \cup {"free"}
  BY DEF Live, PermitStates, SlotStates, TaskStates, Joinable
<1>1. /\ task[c] \in Live /\ aborted' = aborted \ {c}
      /\ UNCHANGED <<runVars, cancelled, listener, accept_res, in_sock, connections>>
  BY <1>s DEF Finish, TaskPanic, DropAborted, EndTask, PermitStates
<1>2. /\ task' \in [Conns -> TaskStates]
      /\ IF c \in aborted THEN task'[c] = "free" ELSE task'[c] \in Joinable
      /\ \A d \in Conns \ {c} : \/ task'[d] = task[d]
                                \/ task[d] = "waiting" /\ task'[d] = "granted"
      /\ PermitsConserved' /\ QueueNeverStuck'
      /\ open_permits' \in Nat /\ queue_permits' \in Nat /\ waiters' \in Seq(Conns)
  <2>1. CASE Finish(c) \/ TaskPanic(c)
    <3>1. /\ task[c] \in PermitStates /\ task[c] \notin SlotStates
          /\ queue_permits' = queue_permits
      BY <2>1 DEF Finish, TaskPanic, EndTask, PermitStates, SlotStates
    <3>2. PICK s \in Joinable :
            Release(c, IF c \in aborted THEN "free" ELSE s)
      BY <2>1 DEF Finish, TaskPanic, EndTask, Joinable
    <3>3. CASE c \in aborted
      <4>1. Release(c, "free")
        BY <3>2, <3>3
      <4> QED BY <3>1, <3>3, <4>1, <1>n, <1>t, <1>s, ReleaseEffect DEF PermitsConserved
    <3>4. CASE c \notin aborted
      <4>1. Release(c, s)
        BY <3>2, <3>4
      <4> QED BY <3>1, <3>4, <4>1, <1>n, <1>t, <1>s, ReleaseEffect DEF PermitsConserved
    <3> QED BY <3>3, <3>4
  <2>2. CASE DropAborted(c) /\ task[c] \in PermitStates
    <3>1. /\ Release(c, "free") /\ c \in aborted
          /\ task[c] \notin SlotStates /\ queue_permits' = queue_permits
      BY <2>2, <1>s DEF DropAborted
    <3> QED BY <2>2, <3>1, <1>n, <1>t, <1>s, ReleaseEffect DEF PermitsConserved
  <2>3. CASE DropAborted(c) /\ task[c] \notin PermitStates
    <3>1. /\ task[c] \in {"queued", "leaving"} /\ c \in aborted
          /\ task' = [task EXCEPT ![c] = "free"] /\ waiters' = waiters
          /\ open_permits' = open_permits /\ queue_permits' = queue_permits + 1
      BY <2>3, <1>s DEF DropAborted
    <3>2. /\ task' \in [Conns -> TaskStates] /\ task'[c] = "free"
          /\ \A d \in Conns \ {c} : task'[d] = task[d]
      BY <3>1, <1>t, <1>s
    <3>e. /\ task[c] \notin PermitStates /\ task'[c] \notin PermitStates
          /\ task[c] \in SlotStates /\ task'[c] \notin SlotStates
      BY <3>1, <3>2, <1>s
    <3>3. Count(task', PermitStates) = Count(task, PermitStates)
      BY <3>e, <3>2, CountSame
    <3>4. Count(task', SlotStates) = Count(task, SlotStates) - 1
      BY <3>e, <3>2, CountLose
    <3>5. waiters' \in Seq(Conns) /\ QueueNeverStuck'
      BY <3>1, <3>2, <1>s, <1>t, QueueSame
    <3>6. PermitsConserved' /\ open_permits' \in Nat /\ queue_permits' \in Nat
      BY <3>1, <3>3, <3>4, <1>n, <1>t DEF PermitsConserved
    <3> QED BY <3>1, <3>2, <3>5, <3>6
  <2> QED BY <2>1, <2>2, <2>3
<1>3. TasksOwned' /\ SocketsOwned' /\ JoinSetsDropped' /\ Outcomes'
  BY <1>1, <1>2, <1>s, OwnersOfEnded
<1>4. TypeOK'
  <2>1. /\ listener' \in [Ports -> ListenerStates]
        /\ accept_res' \in [Ports -> PermanentErrors \cup {"pending", "Ok", "panic"}]
        /\ in_sock' \in [Ports -> SUBSET Conns]
        /\ connections' \in [Ports -> SUBSET Conns]
        /\ aborted' \in SUBSET Conns
    BY <1>1 DEF TypeOK
  <2> QED BY <2>1, <1>1, <1>2, TypeStep
<1> QED BY <1>2, <1>3, <1>4

\* IInv is inductive.
LEMMA StepIInv == IInv /\ [Next]_vars => IInv'
<1> SUFFICES ASSUME IInv, [Next]_vars PROVE IInv'
  OBVIOUS
<1>1. CASE RunNext
  BY <1>1, RunStep
<1>2. ASSUME NEW p \in Ports, ListenNext(p) PROVE IInv'
  BY <1>2, ListenQuietStep, ReapStep, AdmitStep DEF ListenNext
<1>3. ASSUME NEW c \in Conns, TaskNext(c) PROVE IInv'
  BY <1>3, ProgressStep, AcquireDropped, EndStep DEF TaskNext
<1>4. CASE UNCHANGED vars
  BY <1>4 DEF vars, runVars, taskVars, semVars, IInv, TypeOK, PermitsConserved, Count,
         QueueNeverStuck, TasksOwned, SocketsOwned, JoinSetsDropped, Outcomes
<1>5. CASE Terminated
  BY <1>4, <1>5 DEF Terminated
<1> QED BY <1>1, <1>2, <1>3, <1>4, <1>5 DEF Next

\* IInv holds in every reachable state.
THEOREM Invariance == Spec => []IInv
BY InitIInv, StepIInv, PTL DEF Spec

\* TypeOK holds in every reachable state: in particular neither semaphore
\* ever holds more permits than it was created with.
THEOREM TypeCorrect == Spec => []TypeOK
<1>1. IInv => TypeOK
  BY DEF IInv
<1> QED BY <1>1, Invariance, PTL

\* No permit of the pool or of the queue is lost or invented by the accept
\* loop, the connection tasks, panics, aborts or the drop of a JoinSet.
THEOREM PermitsAreConserved == Spec => []PermitsConserved
<1>1. IInv => PermitsConserved
  BY DEF IInv
<1> QED BY <1>1, Invariance, PTL

\* A connection parked in the queue is always in the FIFO of the semaphore,
\* and no permit of `open_connections` is idle while one is parked.
THEOREM QueueIsNeverStuck == Spec => []QueueNeverStuck
<1>1. IInv => QueueNeverStuck
  BY DEF IInv
<1> QED BY <1>1, Invariance, PTL

\* Every connection task has an owner that will join or abort it, up to the
\* moment `run` returns.
THEOREM NoConnectionOrphaned == Spec => []NoOrphans
<1>1. IInv => NoOrphans
  BY DEF IInv, NoOrphans
<1> QED BY <1>1, Invariance, PTL

-----------------------------------------------------------------------------
(* The bound on the connections held.                                      *)

\* With MaxConnections permits, MaxQueue slots and one undecided socket per
\* listener, nothing else is held: the offered sockets map one to one to the
\* listeners that hold them.
THEOREM AdmissionIsBounded == Spec => []AdmissionBound
<1>1. IInv => AdmissionBound
  <2> SUFFICES ASSUME IInv PROVE AdmissionBound
    OBVIOUS
  <2> DEFINE A == {c \in Conns : task[c] \in PermitStates}
             B == {c \in Conns : task[c] \in SlotStates}
             O == {c \in Conns : task[c] = "offered"}
             own == [c \in O |-> CHOOSE p \in Ports : c \in in_sock[p]]
  <2>1. /\ {c \in Conns : task[c] \in Live} = A \cup B
        /\ {c \in Conns : task[c] \in {"offered"}} = O
    BY DEF Live
  <2>2. IsFiniteSet(A) /\ IsFiniteSet(B) /\ IsFiniteSet(O)
    BY ConnsAssumption, FS_Subset
  <2>3. \A c \in O : own[c] \in Ports /\ c \in in_sock[own[c]]
    BY DEF IInv, SocketsOwned
  <2>4. own \in Injection(O, Ports)
    <3>1. own \in [O -> Ports]
      BY <2>3
    <3>2. \A c, d \in O : own[c] = own[d] => c = d
      <4> SUFFICES ASSUME NEW c \in O, NEW d \in O, own[c] = own[d] PROVE c = d
        OBVIOUS
      <4>1. own[c] \in Ports /\ c \in in_sock[own[c]] /\ d \in in_sock[own[c]]
        BY <2>3
      <4>2. in_sock[own[c]] = {c} /\ in_sock[own[c]] = {d}
        BY <4>1 DEF IInv, SocketsOwned
      <4> HIDE DEF own
      <4> QED BY <4>2
    <3> HIDE DEF own, O
    <3> QED BY <3>1, <3>2 DEF Injection, IsInjective
  <2> HIDE DEF A, B, O, own
  <2>5. Cardinality(O) <= Cardinality(Ports)
    BY <2>4, PortsAssumption, FS_Injection
  <2>6. /\ IsFiniteSet(A \cup B)
        /\ Cardinality(A \cup B) = Cardinality(A) + Cardinality(B) - Cardinality(A \cap B)
    BY <2>2, FS_Union
  <2>7. Cardinality(A) \in Nat /\ Cardinality(B) \in Nat /\ Cardinality(A \cap B) \in Nat
    BY <2>2, FS_Intersection, FS_CardinalityType
  <2>8. /\ Cardinality(A) + open_permits = MaxConnections
        /\ Cardinality(B) + queue_permits = MaxQueue
        /\ open_permits \in Nat /\ queue_permits \in Nat
    BY LimitsAssumption DEF IInv, TypeOK, PermitsConserved, Count, A, B
  <2>9. Cardinality(A \cup B) <= MaxConnections + MaxQueue
    BY <2>6, <2>7, <2>8, LimitsAssumption
  <2> QED BY <2>1, <2>5, <2>9 DEF AdmissionBound, Count
<1> QED BY <1>1, Invariance, PTL

-----------------------------------------------------------------------------
(* What `run` returns.                                                     *)

ResultInv ==
    /\ run_pc = "bind" =>
         /\ first_error = "none"
         /\ \A p \in Ports : listener[p] \in {"unbound", "bound"}
    /\ run_pc = "join" =>
         /\ \A p \in Ports : listener[p] \notin {"unbound", "bound", "closed"}
         /\ IF \E p \in Ports : listener[p] = "joined" /\ Failed(p)
            THEN /\ cancelled
                 /\ \E p \in Ports : /\ listener[p] = "joined" /\ Failed(p)
                                     /\ first_error = JoinError(p)
            ELSE first_error = "none"
    /\ run_pc = "returned" =>
         \/ \A p \in Ports : listener[p] = "joined"
         \/ /\ \A p \in Ports : listener[p] \in {"unbound", "closed"}
            /\ \E p \in Ports : listener[p] = "unbound"
    /\ ResultFaithful

\* `run` returns Ok exactly when every listener ended well after a requested
\* shutdown; otherwise it returns the error of a listener that failed, or the
\* bind error.
THEOREM ResultIsFaithful == Spec => []ResultFaithful
<1>1. Init => ResultInv
  BY DEF Init, New, ResultInv, ResultFaithful
<1>2. IInv /\ ResultInv /\ [Next]_vars => ResultInv'
  <2> SUFFICES ASSUME IInv, ResultInv, [Next]_vars PROVE ResultInv'
    OBVIOUS
  <2>t. /\ listener \in [Ports -> ListenerStates] /\ cancelled \in BOOLEAN
        /\ accept_res \in [Ports -> PermanentErrors \cup {"pending", "Ok", "panic"}]
    BY DEF IInv, TypeOK
  <2> USE DEF ResultInv, ResultFaithful, Failed, JoinError
  <2>1. CASE Serve
    BY <2>1, <2>t DEF Serve
  <2>2. CASE Signal
    BY <2>2, <2>t DEF Signal, runVars
  <2>3. CASE Return
    BY <2>3, <2>t DEF Return, IInv, Outcomes
  <2>4. ASSUME NEW p \in Ports, BindOk(p) PROVE ResultInv'
    BY <2>4, <2>t DEF BindOk, NextPort, runVars
  <2>5. ASSUME NEW p \in Ports, NEW e \in BindErrors, BindFail(p, e) PROVE ResultInv'
    BY <2>5, <2>t DEF BindFail, NextPort, BindErrors, MaybeIntoBindError
  <2>6. ASSUME NEW p \in Ports, JoinListener(p) PROVE ResultInv'
    <3>1. CASE accept_res[p] = "Ok"
      BY <2>6, <3>1, <2>t DEF JoinListener, PermanentErrors
    <3>2. CASE accept_res[p] # "Ok"
      BY <2>6, <3>2, <2>t DEF JoinListener, PermanentErrors, IInv, Outcomes
    <3> QED BY <3>1, <3>2
  <2>7. ASSUME NEW p \in Ports, ListenNext(p) PROVE ResultInv'
    <3>1. /\ UNCHANGED runVars
          /\ cancelled => cancelled'
          /\ listener[p] \in {"reap", "accept", "queueing", "drain"}
          /\ listener'[p] \in {"reap", "accept", "queueing", "drain", "exited"}
          /\ \A q \in Ports \ {p} : listener'[q] = listener[q] /\ accept_res'[q] = accept_res[q]
      BY <2>7, <2>t DEF ListenNext, Reap, Stop, Drained, DrainDeadline, ListenerPanic,
         AcceptError, AcceptSpawn, AcceptFull, Enqueue, Reject, JoinNext
    <3>2. run_pc = "join"
      BY <3>1, <2>t DEF IInv, TypeOK
    <3> QED BY <3>1, <3>2, <2>t DEF runVars
  <2>8. ASSUME NEW c \in Conns, TaskNext(c) PROVE ResultInv'
    <3>1. UNCHANGED <<runVars, cancelled, listener, accept_res>>
      BY <2>8 DEF TaskNext, PollAcquire, StartGranted, CopyEnd, Finish, TaskPanic,
         EndTask, DropAcquire, DropAborted, ConnectDone
    <3> QED BY <3>1 DEF runVars
  <2>9. CASE Terminated \/ UNCHANGED vars
    BY <2>9 DEF Terminated, vars, runVars
  <2> QED BY <2>1, <2>2, <2>3, <2>4, <2>5, <2>6, <2>7, <2>8, <2>9 DEF Next, RunNext
<1>3. ResultInv => ResultFaithful
  BY DEF ResultInv
<1> QED BY <1>1, <1>2, <1>3, Invariance, PTL DEF Spec
-----------------------------------------------------------------------------
(* A failed bind.                                                          *)

\* A failed bind has nothing to undo: as long as one port is not bound no
\* listener accepts and no task exists, so neither of them can take a step,
\* and the `?` closes what was bound.
THEOREM BindFailureIsClean == Spec => []BindFailureLeavesNothing
<1>1. Init => BindFailureLeavesNothing
  BY DEF Init, New, BindFailureLeavesNothing
<1>2. IInv /\ BindFailureLeavesNothing /\ [Next]_vars => BindFailureLeavesNothing'
  <2> SUFFICES ASSUME IInv, BindFailureLeavesNothing, [Next]_vars
               PROVE  BindFailureLeavesNothing'
    OBVIOUS
  <2>t. listener \in [Ports -> ListenerStates] /\ task \in [Conns -> TaskStates]
    BY DEF IInv, TypeOK
  <2> USE DEF BindFailureLeavesNothing
  <2>1. CASE Serve
    BY <2>1, <2>t DEF Serve
  <2>2. CASE Signal
    BY <2>2, <2>t DEF Signal, runVars, taskVars
  <2>3. CASE Return
    BY <2>3, <2>t DEF Return, taskVars
  <2>4. ASSUME NEW p \in Ports, BindOk(p) PROVE BindFailureLeavesNothing'
    BY <2>4, <2>t DEF BindOk, NextPort, runVars, taskVars
  <2>5. ASSUME NEW p \in Ports, NEW e \in BindErrors, BindFail(p, e)
        PROVE  BindFailureLeavesNothing'
    BY <2>5, <2>t DEF BindFail, NextPort, taskVars
  <2>6. ASSUME NEW p \in Ports, JoinListener(p) PROVE BindFailureLeavesNothing'
    BY <2>6, <2>t DEF JoinListener, taskVars
  <2>7. ASSUME NEW p \in Ports, ListenNext(p) PROVE BindFailureLeavesNothing'
    <3>1. /\ listener[p] \in {"reap", "accept", "queueing", "drain"}
          /\ listener'[p] \in {"reap", "accept", "queueing", "drain", "exited"}
          /\ \A q \in Ports \ {p} : listener'[q] = listener[q]
      BY <2>7, <2>t DEF ListenNext, Reap, Stop, Drained, DrainDeadline, ListenerPanic,
         AcceptError, AcceptSpawn, AcceptFull, Enqueue, Reject, JoinNext
    <3> QED BY <3>1, <2>t
  <2>8. ASSUME NEW c \in Conns, TaskNext(c) PROVE BindFailureLeavesNothing'
    <3>1. UNCHANGED <<runVars, listener>>
      BY <2>8 DEF TaskNext, PollAcquire, StartGranted, CopyEnd, Finish, TaskPanic,
         EndTask, DropAcquire, DropAborted, ConnectDone
    <3>2. task[c] # "free"
      BY <2>8 DEF TaskNext, PollAcquire, StartGranted, CopyEnd, Finish, TaskPanic,
         DropAcquire, DropAborted, ConnectDone, PermitStates
    <3> QED BY <3>1, <3>2 DEF runVars
  <2>9. CASE Terminated \/ UNCHANGED vars
    BY <2>9 DEF Terminated, vars, runVars, taskVars
  <2> QED BY <2>1, <2>2, <2>3, <2>4, <2>5, <2>6, <2>7, <2>8, <2>9 DEF Next, RunNext
<1> QED BY <1>1, <1>2, Invariance, PTL DEF Spec
-----------------------------------------------------------------------------
(* The drain.                                                              *)

\* The body of DrainRunsDown, part by part.
NoneRises ==
    /\ RunRank[run_pc'] <= RunRank[run_pc]
    /\ \A p \in Ports : ListenerRank[listener'[p]] <= ListenerRank[listener[p]]
    /\ \A c \in Conns : TaskRank[task'[c]] <= TaskRank[task[c]]

OneFalls ==
    \/ RunRank[run_pc'] < RunRank[run_pc] \/ cancelled' # cancelled
    \/ \E p \in Ports : ListenerRank[listener'[p]] < ListenerRank[listener[p]]
    \/ \E c \in Conns : TaskRank[task'[c]] < TaskRank[task[c]]

\* The ranks are numbers.
LEMMA RanksAreNumbers ==
  /\ \A s \in {"bind", "join", "returned"} : RunRank[s] \in Nat
  /\ \A s \in {"drain", "exited", "joined"} : ListenerRank[s] \in Nat
  /\ \A s \in TaskStates \ {"offered"} : TaskRank[s] \in Nat
BY DEF RunRank, ListenerRank, TaskRank, TaskStates, Live, PermitStates, SlotStates, Joinable

\* Which moves of a task take it nearer to its end.
LEMMA TaskRanks ==
  /\ \A s \in Live \cup Joinable : TaskRank["free"] < TaskRank[s]
  /\ \A s \in Live, e \in Joinable : TaskRank[e] < TaskRank[s]
  /\ TaskRank["waiting"] < TaskRank["queued"] /\ TaskRank["granted"] < TaskRank["queued"]
  /\ TaskRank["granted"] < TaskRank["waiting"] /\ TaskRank["connecting"] < TaskRank["granted"]
  /\ TaskRank["copying"] < TaskRank["connecting"] /\ TaskRank["closing"] < TaskRank["connecting"]
  /\ TaskRank["closing"] < TaskRank["copying"]
  /\ TaskRank["leaving"] < TaskRank["waiting"] /\ TaskRank["leaving"] < TaskRank["granted"]
BY DEF TaskRank, Live, PermitStates, SlotStates, Joinable

\* Of listeners that have all stopped none holds a socket.
LEMMA StoppedHoldsNoSocket ==
  ASSUME IInv, Stopped
  PROVE  \A c \in Conns : task[c] \in TaskStates \ {"offered"}
BY DEF IInv, TypeOK, SocketsOwned, Stopped

\* A task moves nearer to its end; those that stay keep their rank.
LEMMA TaskFalls ==
  ASSUME IInv, Stopped, NEW c \in Conns,
         task'[c] \in TaskStates \ {"offered"}, TaskRank[task'[c]] < TaskRank[task[c]],
         \A d \in Conns \ {c} : \/ task'[d] = task[d]
                                \/ task[d] = "waiting" /\ task'[d] = "granted",
         UNCHANGED <<runVars, listener>>
  PROVE  Stopped' /\ NoneRises /\ OneFalls
<1>1. /\ run_pc \in {"bind", "join", "returned"}
      /\ \A p \in Ports : listener[p] \in {"drain", "exited", "joined"}
  BY DEF IInv, TypeOK, Stopped
<1>2. Stopped' /\ OneFalls
  BY DEF Stopped, OneFalls
<1>3. RunRank[run_pc] \in Nat /\ \A p \in Ports : ListenerRank[listener[p]] \in Nat
  BY <1>1, RanksAreNumbers
<1>4. \A d \in Conns : TaskRank[task[d]] \in Nat
  BY RanksAreNumbers, StoppedHoldsNoSocket
<1>5. TaskRank[task'[c]] <= TaskRank[task[c]]
  BY <1>4, RanksAreNumbers
<1>6. ASSUME NEW d \in Conns \ {c} PROVE TaskRank[task'[d]] <= TaskRank[task[d]]
  <2>1. CASE task'[d] = task[d]
    BY <2>1, <1>4
  <2>2. CASE task[d] = "waiting" /\ task'[d] = "granted"
    BY <2>2, TaskRanks DEF TaskRank
  <2> QED BY <2>1, <2>2
<1> QED BY <1>2, <1>3, <1>5, <1>6 DEF NoneRises, runVars

\* A listener, or `run`, moves nearer to its end; the tasks it joins or whose
\* results it forgets are over.
LEMMA ListenerFalls ==
  ASSUME IInv, Stopped,
         RunRank[run_pc'] <= RunRank[run_pc],
         \A p \in Ports : ListenerRank[listener'[p]] <= ListenerRank[listener[p]],
         \A c \in Conns : \/ task'[c] = task[c]
                          \/ task[c] \in Joinable /\ task'[c] = "free"
  PROVE  NoneRises
<1>1. \A c \in Conns : TaskRank[task[c]] \in Nat
  BY RanksAreNumbers, StoppedHoldsNoSocket
<1>2. ASSUME NEW c \in Conns PROVE TaskRank[task'[c]] <= TaskRank[task[c]]
  <2>1. CASE task'[c] = task[c]
    BY <2>1, <1>1
  <2>2. CASE task[c] \in Joinable /\ task'[c] = "free"
    BY <2>2 DEF TaskRank, Joinable
  <2> QED BY <2>1, <2>2
<1> QED BY <1>2 DEF NoneRises

\* Every step of a server whose listeners have stopped takes it nearer to
\* its end.
LEMMA DrainStep ==
  ASSUME IInv, Stopped, Next
  PROVE  (Stopped' /\ NoneRises /\ OneFalls) \/ UNCHANGED vars
<1> DEFINE Goal == Stopped' /\ NoneRises /\ OneFalls
<1>t. /\ task \in [Conns -> TaskStates] /\ listener \in [Ports -> ListenerStates]
      /\ run_pc \in {"bind", "join", "returned"} /\ cancelled \in BOOLEAN
      /\ \A c \in Conns : task[c] \in TaskStates \ {"offered"}
  BY StoppedHoldsNoSocket DEF IInv, TypeOK
<1>r. /\ RunRank[run_pc] \in Nat
      /\ \A p \in Ports : ListenerRank[listener[p]] \in Nat
      /\ \A c \in Conns : TaskRank[task[c]] \in Nat
  BY <1>t, RanksAreNumbers DEF Stopped
<1>1. ASSUME Serve \/ Return PROVE Goal
  <2>1. /\ run_pc' \in {"join", "returned"} /\ RunRank[run_pc'] < RunRank[run_pc]
        /\ task' = task
    BY <1>1 DEF Serve, Return, RunRank, taskVars
  <2>2. \A p \in Ports : listener'[p] = listener[p]
    BY <1>1 DEF Serve, Return, Stopped
  <2> QED BY <2>1, <2>2, <1>r DEF Stopped, NoneRises, OneFalls, RunRank
<1>2. ASSUME Signal PROVE Goal
  <2>1. run_pc' = run_pc /\ listener' = listener /\ task' = task
    BY <1>2 DEF Signal, runVars, taskVars
  <2>2. cancelled' # cancelled
    BY <1>2, Zenon DEF Signal
  <2> QED BY <2>1, <2>2, <1>r DEF Stopped, NoneRises, OneFalls
<1>3. ASSUME NEW p \in Ports, JoinListener(p) PROVE Goal
  <2>1. /\ listener[p] = "exited" /\ listener' = [listener EXCEPT ![p] = "joined"]
        /\ run_pc' = run_pc /\ task' = task
    BY <1>3 DEF JoinListener, taskVars
  <2> QED BY <2>1, <1>r, <1>t DEF Stopped, NoneRises, OneFalls, ListenerRank
<1>4. ASSUME NEW p \in Ports, NEW e \in BindErrors, BindOk(p) \/ BindFail(p, e) PROVE Goal
  BY <1>4 DEF BindOk, BindFail, NextPort, Stopped
<1>5. ASSUME NEW p \in Ports, Drained(p) \/ DrainDeadline(p) PROVE Goal
  <2>1. /\ listener[p] = "drain" /\ listener' = [listener EXCEPT ![p] = "exited"]
        /\ run_pc' = run_pc
    BY <1>5 DEF Drained, DrainDeadline, runVars
  <2>2. \A c \in Conns : \/ task'[c] = task[c]
                         \/ task[c] \in Joinable /\ task'[c] = "free"
    BY <1>5 DEF Drained, DrainDeadline, DropJoinSet, Reaped, taskVars
  <2>3. /\ ListenerRank[listener'[p]] < ListenerRank[listener[p]]
        /\ \A q \in Ports : ListenerRank[listener'[q]] <= ListenerRank[listener[q]]
    BY <2>1, <1>r, <1>t DEF ListenerRank
  <2>4. Stopped' /\ OneFalls
    BY <2>1, <2>3, <1>t DEF Stopped, OneFalls
  <2> QED BY <2>1, <2>2, <2>3, <2>4, <1>r, <1>t, ListenerFalls
<1>6. ASSUME NEW p \in Ports, NEW c \in Conns, JoinNext(p, c) PROVE Goal
  <2>1. /\ task[c] \in Joinable /\ task' = [task EXCEPT ![c] = "free"]
        /\ UNCHANGED <<runVars, listener>>
    BY <1>6 DEF JoinNext, Reaped
  <2>2. /\ task'[c] = "free" /\ \A d \in Conns \ {c} : task'[d] = task[d]
        /\ "free" \in TaskStates \ {"offered"}
    BY <2>1, <1>t DEF TaskStates
  <2>3. TaskRank[task'[c]] < TaskRank[task[c]]
    BY <2>1, <2>2, TaskRanks
  <2> QED BY <2>1, <2>2, <2>3, TaskFalls
<1>7. ASSUME NEW p \in Ports, ListenNext(p) PROVE Goal
  <2>1. \/ Drained(p) \/ DrainDeadline(p) \/ \E c \in Conns : JoinNext(p, c)
    BY <1>7 DEF ListenNext, Stopped, Reap, Stop, ListenerPanic, AcceptError, AcceptSpawn,
       AcceptFull, Enqueue, Reject
  <2> QED BY <2>1, <1>5, <1>6
<1>8. ASSUME NEW c \in Conns,
             \/ PollAcquire(c) \/ StartGranted(c) \/ CopyEnd(c)
             \/ \E s \in {"copying", "closing"} : ConnectDone(c, s)
      PROVE  Goal
  <2>1. PICK s \in TaskStates \ {"offered"} :
          task' = [task EXCEPT ![c] = s] /\ TaskRank[s] < TaskRank[task[c]]
    BY <1>8, TaskRanks DEF PollAcquire, StartGranted, CopyEnd, ConnectDone, TaskStates, Live,
       PermitStates, SlotStates
  <2>2. task'[c] = s /\ \A d \in Conns \ {c} : task'[d] = task[d]
    BY <2>1, <1>t
  <2>3. UNCHANGED <<runVars, listener>>
    BY <1>8 DEF PollAcquire, StartGranted, CopyEnd, ConnectDone
  <2> QED BY <2>1, <2>2, <2>3, TaskFalls
<1>9. ASSUME NEW c \in Conns, Finish(c) \/ TaskPanic(c) \/ DropAcquire(c) \/ DropAborted(c)
      PROVE  Goal
  <2>1. UNCHANGED <<runVars, listener>>
    BY <1>9 DEF Finish, TaskPanic, EndTask, DropAcquire, DropAborted
  <2>2. ASSUME NEW s \in Joinable \cup {"free", "leaving"}, task[c] \in PermitStates,
               s = "leaving" => task[c] = "granted", Release(c, s)
        PROVE  Goal
    <3>1. /\ task'[c] = s
          /\ \A d \in Conns \ {c} : \/ task'[d] = task[d]
                                    \/ task[d] = "waiting" /\ task'[d] = "granted"
      BY <2>2, ReleaseEffect DEF IInv
    <3>2. TaskRank[s] < TaskRank[task[c]] /\ s \in TaskStates \ {"offered"}
      BY <2>2, TaskRanks DEF Live, TaskStates, SlotStates, Joinable
    <3> QED BY <2>1, <3>1, <3>2, TaskFalls
  <2>3. CASE Finish(c) \/ TaskPanic(c)
    <3>1. /\ task[c] \in PermitStates
          /\ \E s \in Joinable : Release(c, IF c \in aborted THEN "free" ELSE s)
      BY <2>3 DEF Finish, TaskPanic, EndTask, PermitStates, Joinable
    <3>2. \E s \in Joinable \cup {"free"} : Release(c, s) /\ s # "leaving"
      BY <3>1 DEF Joinable
    <3> QED BY <2>2, <3>1, <3>2
  <2>4. CASE DropAborted(c) /\ task[c] \in PermitStates
    BY <2>4, <2>2 DEF DropAborted, PermitStates
  <2>5. CASE DropAcquire(c) /\ task[c] \in PermitStates
    BY <2>5, <2>2 DEF DropAcquire, PermitStates
  <2>6. CASE (DropAborted(c) \/ DropAcquire(c)) /\ task[c] \notin PermitStates
    <3>1. PICK s \in {"free", "leaving"} :
            /\ task' = [task EXCEPT ![c] = s]
            /\ IF s = "free" THEN task[c] \in {"queued", "leaving"} ELSE task[c] = "waiting"
      BY <2>6 DEF DropAborted, DropAcquire, Unpark, PermitStates
    <3>2. /\ task'[c] = s /\ \A d \in Conns \ {c} : task'[d] = task[d]
          /\ s \in TaskStates \ {"offered"}
      BY <3>1, <1>t DEF TaskStates, Live, SlotStates
    <3>3. TaskRank[task'[c]] < TaskRank[task[c]]
      BY <3>1, <3>2, TaskRanks DEF Live, SlotStates
    <3> QED BY <2>1, <3>2, <3>3, TaskFalls
  <2> QED BY <1>9, <2>3, <2>4, <2>5, <2>6
<1>10. ASSUME Terminated PROVE UNCHANGED vars
  BY <1>10 DEF Terminated
<1> HIDE DEF Goal
<1>11. Goal \/ UNCHANGED vars
  <2>1. CASE RunNext
    <3>1. "IoError" \in BindErrors
      BY DEF BindErrors
    <3> QED BY <2>1, <3>1, <1>1, <1>2, <1>3, <1>4 DEF RunNext
  <2>2. CASE \E c \in Conns : TaskNext(c)
    BY <2>2, <1>8, <1>9 DEF TaskNext
  <2> QED BY <2>1, <2>2, <1>7, <1>10 DEF Next
<1> QED BY <1>11 DEF Goal

\* Once every listener has stopped, the drain ends after boundedly many
\* steps, in whatever order tasks end, panic or are aborted, listeners reach
\* their deadlines and `run` joins them.
THEOREM DrainIsBounded == Spec => DrainRunsDown
<1>1. IInv /\ [Next]_vars =>
        [Stopped => /\ Stopped'
                    /\ RunRank[run_pc'] <= RunRank[run_pc]
                    /\ \A p \in Ports : ListenerRank[listener'[p]] <= ListenerRank[listener[p]]
                    /\ \A c \in Conns : TaskRank[task'[c]] <= TaskRank[task[c]]
                    /\ \/ RunRank[run_pc'] < RunRank[run_pc] \/ cancelled' # cancelled
                       \/ \E p \in Ports : ListenerRank[listener'[p]] < ListenerRank[listener[p]]
                       \/ \E c \in Conns : TaskRank[task'[c]] < TaskRank[task[c]]]_vars
  <2> SUFFICES ASSUME IInv, Stopped, [Next]_vars
               PROVE  (Stopped' /\ NoneRises /\ OneFalls) \/ UNCHANGED vars
    BY DEF NoneRises, OneFalls
  <2> QED BY DrainStep
<1> QED BY <1>1, Invariance, PTL DEF Spec, DrainRunsDown
=============================================================================
