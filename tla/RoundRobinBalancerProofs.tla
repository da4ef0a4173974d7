----------------------- MODULE RoundRobinBalancerProofs -----------------------
(***************************************************************************)
(* Proofs about connect_backend, for any configuration, any number of      *)
(* callers and any counter width.                                          *)
(*                                                                         *)
(* SearchComplete speaks of calls that have given up.  It is inductive     *)
(* once it is said what a call knows while it searches: every position the *)
(* first pass has looked at was tried, seen drained, or is still among     *)
(* those put aside.  A call changes only its own record, so the invariant  *)
(* is proved of one record, action by action.                              *)
(***************************************************************************)
EXTENDS RoundRobinBalancer, SimpleCooldownHandlerProofs

CallOK(k) ==
    /\ k \in CallType
    /\ k.pc = "idle" => k = NoCall
    /\ k.pc \notin {"idle", "done"} => k.backends # <<>>
    /\ k.pc \in {"resolve", "dial"} => k.attempts # <<>>
    /\ k.pc = "match" => k.i < Len(k.backends)
    /\ 2 * Len(k.backends) <= UsizeMod + 1
    /\ InPool(k)
    /\ \A n \in Nat : n < k.i => n \in Covered(k)
    /\ k.outcome = "ConnectionError" =>
         k.pc = "done" /\ k.i = Len(k.backends) /\ k.cooling = <<>>

CallsOK == /\ call \in [Callers -> CallType]
           /\ \A c \in Callers : CallOK(call[c])

BalancerInv ==
    /\ HandlerInv
    /\ rr_counter \in [DOMAIN Pools -> 0 .. UsizeMod - 1]
    /\ CallsOK

\* Appending a position adds it to the elements of a sequence.
LEMMA ElemsAppend ==
  ASSUME NEW s \in Seq(Nat), NEW x \in Nat
  PROVE  Append(s, x) \in Seq(Nat) /\ Append(s, x) # <<>>
         /\ Elems(Append(s, x)) = Elems(s) \cup {x}
<1>1. /\ Append(s, x) \in Seq(Nat) /\ Len(Append(s, x)) = Len(s) + 1 /\ Len(s) \in Nat
      /\ \A n \in 1 .. Len(s) : Append(s, x)[n] = s[n]
      /\ Append(s, x)[Len(s) + 1] = x
  OBVIOUS
<1>2. ASSUME NEW y \in Elems(Append(s, x)) PROVE y \in Elems(s) \cup {x}
  BY <1>1, <1>2 DEF Elems
<1>3. ASSUME NEW y \in Elems(s) \cup {x} PROVE y \in Elems(Append(s, x))
  BY <1>1, <1>3 DEF Elems
<1>4. Append(s, x) # <<>>
  BY <1>1
<1> QED BY <1>1, <1>2, <1>3, <1>4

\* The elements of a sequence are its head and those of its tail.
LEMMA ElemsTail ==
  ASSUME NEW s \in Seq(Nat), s # <<>>
  PROVE  Head(s) \in Nat /\ Tail(s) \in Seq(Nat)
         /\ Elems(s) = {Head(s)} \cup Elems(Tail(s))
<1>1. /\ Head(s) \in Nat /\ Head(s) = s[1] /\ Tail(s) \in Seq(Nat)
      /\ Len(Tail(s)) = Len(s) - 1 /\ Len(s) \in Nat /\ Len(s) > 0
      /\ \A n \in 1 .. Len(s) - 1 : Tail(s)[n] = s[n + 1]
  OBVIOUS
<1>2. ASSUME NEW y \in Elems(s) PROVE y \in {Head(s)} \cup Elems(Tail(s))
  <2>1. PICK n \in 1 .. Len(s) : y = s[n]
    BY <1>2 DEF Elems
  <2>2. CASE n = 1
    BY <2>1, <2>2, <1>1
  <2>3. CASE n # 1
    <3>1. n - 1 \in 1 .. Len(Tail(s)) /\ Tail(s)[n - 1] = y
      BY <2>1, <2>3, <1>1
    <3> QED BY <3>1 DEF Elems
  <2> QED BY <2>2, <2>3
<1>3. ASSUME NEW y \in {Head(s)} \cup Elems(Tail(s)) PROVE y \in Elems(s)
  BY <1>1, <1>3 DEF Elems
<1> QED BY <1>1, <1>2, <1>3

\* An idle record is in order.
LEMMA NoCallOK == CallOK(NoCall)
<1>1. <<>> \in Seq(Targets) /\ <<>> \in Seq(Nat)
  OBVIOUS
<1>2. Drain \in BackendStatus
  BY DEF BackendStatus
<1>3. NoCall \in CallType
  BY <1>1, <1>2, AddrsAssumption DEF CallType, NoCall, PCs, Outcomes
<1>4. InPool(NoCall)
  BY DEF InPool, Covered, Elems, NoCall
<1> QED BY <1>3, <1>4, UsizeAssumption DEF CallOK, NoCall

\* It is enough to look at the record of the caller that takes the step.
LEMMA CallFrame ==
  ASSUME CallsOK, NEW c \in Callers, NEW k, CallOK(k), call' = [call EXCEPT ![c] = k]
  PROVE  CallsOK'
<1>1. k \in CallType
  BY DEF CallOK
<1>2. call' \in [Callers -> CallType]
  BY <1>1 DEF CallsOK
<1>3. ASSUME NEW d \in Callers PROVE CallOK(call'[d])
  BY DEF CallsOK
<1> QED BY <1>2, <1>3 DEF CallsOK, CallOK, InPool, Covered, Elems, CallType, NoCall

\* A step that touches no call keeps them in order.
LEMMA CallsStutter == CallsOK /\ UNCHANGED call => CallsOK'
<1> SUFFICES ASSUME CallsOK, UNCHANGED call PROVE CallsOK'
  OBVIOUS
<1>1. call' \in [Callers -> CallType]
  BY DEF CallsOK
<1>2. ASSUME NEW d \in Callers PROVE CallOK(call'[d])
  BY DEF CallsOK
<1> QED BY <1>1, <1>2 DEF CallsOK, CallOK, InPool, Covered, Elems, CallType, NoCall

\* What % gives within one turn of the pool and within the next.
LEMMA ModFacts ==
  ASSUME NEW a \in Nat, NEW b \in Nat \ {0}
  PROVE  a % b \in 0 .. b - 1 /\ (a < b => a % b = a /\ (a + b) % b = a)
<1>1. a % b \in 0 .. b - 1
  OBVIOUS
<1>2. ASSUME a < b PROVE a % b = a
  BY <1>2
<1>3. ASSUME a < b PROVE (a + b) % b = a
  BY <1>3, SMTT(30)
<1> QED BY <1>1, <1>2, <1>3

\* Reduced by the length of the pool, a number is an index into it.
LEMMA IndexInPool ==
  ASSUME NEW k, CallOK(k), k.backends # <<>>, NEW n \in Nat
  PROVE  IndexAt(k, n) \in 1 .. Len(k.backends) /\ TargetAt(k, n) \in Targets
<1>1. /\ k.start_idx \in Nat /\ k.backends \in Seq(Targets) /\ Len(k.backends) \in Nat \ {0}
      /\ UsizeMod \in Nat \ {0}
  BY UsizeAssumption DEF CallOK, CallType
<1> DEFINE x == (k.start_idx + n) % UsizeMod
<1>2. x \in Nat
  BY <1>1
<1> HIDE DEF x
<1>3. x % Len(k.backends) \in 0 .. Len(k.backends) - 1
  BY <1>1, <1>2, ModFacts
<1>4. IndexAt(k, n) = (x % Len(k.backends)) + 1
  BY DEF IndexAt, x
<1>5. IndexAt(k, n) \in 1 .. Len(k.backends)
  BY <1>1, <1>3, <1>4
<1> QED BY <1>1, <1>5 DEF TargetAt

\* From its start a call reaches every index of the pool within as many
\* positions as the pool is long: the sum does not overflow.
LEMMA IndexReached ==
  ASSUME NEW k, CallOK(k), NEW j \in 1 .. Len(k.backends)
  PROVE  \E n \in 0 .. Len(k.backends) - 1 : IndexAt(k, n) = j
<1> DEFINE L == Len(k.backends)
           s == k.start_idx
<1>1. /\ L \in Nat \ {0} /\ s \in 0 .. L - 1 /\ UsizeMod \in Nat \ {0}
      /\ 2 * L <= UsizeMod + 1
  <2>1. L \in Nat /\ L > 0 /\ s \in Nat /\ k.backends # <<>>
    BY DEF CallOK, CallType
  <2>2. s < L /\ 2 * L <= UsizeMod + 1
    BY <2>1 DEF CallOK, InPool
  <2> QED BY <2>1, <2>2, UsizeAssumption
<1> DEFINE n == IF j - 1 >= s THEN j - 1 - s ELSE j - 1 - s + L
<1> HIDE DEF L, s
<1>2. /\ n \in 0 .. L - 1 /\ s + n \in 0 .. UsizeMod - 1
      /\ s + n = j - 1 \/ s + n = j - 1 + L
  BY <1>1 DEF L
<1> HIDE DEF n
<1>3. (s + n) % UsizeMod = s + n
  <2>1. s + n \in Nat /\ s + n < UsizeMod
    BY <1>1, <1>2
  <2> DEFINE x == s + n
  <2> HIDE DEF x
  <2>2. x % UsizeMod = x
    BY <1>1, <2>1, ModFacts DEF x
  <2> QED BY <2>2 DEF x
<1>4. j - 1 \in Nat /\ j - 1 < L /\ j - 1 + 1 = j
  BY <1>1 DEF L
<1>5. (j - 1) % L = j - 1 /\ (j - 1 + L) % L = j - 1
  BY <1>1, <1>4, ModFacts
<1>6. (s + n) % L = j - 1
  BY <1>2, <1>5
<1>7. (((s + n) % UsizeMod) % L) + 1 = j
  BY <1>3, <1>4, <1>6
<1>8. IndexAt(k, n) = j
  BY <1>7 DEF IndexAt, L, s
<1> QED BY <1>2, <1>8 DEF L

\* The target a call is trying is one of the configuration's.
LEMMA CurrentIsTarget ==
  ASSUME NEW k, CallOK(k), k.pc \in {"resolve", "dial"}
  PROVE  Current(k) \in Targets
<1>1. k.attempts \in Seq(Nat) /\ k.attempts # <<>> /\ k.backends # <<>>
  BY DEF CallOK, CallType
<1>2. k.attempts[Len(k.attempts)] \in Nat
  BY <1>1
<1> QED BY <1>1, <1>2, IndexInPool DEF Current

\* What lookup_host may answer, as `connect` sees it.
LEMMA LookupOutcomes ==
  ASSUME NEW c \in Callers, CallOK(call[c]), LookupHost(c)
  PROVE  \/ \E n \in 0 .. MaxAddrs : ResolveOk(c, n)
         \/ \E e \in DnsErrors : ResolveFail(c, e)
         \/ \E e \in FatalErrors : ResolveFatal(c, e)
<1> DEFINE t == Current(call[c])
<1>1. AddrForm[t] \in {"socket", "name", "bad"}
  BY CurrentIsTarget, FormAssumption DEF LookupHost
<1>2. LookupSizes(t) \subseteq 0 .. MaxAddrs
  BY <1>1, AddrsAssumption DEF LookupSizes
<1> QED BY <1>2 DEF LookupHost, ResolveFail, ResolveFatal

\* Every action of a call on its own record keeps the invariant.
LEMMA CallStepOK ==
  ASSUME CallsOK, target_status \in [Targets -> BackendStatus],
         NEW c \in Callers, CallStep(c)
  PROVE  CallsOK'
<1> DEFINE k == call[c]
<1>c. CallOK(k) /\ k \in CallType /\ call \in [Callers -> CallType]
  BY DEF CallsOK
<1>d. Drain \in BackendStatus
  BY DEF BackendStatus
<1>k. /\ CallOK(k) /\ k \in CallType /\ call \in [Callers -> CallType]
      /\ k.attempts \in Seq(Nat) /\ k.cooling \in Seq(Nat) /\ k.backends \in Seq(Targets)
      /\ k.i \in Nat /\ Len(k.backends) \in Nat /\ k.drained \in SUBSET Nat
      /\ k.addrs \in 0 .. MaxAddrs /\ MaxAddrs \in Nat /\ Drain \in BackendStatus
  BY <1>c, <1>d, AddrsAssumption DEF CallType
<1>i. /\ InPool(k) /\ 2 * Len(k.backends) <= UsizeMod + 1
      /\ \A n \in Nat : n < k.i => n \in Covered(k)
  BY <1>k DEF CallOK
<1>0. CASE LoadStatus(c)
  <2> DEFINE st == target_status[TargetAt(k, k.i)]
             r == [k EXCEPT !.pc = "match", !.status = st]
  <2>0. k.pc = "scan" /\ k.i < Len(k.backends) /\ k.outcome # "ConnectionError" /\ k.backends # <<>>
    BY <1>0, <1>k DEF LoadStatus, Scanning, CallOK
  <2>v. st \in BackendStatus /\ "match" \in PCs
    BY <1>k, <2>0, IndexInPool DEF PCs
  <2> HIDE DEF st
  <2>1. r \in CallType
    BY <1>k, <2>v DEF CallType
  <2>2. /\ r.pc = "match" /\ r.i = k.i /\ r.outcome = k.outcome
        /\ r.backends = k.backends /\ r.start_idx = k.start_idx
        /\ r.attempts = k.attempts /\ r.drained = k.drained /\ r.cooling = k.cooling
    BY <1>k DEF CallType
  <2>3. call' = [call EXCEPT ![c] = r]
    BY <1>0, <1>k DEF LoadStatus, st
  <2> HIDE DEF r
  <2>4. Covered(r) = Covered(k) /\ InPool(r)
    BY <1>i, <2>2 DEF Covered, InPool
  <2>5. CallOK(r)
    BY <1>i, <2>0, <2>1, <2>2, <2>4 DEF CallOK
  <2> QED BY <2>3, <2>5, CallFrame
<1>1. CASE ScanDrained(c)
  <2> DEFINE r == [k EXCEPT !.pc = "scan", !.i = @ + 1, !.status = Drain,
                         !.drained = @ \cup {k.i}]
  <2>0. k.pc = "match" /\ k.i < Len(k.backends) /\ k.outcome # "ConnectionError" /\ k.backends # <<>>
    BY <1>1, <1>k DEF ScanDrained, CallOK
  <2>v. k.i + 1 \in Nat /\ k.drained \cup {k.i} \in SUBSET Nat /\ "scan" \in PCs
    BY <1>k DEF PCs
  <2>1. r \in CallType
    BY <1>k, <2>v DEF CallType
  <2>2. /\ r.pc = "scan" /\ r.i = k.i + 1 /\ r.outcome = k.outcome
        /\ r.backends = k.backends /\ r.start_idx = k.start_idx
        /\ r.drained = k.drained \cup {k.i} /\ r.attempts = k.attempts /\ r.cooling = k.cooling
    BY <1>k DEF CallType
  <2>3. call' = [call EXCEPT ![c] = r]
    BY <1>1, <1>k DEF ScanDrained
  <2> HIDE DEF r
  <2>4. Covered(r) = Covered(k) \cup {k.i}
    BY <1>k, <2>2 DEF Covered
  <2>5. InPool(r)
    BY <1>k, <1>i, <2>0, <2>2, <2>4 DEF InPool
  <2>6. \A n \in Nat : n < r.i => n \in Covered(r)
    BY <1>k, <1>i, <2>2, <2>4
  <2>7. CallOK(r)
    BY <1>i, <2>0, <2>1, <2>2, <2>4, <2>5, <2>6 DEF CallOK
  <2> QED BY <2>3, <2>7, CallFrame
<1>2. CASE ScanCooling(c)
  <2> DEFINE r == [k EXCEPT !.pc = "scan", !.i = @ + 1, !.status = Drain,
                         !.cooling = Append(@, k.i)]
  <2>0. k.pc = "match" /\ k.i < Len(k.backends) /\ k.outcome # "ConnectionError" /\ k.backends # <<>>
    BY <1>2, <1>k DEF ScanCooling, CallOK
  <2>v. k.i + 1 \in Nat /\ Append(k.cooling, k.i) \in Seq(Nat) /\ "scan" \in PCs
    BY <1>k DEF PCs
  <2>1. r \in CallType
    BY <1>k, <2>v DEF CallType
  <2>2. /\ r.pc = "scan" /\ r.i = k.i + 1 /\ r.outcome = k.outcome
        /\ r.backends = k.backends /\ r.start_idx = k.start_idx
        /\ r.cooling = Append(k.cooling, k.i) /\ r.attempts = k.attempts /\ r.drained = k.drained
    BY <1>k DEF CallType
  <2>3. call' = [call EXCEPT ![c] = r]
    BY <1>2, <1>k DEF ScanCooling
  <2> HIDE DEF r
  <2>e. /\ Append(k.cooling, k.i) # <<>>
        /\ Elems(Append(k.cooling, k.i)) = Elems(k.cooling) \cup {k.i}
    BY <1>k, ElemsAppend
  <2>4. Covered(r) = Covered(k) \cup {k.i}
    BY <2>2, <2>e DEF Covered
  <2>5. InPool(r)
    BY <1>k, <1>i, <2>0, <2>2, <2>4 DEF InPool
  <2>6. \A n \in Nat : n < r.i => n \in Covered(r)
    BY <1>k, <1>i, <2>2, <2>4
  <2>7. CallOK(r)
    BY <1>i, <2>0, <2>1, <2>2, <2>4, <2>5, <2>6 DEF CallOK
  <2> QED BY <2>3, <2>7, CallFrame
<1>3. CASE ScanTry(c)
  <2> DEFINE r == [k EXCEPT !.pc = "resolve", !.i = @ + 1, !.status = Drain,
                         !.attempts = Append(@, k.i)]
  <2>0. k.pc = "match" /\ k.i < Len(k.backends) /\ k.outcome # "ConnectionError" /\ k.backends # <<>>
    BY <1>3, <1>k DEF ScanTry, CallOK
  <2>v. k.i + 1 \in Nat /\ Append(k.attempts, k.i) \in Seq(Nat) /\ "resolve" \in PCs
    BY <1>k DEF PCs
  <2>1. r \in CallType
    BY <1>k, <2>v DEF CallType
  <2>2. /\ r.pc = "resolve" /\ r.i = k.i + 1 /\ r.outcome = k.outcome
        /\ r.backends = k.backends /\ r.start_idx = k.start_idx
        /\ r.attempts = Append(k.attempts, k.i) /\ r.cooling = k.cooling /\ r.drained = k.drained
    BY <1>k DEF CallType
  <2>3. call' = [call EXCEPT ![c] = r]
    BY <1>3, <1>k DEF ScanTry
  <2> HIDE DEF r
  <2>e. /\ Append(k.attempts, k.i) # <<>>
        /\ Elems(Append(k.attempts, k.i)) = Elems(k.attempts) \cup {k.i}
    BY <1>k, ElemsAppend
  <2>4. Covered(r) = Covered(k) \cup {k.i} /\ r.attempts # <<>>
    BY <2>2, <2>e DEF Covered
  <2>5. InPool(r)
    BY <1>k, <1>i, <2>0, <2>2, <2>4 DEF InPool
  <2>6. \A n \in Nat : n < r.i => n \in Covered(r)
    BY <1>k, <1>i, <2>2, <2>4
  <2>7. CallOK(r)
    BY <1>i, <2>0, <2>1, <2>2, <2>4, <2>5, <2>6 DEF CallOK
  <2> QED BY <2>3, <2>7, CallFrame
<1>4. CASE TryCooling(c)
  <2>h. /\ Head(k.cooling) \in Nat /\ Tail(k.cooling) \in Seq(Nat)
        /\ Elems(k.cooling) = {Head(k.cooling)} \cup Elems(Tail(k.cooling))
    BY <1>4, <1>k, ElemsTail DEF TryCooling
  <2> DEFINE r == [k EXCEPT !.pc = "resolve", !.cooling = Tail(@),
                         !.attempts = Append(@, Head(k.cooling))]
  <2>v. Append(k.attempts, Head(k.cooling)) \in Seq(Nat) /\ "resolve" \in PCs
    BY <1>k, <2>h DEF PCs
  <2>1. r \in CallType
    BY <1>k, <2>v, <2>h DEF CallType
  <2>2. /\ r.backends = k.backends /\ r.start_idx = k.start_idx /\ r.outcome = k.outcome
        /\ r.pc = "resolve" /\ r.i = k.i /\ r.cooling = Tail(k.cooling)
        /\ r.attempts = Append(k.attempts, Head(k.cooling)) /\ r.drained = k.drained
    BY <1>k DEF CallType
  <2>3. k.pc \notin {"idle", "done"} /\ k.outcome # "ConnectionError"
    BY <1>4, <1>k DEF TryCooling, CallOK
  <2>4. call' = [call EXCEPT ![c] = r]
    BY <1>4, <1>k DEF TryCooling
  <2> HIDE DEF r
  <2>e. r.attempts # <<>> /\ Elems(r.attempts) = Elems(k.attempts) \cup {Head(k.cooling)}
    <3>1. /\ Append(k.attempts, Head(k.cooling)) # <<>>
          /\ Elems(Append(k.attempts, Head(k.cooling))) =
               Elems(k.attempts) \cup {Head(k.cooling)}
      BY <2>h, <1>k, ElemsAppend
    <3> QED BY <2>2, <3>1
  <2>5. Covered(r) = Covered(k)
    BY <2>2, <2>e, <2>h DEF Covered
  <2>6. InPool(r)
    BY <1>i, <2>2, <2>5 DEF InPool
  <2>7. \A n \in Nat : n < r.i => n \in Covered(r)
    BY <1>i, <2>2, <2>5
  <2>8. CallOK(r)
    BY <1>i, <1>4, <1>k, <2>1, <2>2, <2>3, <2>6, <2>7, <2>e DEF TryCooling, CallOK
  <2> QED BY <2>4, <2>8, CallFrame
<1>5. CASE GiveUp(c)
  <2>1. CallOK([k EXCEPT !.pc = "done", !.outcome = "ConnectionError"])
    BY <1>5, <1>k DEF GiveUp, CallOK, CallType, InPool, Covered, PCs, Outcomes
  <2>2. call' = [call EXCEPT ![c] = [k EXCEPT !.pc = "done", !.outcome = "ConnectionError"]]
    BY <1>5, <1>k DEF GiveUp
  <2> QED BY <2>1, <2>2, CallFrame
<1>6. ASSUME NEW n \in 0 .. MaxAddrs, ResolveOk(c, n) PROVE CallsOK'
  <2>1. CallOK([k EXCEPT !.pc = "dial", !.addrs = n])
    BY <1>6, <1>k DEF ResolveOk, CallOK, CallType, InPool, Covered, PCs
  <2>2. call' = [call EXCEPT ![c] = [k EXCEPT !.pc = "dial", !.addrs = n]]
    BY <1>6, <1>k DEF ResolveOk
  <2> QED BY <2>1, <2>2, CallFrame
<1>7. ASSUME DialExhausted(c) \/ \E e \in DnsErrors : ResolveFail(c, e) PROVE CallsOK'
  <2>1. CallOK([k EXCEPT !.pc = "trynext"])
    BY <1>7, <1>k DEF ResolveFail, DialExhausted, CallOK, CallType, InPool, Covered, PCs
  <2>2. call' = [call EXCEPT ![c] = [k EXCEPT !.pc = "trynext"]]
    BY <1>7, <1>k DEF ResolveFail, DialExhausted
  <2> QED BY <2>1, <2>2, CallFrame
<1>8. ASSUME NEW e \in FatalErrors, ResolveFatal(c, e) PROVE CallsOK'
  <2>1. CallOK([k EXCEPT !.pc = "done", !.outcome = e])
    BY <1>8, <1>k DEF ResolveFatal, CallOK, CallType, InPool, Covered, PCs, Outcomes, FatalErrors
  <2>2. call' = [call EXCEPT ![c] = [k EXCEPT !.pc = "done", !.outcome = e]]
    BY <1>8, <1>k DEF ResolveFatal
  <2> QED BY <2>1, <2>2, CallFrame
<1>9. CASE DialOk(c)
  <2> DEFINE r == [k EXCEPT !.pc = "ready", !.addrs = 0]
  <2>v. 0 \in 0 .. MaxAddrs /\ "ready" \in PCs
    BY <1>k DEF PCs
  <2>1. r \in CallType
    BY <1>k, <2>v DEF CallType
  <2>2. /\ r.backends = k.backends /\ r.start_idx = k.start_idx /\ r.outcome = k.outcome
        /\ r.pc = "ready" /\ r.i = k.i /\ r.attempts = k.attempts
        /\ r.drained = k.drained /\ r.cooling = k.cooling
    BY <1>k DEF CallType
  <2>3. k.pc \notin {"idle", "done"} /\ k.outcome # "ConnectionError"
    BY <1>9, <1>k DEF DialOk, CallOK
  <2>4. call' = [call EXCEPT ![c] = r]
    BY <1>9, <1>k DEF DialOk
  <2> HIDE DEF r
  <2>5. Covered(r) = Covered(k) /\ InPool(r)
    BY <1>i, <2>2 DEF Covered, InPool
  <2>6. CallOK(r)
    BY <1>9, <1>k, <1>i, <2>1, <2>2, <2>3, <2>5 DEF DialOk, CallOK
  <2> QED BY <2>4, <2>6, CallFrame
<1>10. CASE DialFail(c)
  <2> DEFINE r == [k EXCEPT !.addrs = @ - 1]
  <2>v. k.addrs - 1 \in 0 .. MaxAddrs
    BY <1>10, <1>k DEF DialFail
  <2>1. r \in CallType
    BY <1>k, <2>v DEF CallType
  <2>2. /\ r.backends = k.backends /\ r.start_idx = k.start_idx /\ r.outcome = k.outcome
        /\ r.pc = k.pc /\ r.i = k.i /\ r.attempts = k.attempts
        /\ r.drained = k.drained /\ r.cooling = k.cooling
    BY <1>k DEF CallType
  <2>3. k.pc \notin {"idle", "done"} /\ k.outcome # "ConnectionError"
    BY <1>10, <1>k DEF DialFail, CallOK
  <2>4. call' = [call EXCEPT ![c] = r]
    BY <1>10, <1>k DEF DialFail
  <2> HIDE DEF r
  <2>5. Covered(r) = Covered(k) /\ InPool(r)
    BY <1>i, <2>2 DEF Covered, InPool
  <2>6. CallOK(r)
    BY <1>10, <1>k, <1>i, <2>1, <2>2, <2>3, <2>5 DEF DialFail, CallOK
  <2> QED BY <2>4, <2>6, CallFrame
<1>11. CASE Ready(c)
  <2>1. CallOK([k EXCEPT !.pc = "done", !.outcome = "Ready"])
    BY <1>11, <1>k DEF Ready, CallOK, CallType, InPool, Covered, PCs, Outcomes
  <2>2. call' = [call EXCEPT ![c] = [k EXCEPT !.pc = "done", !.outcome = "Ready"]]
    BY <1>11, <1>k DEF Ready
  <2> QED BY <2>1, <2>2, CallFrame
<1>12. CASE TryNext(c)
  <2>1. CallOK([k EXCEPT !.pc = "scan"])
    BY <1>12, <1>k DEF TryNext, CallOK, CallType, InPool, Covered, PCs
  <2>2. call' = [call EXCEPT ![c] = [k EXCEPT !.pc = "scan"]]
    BY <1>12, <1>k DEF TryNext
  <2> QED BY <2>1, <2>2, CallFrame
<1>13. CASE Return(c)
  BY <1>13, NoCallOK, CallFrame DEF Return
<1>14. CASE ReportStep(c) /\ UNCHANGED <<rr_counter, call>>
  BY <1>14, CallsStutter
<1>15. CASE LookupHost(c)
  BY <1>6, <1>7, <1>8, <1>15, <1>k, LookupOutcomes
<1> QED
  BY <1>0, <1>1, <1>2, <1>3, <1>4, <1>5, <1>7, <1>9, <1>10, <1>11, <1>12, <1>13, <1>14, <1>15
  DEF CallStep

\* A dropped call leaves an idle record.
LEMMA DropCallOK ==
  ASSUME CallsOK, NEW c \in Callers, DropCall(c)
  PROVE  CallsOK'
BY NoCallOK, CallFrame DEF DropCall

\* So do the two actions that begin a call, which also keep the counter in range.
LEMMA CallBegins ==
  ASSUME CallsOK, rr_counter \in [DOMAIN Pools -> 0 .. UsizeMod - 1],
         NEW c \in Callers, NEW p \in ForPorts, CallUnserved(c, p) \/ Call(c, p)
  PROVE  CallsOK' /\ rr_counter' \in [DOMAIN Pools -> 0 .. UsizeMod - 1]
<1>k. call[c] = NoCall /\ call \in [Callers -> CallType]
  BY DEF CallsOK, CallOK, CallUnserved, Call
<1>1. CASE CallUnserved(c, p)
  <2>1. CallOK([NoCall EXCEPT !.pc = "done", !.outcome = "TargetResolutionError"])
    BY NoCallOK DEF CallOK, CallType, InPool, Covered, NoCall, PCs, Outcomes
  <2>2. call' = [call EXCEPT ![c] = [NoCall EXCEPT !.pc = "done",
                                                  !.outcome = "TargetResolutionError"]]
    BY <1>1, <1>k DEF CallUnserved
  <2> QED BY <1>1, <2>1, <2>2, CallFrame DEF CallUnserved
<1>2. CASE Call(c, p)
  <2>1. /\ p \in DOMAIN Pools /\ GetPool(p) = Pools[p]
        /\ GetPool(p) \in Seq(Targets) /\ GetPool(p) # <<>>
    BY <1>2, PoolsAssumption DEF Call, GetPool
  <2>2. rr_counter[p] \in Nat /\ Len(GetPool(p)) \in Nat /\ Len(GetPool(p)) > 0
    BY <2>1
  <2>3. rr_counter[p] % Len(GetPool(p)) \in Nat
        /\ rr_counter[p] % Len(GetPool(p)) < Len(GetPool(p))
    <3> DEFINE a == rr_counter[p]
               b == Len(GetPool(p))
    <3>1. a \in Nat /\ b \in Nat \ {0}
      BY <2>2
    <3> HIDE DEF a, b
    <3>2. a % b \in 0 .. b - 1
      BY <3>1, ModFacts
    <3>3. a % b \in Nat /\ a % b < b
      BY <3>1, <3>2
    <3> QED BY <3>3 DEF a, b
  <2>4. (rr_counter[p] + 1) % UsizeMod \in 0 .. UsizeMod - 1
    BY <2>2, UsizeAssumption
  <2> DEFINE k == [NoCall EXCEPT !.pc = "scan", !.backends = GetPool(p),
                                 !.start_idx = rr_counter[p] % Len(GetPool(p))]
  <2>5. CallOK(k)
    <3>1. k \in CallType
      BY NoCallOK, <2>1, <2>3 DEF CallOK, CallType, PCs
    <3>2. /\ k.pc = "scan" /\ k.backends = GetPool(p) /\ k.i = 0 /\ k.outcome = "none"
          /\ k.start_idx = rr_counter[p] % Len(GetPool(p))
          /\ k.attempts = <<>> /\ k.cooling = <<>> /\ k.drained = {}
      BY DEF NoCall
    <3> HIDE DEF k
    <3>3. InPool(k)
      BY <3>2, <2>2, <2>3 DEF InPool, Covered, Elems
    <3>4. 2 * Len(k.backends) <= UsizeMod + 1
      BY <2>1, <3>2, UsizeAssumption
    <3> QED BY <3>1, <3>2, <3>3, <3>4, <2>1, <2>2 DEF CallOK
  <2>6. call' = [call EXCEPT ![c] = k]
    BY <1>2, <1>k DEF Call
  <2>7. CallsOK'
    BY <2>5, <2>6, CallFrame
  <2>8. rr_counter' \in [DOMAIN Pools -> 0 .. UsizeMod - 1]
    BY <1>2, <2>1, <2>4 DEF Call
  <2> QED BY <2>7, <2>8
<1> QED BY <1>1, <1>2

\* A step of the balancer is a step of the cooldown handler, or none of its
\* business.
LEMMA BalancerStepIsHandlerStep ==
  ASSUME CallsOK, [Next]_vars
  PROVE  [HandlerNext]_handlerVars
<1>1. ASSUME NEW c \in Callers, CallStep(c) PROVE [HandlerNext]_handlerVars
  <2>1. ASSUME DialOk(c) \/ DialExhausted(c) \/ \E e \in DnsErrors : ResolveFail(c, e)
        PROVE  [HandlerNext]_handlerVars
    <3>1. Current(call[c]) \in Targets
      BY <2>1, CurrentIsTarget DEF CallsOK, ResolveFail, DialOk, DialExhausted
    <3>2. \E r \in {"Success", "Failure"} :
            ReportCall(c, Current(call[c]), r) /\ UNCHANGED <<clock, target_status>>
      BY <2>1 DEF ResolveFail, DialOk, DialExhausted
    <3> QED BY <3>1, <3>2 DEF HandlerNext
  <2>2. CASE ReportStep(c)
    BY <2>2 DEF HandlerNext
  <2>3. CASE UNCHANGED handlerVars
    BY <2>3
  <2>4. CASE LookupHost(c)
    BY <2>1, <2>3, <2>4, LookupOutcomes DEF CallsOK, ResolveOk, ResolveFatal
  <2> QED BY <1>1, <2>1, <2>2, <2>3, <2>4
      DEF CallStep, LoadStatus, ScanDrained, ScanCooling, ScanTry, TryCooling, GiveUp,
          DialFail, Ready, TryNext, Return
<1>2. ASSUME NEW c \in Callers,
             DropCall(c) \/ \E p \in ForPorts : CallUnserved(c, p) \/ Call(c, p)
      PROVE  [HandlerNext]_handlerVars
  BY <1>2 DEF DropCall, CallUnserved, Call
<1>3. CASE Tick \/ \E t \in Targets : DrainTarget(t)
  BY <1>3 DEF HandlerNext
<1>4. CASE UNCHANGED vars
  BY <1>4 DEF vars
<1> QED BY <1>1, <1>2, <1>3, <1>4 DEF Next

\* The invariant holds initially and every step keeps it.
LEMMA BalancerInvariance == Spec => []BalancerInv
<1>1. Init => BalancerInv
  <2> SUFFICES ASSUME Init PROVE BalancerInv
    OBVIOUS
  <2>1. HandlerInv
    BY HandlerInitInv DEF Init
  <2>2. rr_counter \in [DOMAIN Pools -> 0 .. UsizeMod - 1]
    BY UsizeAssumption DEF Init
  <2>3. NoCall \in CallType
    BY NoCallOK DEF CallOK
  <2>4. CallsOK
    BY <2>3, NoCallOK DEF Init, CallsOK
  <2> QED BY <2>1, <2>2, <2>4 DEF BalancerInv
<1>2. BalancerInv /\ [Next]_vars => BalancerInv'
  <2> SUFFICES ASSUME BalancerInv, [Next]_vars PROVE BalancerInv'
    OBVIOUS
  <2>0. CallsOK /\ rr_counter \in [DOMAIN Pools -> 0 .. UsizeMod - 1]
    BY DEF BalancerInv
  <2>1. HandlerInv'
    BY <2>0, BalancerStepIsHandlerStep, HandlerStep DEF BalancerInv
  <2>2. CASE \E c \in Callers : CallStep(c)
    <3>1. PICK c \in Callers : CallStep(c)
      BY <2>2
    <3>2. CallsOK'
      BY <2>0, <3>1, CallStepOK DEF BalancerInv, HandlerInv, HandlerTypeOK
    <3>3. UNCHANGED rr_counter
      BY <3>1
      DEF CallStep, LoadStatus, ScanDrained, ScanCooling, ScanTry, TryCooling, GiveUp, LookupHost, ResolveOk,
          ResolveFail, ResolveFatal, DialOk, DialFail, DialExhausted, Ready, TryNext, Return
    <3> QED BY <2>0, <2>1, <3>2, <3>3 DEF BalancerInv
  <2>6. CASE \E c \in Callers : DropCall(c)
    BY <2>0, <2>1, <2>6, DropCallOK DEF BalancerInv, DropCall
  <2>3. CASE \E c \in Callers, p \in ForPorts : CallUnserved(c, p) \/ Call(c, p)
    BY <2>0, <2>1, <2>3, CallBegins DEF BalancerInv
  <2>4. CASE UNCHANGED <<rr_counter, call>>
    BY <2>0, <2>1, <2>4, CallsStutter DEF BalancerInv
  <2>5. CASE UNCHANGED vars
    BY <2>4, <2>5 DEF vars
  <2> QED BY <2>2, <2>3, <2>4, <2>5, <2>6 DEF Next
<1> QED BY <1>1, <1>2, PTL DEF Spec

\* The counters stay in their width, calls start and search within their
\* pools, and statuses, reports and calls keep their types, under any
\* interleaving of calls.
THEOREM BalancerTypeCorrect == Spec => []TypeOK
<1>1. BalancerInv => TypeOK
  BY DEF BalancerInv, TypeOK, HandlerInv, CallsOK, CallOK
<1> QED BY <1>1, BalancerInvariance, PTL

\* connect_backend returns ConnectionError only when every entry of the pool
\* was tried in that call or seen drained, whatever other calls and drains did
\* to the statuses meanwhile and whatever the counter was.
THEOREM SearchIsComplete == Spec => []SearchComplete
<1>1. BalancerInv => SearchComplete
  <2> SUFFICES ASSUME BalancerInv, NEW c \in Callers, call[c].outcome = "ConnectionError",
                      NEW j \in 1 .. Len(call[c].backends)
               PROVE  \E n \in Elems(call[c].attempts) \cup call[c].drained :
                        IndexAt(call[c], n) = j
    BY DEF SearchComplete
  <2> DEFINE k == call[c]
  <2>1. CallOK(k)
    BY DEF BalancerInv, CallsOK
  <2>2. k.i = Len(k.backends) /\ k.cooling = <<>> /\ Len(k.backends) \in Nat
    BY <2>1 DEF CallOK, CallType
  <2>3. PICK n \in 0 .. Len(k.backends) - 1 : IndexAt(k, n) = j
    BY <2>1, IndexReached
  <2>4. n \in Covered(k)
    BY <2>1, <2>2 DEF CallOK
  <2>5. Elems(k.cooling) = {}
    BY <2>2 DEF Elems
  <2>6. n \in Elems(k.attempts) \cup k.drained
    BY <2>4, <2>5 DEF Covered
  <2> QED BY <2>3, <2>6
<1> QED BY <1>1, BalancerInvariance, PTL

\* The balancer drives the handler only as the handler's specification
\* allows: CooldownBounded and DrainSeals, proved of it, hold here too.
THEOREM BalancerImplementsHandler == Spec => HandlerRespected
<1>1. Init => HandlerInit
  BY DEF Init
<1>2. BalancerInv /\ [Next]_vars => [HandlerNext]_handlerVars
  BY BalancerStepIsHandlerStep DEF BalancerInv
<1> QED BY <1>1, <1>2, BalancerInvariance, PTL DEF Spec, HandlerSpec, HandlerRespected
=============================================================================
