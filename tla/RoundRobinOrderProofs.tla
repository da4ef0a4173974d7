------------------------ MODULE RoundRobinOrderProofs ------------------------
(***************************************************************************)
(* Proofs about the order in which connect_backend tries a pool, and about *)
(* targets whose address is none.  They rest on the invariant of           *)
(* RoundRobinBalancerProofs.                                               *)
(*                                                                         *)
(* RoundRobinOrder allows the attempts one step back.  That step is the    *)
(* passage from the first pass to the second, so the inductive form,       *)
(* OrderOK, says where the passage is: the attempts of each pass ascend,   *)
(* and what is still put aside ascends, was not tried, and lies beyond     *)
(* what the second pass has tried.                                         *)
(***************************************************************************)
EXTENDS RoundRobinBalancerProofs

Ascends(s, from, to) == \A m, n \in from .. to : m < n => s[m] < s[n]
Distinct(s) == \A m, n \in 1 .. Len(s) : s[m] = s[n] => m = n
Below(s, bound) == \A m \in 1 .. Len(s) : s[m] < bound

\* The first s attempts are those of the first pass.
Passes(k, s) ==
    /\ Ascends(k.attempts, 1, s)
    /\ Ascends(k.attempts, s + 1, Len(k.attempts))
    /\ s < Len(k.attempts) => k.i = Len(k.backends)
    /\ \A m \in s + 1 .. Len(k.attempts), n \in 1 .. Len(k.cooling) :
         k.attempts[m] < k.cooling[n]

OrderOK(k) ==
    /\ Below(k.attempts, k.i)
    /\ Below(k.cooling, k.i)
    /\ Distinct(k.attempts)
    /\ Ascends(k.cooling, 1, Len(k.cooling))
    /\ \A m \in 1 .. Len(k.attempts), n \in 1 .. Len(k.cooling) :
         k.attempts[m] # k.cooling[n]
    /\ \E s \in 0 .. Len(k.attempts) : Passes(k, s)

\* What the proofs about one record need to know of its sequences.
Numbers(s) == Len(s) \in Nat /\ \A n \in 1 .. Len(s) : s[n] \in Nat
Appended(s, x, t) ==
    /\ Len(t) = Len(s) + 1
    /\ \A n \in 1 .. Len(s) : t[n] = s[n]
    /\ t[Len(s) + 1] = x
HeadDropped(s, t) ==
    /\ Len(s) > 0
    /\ Len(t) = Len(s) - 1
    /\ \A n \in 1 .. Len(t) : t[n] = s[n + 1] /\ n + 1 \in 1 .. Len(s)

OrdersOK == \A c \in Callers : OrderOK(call[c])

(***************************************************************************)
(* BadAddressEndsCall is inductive once it is said that a target with a    *)
(* bad address is never reported on: a report is what writes a status.     *)
(***************************************************************************)
BadAt(k, m) == AddrForm[TargetAt(k, k.attempts[m])] = "bad"

BadOK(k) ==
    /\ \A m \in 1 .. Len(k.attempts) :
         BadAt(k, m) => m = Len(k.attempts) /\ k.pc \in {"resolve", "done"}
    /\ k.outcome = "BadAddressError" =>
         k.pc = "done" /\ k.attempts # <<>> /\ BadAt(k, Len(k.attempts))

BadInv ==
    /\ \A t \in Targets : AddrForm[t] = "bad" => target_status[t] \in {Alive(None), Drain}
    /\ \A c \in Callers : report[c].at # "idle" => AddrForm[report[c].target] # "bad"
    /\ \A c \in Callers : BadOK(call[c])
-----------------------------------------------------------------------------
(* The order of the attempts.                                              *)

LEMMA AppendFacts ==
  ASSUME NEW s \in Seq(Nat), NEW x \in Nat
  PROVE  Numbers(s) /\ Appended(s, x, Append(s, x))
BY DEF Numbers, Appended

LEMMA TailFacts ==
  ASSUME NEW s \in Seq(Nat), s # <<>>
  PROVE  Head(s) = s[1] /\ Head(s) \in Nat /\ HeadDropped(s, Tail(s))
BY DEF HeadDropped

\* An element of the longer sequence is one of the shorter, or the new one.
LEMMA AppendedCases ==
  ASSUME NEW s, NEW x \in Nat, NEW t, Numbers(s), Appended(s, x, t), NEW n \in 1 .. Len(t)
  PROVE  \/ n \in 1 .. Len(s) /\ n <= Len(s) /\ t[n] = s[n] /\ s[n] \in Nat
         \/ n = Len(s) + 1 /\ t[n] = x
<1>1. Len(s) \in Nat /\ Len(t) = Len(s) + 1
  BY DEF Numbers, Appended
<1>2. n \in 1 .. Len(s) \/ n = Len(s) + 1
  BY <1>1
<1> QED BY <1>1, <1>2 DEF Numbers, Appended

\* So an append keeps a bound, the order and the distinctness of elements.
LEMMA AppendedBelow ==
  ASSUME NEW s, NEW x \in Nat, NEW t, Numbers(s), Appended(s, x, t),
         NEW b \in Nat, NEW d \in Nat, Below(s, b), b <= d, x < d
  PROVE  Numbers(t) /\ Below(t, d)
<1>1. ASSUME NEW n \in 1 .. Len(t) PROVE t[n] \in Nat /\ t[n] < d
  <2>1. CASE n \in 1 .. Len(s) /\ t[n] = s[n] /\ s[n] \in Nat
    <3>1. s[n] < b
      BY <2>1 DEF Below
    <3> QED BY <2>1, <3>1
  <2>2. CASE t[n] = x
    BY <2>2
  <2> QED BY <2>1, <2>2, AppendedCases
<1>2. Len(t) \in Nat
  BY DEF Numbers, Appended
<1> QED BY <1>1, <1>2 DEF Numbers, Below

LEMMA AppendedAscends ==
  ASSUME NEW s, NEW x \in Nat, NEW t, Numbers(s), Appended(s, x, t), Below(s, x),
         Ascends(s, 1, Len(s))
  PROVE  Ascends(t, 1, Len(t))
<1> SUFFICES ASSUME NEW m \in 1 .. Len(t), NEW n \in 1 .. Len(t), m < n
             PROVE  t[m] < t[n]
  BY DEF Ascends
<1>1. m \in 1 .. Len(s) /\ t[m] = s[m]
  BY DEF Numbers, Appended
<1>2. CASE n \in 1 .. Len(s) /\ t[n] = s[n]
  BY <1>1, <1>2 DEF Ascends
<1>3. CASE t[n] = x
  BY <1>1, <1>3 DEF Below
<1> QED BY <1>2, <1>3, AppendedCases

LEMMA AppendedDistinct ==
  ASSUME NEW s, NEW x \in Nat, NEW t, Numbers(s), Appended(s, x, t),
         Distinct(s), \A n \in 1 .. Len(s) : s[n] # x
  PROVE  Distinct(t)
<1> SUFFICES ASSUME NEW m \in 1 .. Len(t), NEW n \in 1 .. Len(t), t[m] = t[n]
             PROVE  m = n
  BY DEF Distinct
<1>1. CASE m \in 1 .. Len(s) /\ t[m] = s[m]
  <2>1. CASE n \in 1 .. Len(s) /\ t[n] = s[n]
    BY <1>1, <2>1 DEF Distinct
  <2>2. CASE t[n] = x
    BY <1>1, <2>2
  <2> QED BY <2>1, <2>2, AppendedCases
<1>2. CASE m = Len(s) + 1 /\ t[m] = x
  <2>1. CASE n \in 1 .. Len(s) /\ t[n] = s[n]
    BY <1>2, <2>1
  <2>2. CASE n = Len(s) + 1
    BY <1>2, <2>2
  <2> QED BY <2>1, <2>2, AppendedCases
<1> QED BY <1>1, <1>2, AppendedCases

\* The order speaks of four fields only.
LEMMA OrderSame ==
  ASSUME NEW k, NEW r, OrderOK(k), r.attempts = k.attempts, r.cooling = k.cooling,
         r.i = k.i, r.backends = k.backends
  PROVE  OrderOK(r)
BY DEF OrderOK, Passes, Below, Ascends, Distinct

\* An idle call is in order.
LEMMA OrderIdle == OrderOK(NoCall)
BY DEF OrderOK, Passes, Below, Ascends, Distinct, NoCall

\* While the first pass goes on every attempt is one of its own.
LEMMA FirstPass ==
  ASSUME NEW k, OrderOK(k), Numbers(k.attempts), k.i # Len(k.backends)
  PROVE  Ascends(k.attempts, 1, Len(k.attempts))
<1>1. PICK s \in 0 .. Len(k.attempts) : Passes(k, s)
  BY DEF OrderOK
<1>2. s = Len(k.attempts)
  BY <1>1 DEF Passes, Numbers
<1> QED BY <1>1, <1>2 DEF Passes

\* If all attempts ascend, the second pass may begin after them.
LEMMA PassesEnd ==
  ASSUME NEW k, Numbers(k.attempts), Ascends(k.attempts, 1, Len(k.attempts))
  PROVE  \E s \in 0 .. Len(k.attempts) : Passes(k, s)
<1>1. Len(k.attempts) \in 0 .. Len(k.attempts)
  BY DEF Numbers
<1>2. Passes(k, Len(k.attempts))
  BY DEF Passes, Ascends, Numbers
<1> QED BY <1>1, <1>2

\* What is below a bound is below the next one.
LEMMA BelowUp ==
  ASSUME NEW s, Numbers(s), NEW b \in Nat, Below(s, b)
  PROVE  Below(s, b + 1)
<1> SUFFICES ASSUME NEW m \in 1 .. Len(s) PROVE s[m] < b + 1
  BY DEF Below
<1>1. s[m] \in Nat /\ s[m] < b
  BY DEF Below, Numbers
<1> QED BY <1>1

\* The first pass moves on past a drained position.
LEMMA OrderDrained ==
  ASSUME NEW k, NEW r, OrderOK(k), k.i \in Nat, Numbers(k.attempts),
         Numbers(k.cooling), k.i < Len(k.backends), Len(k.backends) \in Nat,
         r.attempts = k.attempts, r.cooling = k.cooling, r.i = k.i + 1
  PROVE  OrderOK(r)
<1>1. Ascends(r.attempts, 1, Len(r.attempts))
  BY FirstPass
<1>2. \E s \in 0 .. Len(r.attempts) : Passes(r, s)
  BY <1>1, PassesEnd
<1>3. Below(r.attempts, r.i) /\ Below(r.cooling, r.i)
  BY BelowUp DEF OrderOK
<1> QED BY <1>2, <1>3 DEF OrderOK

\* It puts a position aside, beyond all it has seen.
LEMMA OrderCooling ==
  ASSUME NEW k, NEW r, OrderOK(k), k.i \in Nat, Numbers(k.attempts),
         Numbers(k.cooling), k.i < Len(k.backends), Len(k.backends) \in Nat,
         r.attempts = k.attempts, Appended(k.cooling, k.i, r.cooling), r.i = k.i + 1
  PROVE  OrderOK(r)
<1>1. Ascends(r.attempts, 1, Len(r.attempts))
  BY FirstPass
<1>2. \E s \in 0 .. Len(r.attempts) : Passes(r, s)
  BY <1>1, PassesEnd
<1>3. Below(r.attempts, r.i)
  BY BelowUp DEF OrderOK
<1>4. Below(r.cooling, r.i)
  <2>1. Below(k.cooling, k.i) /\ k.i + 1 \in Nat /\ k.i <= k.i + 1 /\ k.i < k.i + 1
    BY DEF OrderOK
  <2> QED BY <2>1, AppendedBelow
<1>5. Ascends(r.cooling, 1, Len(r.cooling))
  BY AppendedAscends DEF OrderOK
<1>6. ASSUME NEW m \in 1 .. Len(r.attempts), NEW n \in 1 .. Len(r.cooling)
      PROVE  r.attempts[m] # r.cooling[n]
  <2>1. CASE n \in 1 .. Len(k.cooling) /\ r.cooling[n] = k.cooling[n]
    BY <2>1 DEF OrderOK
  <2>2. CASE r.cooling[n] = k.i
    BY <2>2 DEF OrderOK, Below, Numbers
  <2> QED BY <2>1, <2>2, AppendedCases
<1> QED BY <1>2, <1>3, <1>4, <1>5, <1>6 DEF OrderOK

\* It tries a position, beyond all it has seen.
LEMMA OrderTry ==
  ASSUME NEW k, NEW r, OrderOK(k), k.i \in Nat, Numbers(k.attempts),
         Numbers(k.cooling), k.i < Len(k.backends), Len(k.backends) \in Nat,
         Appended(k.attempts, k.i, r.attempts), r.cooling = k.cooling, r.i = k.i + 1
  PROVE  OrderOK(r)
<1>1. Ascends(k.attempts, 1, Len(k.attempts))
  BY FirstPass
<1>b. Below(k.attempts, k.i) /\ Below(k.cooling, k.i)
  BY DEF OrderOK
<1>2. Ascends(r.attempts, 1, Len(r.attempts))
  BY <1>1, <1>b, AppendedAscends
<1>4. Numbers(r.attempts) /\ Below(r.attempts, r.i)
  <2>1. k.i + 1 \in Nat /\ k.i <= k.i + 1 /\ k.i < k.i + 1
    OBVIOUS
  <2> QED BY <1>b, <2>1, AppendedBelow
<1>3. \E s \in 0 .. Len(r.attempts) : Passes(r, s)
  BY <1>2, <1>4, PassesEnd
<1>5. Below(r.cooling, r.i)
  BY <1>b, BelowUp
<1>6. Distinct(r.attempts)
  <2>1. \A n \in 1 .. Len(k.attempts) : k.attempts[n] # k.i
    BY <1>b DEF Below, Numbers
  <2> QED BY <2>1, AppendedDistinct DEF OrderOK
<1>7. ASSUME NEW m \in 1 .. Len(r.attempts), NEW n \in 1 .. Len(r.cooling)
      PROVE  r.attempts[m] # r.cooling[n]
  <2>1. CASE m \in 1 .. Len(k.attempts) /\ r.attempts[m] = k.attempts[m]
    BY <2>1 DEF OrderOK
  <2>2. CASE r.attempts[m] = k.i
    BY <2>2, <1>b DEF Below, Numbers
  <2> QED BY <2>1, <2>2, AppendedCases
<1>8. Ascends(r.cooling, 1, Len(r.cooling))
  BY DEF OrderOK
<1> QED BY <1>3, <1>4, <1>5, <1>6, <1>7, <1>8 DEF OrderOK

\* The second pass tries the first position put aside, the lowest of them.
LEMMA OrderRetry ==
  ASSUME NEW k, NEW r, OrderOK(k), k.i \in Nat, Numbers(k.attempts),
         Numbers(k.cooling), k.i = Len(k.backends),
         Appended(k.attempts, k.cooling[1], r.attempts), HeadDropped(k.cooling, r.cooling),
         r.i = k.i, r.backends = k.backends
  PROVE  OrderOK(r)
<1> DEFINE h == k.cooling[1]
<1>a. /\ Len(r.attempts) = Len(k.attempts) + 1 /\ Len(k.attempts) \in Nat
      /\ \A n \in 1 .. Len(k.attempts) : r.attempts[n] = k.attempts[n] /\ k.attempts[n] \in Nat
      /\ r.attempts[Len(k.attempts) + 1] = h /\ h \in Nat
  BY DEF Numbers, Appended, HeadDropped
<1>b. /\ Len(r.cooling) = Len(k.cooling) - 1 /\ Len(k.cooling) \in Nat /\ Len(k.cooling) > 0
      /\ \A n \in 1 .. Len(r.cooling) :
           r.cooling[n] = k.cooling[n + 1] /\ n + 1 \in 1 .. Len(k.cooling)
      /\ \A n \in 1 .. Len(k.cooling) : k.cooling[n] \in Nat
  BY DEF Numbers, HeadDropped
<1>c. h < k.i /\ \A n \in 1 .. Len(r.cooling) : h < r.cooling[n]
  BY <1>b DEF OrderOK, Below, Ascends
<1>d. \A m \in 1 .. Len(k.attempts) : k.attempts[m] # h
  BY <1>b DEF OrderOK
<1> HIDE DEF h
<1>h. h \in Nat /\ Appended(k.attempts, h, r.attempts)
  BY <1>a DEF h
<1>1. Below(r.attempts, r.i)
  BY <1>h, <1>c, AppendedBelow DEF OrderOK
<1>2. Below(r.cooling, r.i)
  BY <1>b DEF OrderOK, Below
<1>3. Distinct(r.attempts)
  BY <1>h, <1>d, AppendedDistinct DEF OrderOK
<1>4. Ascends(r.cooling, 1, Len(r.cooling))
  BY <1>b DEF OrderOK, Ascends
<1>5. ASSUME NEW m \in 1 .. Len(r.attempts), NEW n \in 1 .. Len(r.cooling)
      PROVE  r.attempts[m] # r.cooling[n]
  <2>1. r.cooling[n] = k.cooling[n + 1] /\ n + 1 \in 1 .. Len(k.cooling)
        /\ r.cooling[n] \in Nat /\ h < r.cooling[n]
    BY <1>b, <1>c
  <2>2. CASE m \in 1 .. Len(k.attempts)
    BY <2>1, <2>2, <1>a DEF OrderOK
  <2>3. CASE m = Len(k.attempts) + 1
    BY <2>1, <2>3, <1>a
  <2> QED BY <2>2, <2>3, <1>a
<1>6. PICK s \in 0 .. Len(k.attempts) : Passes(k, s)
  BY DEF OrderOK
<1>7. \A m \in s + 1 .. Len(k.attempts) : k.attempts[m] < h
  BY <1>6, <1>b DEF Passes, h
<1>8. Ascends(r.attempts, 1, s)
  <2>1. Ascends(k.attempts, 1, s)
    BY <1>6 DEF Passes
  <2>2. \A n \in 1 .. s : n \in 1 .. Len(k.attempts) /\ r.attempts[n] = k.attempts[n]
    BY <1>a
  <2> QED BY <2>1, <2>2 DEF Ascends
<1>9. Ascends(r.attempts, s + 1, Len(r.attempts))
  <2> SUFFICES ASSUME NEW m \in s + 1 .. Len(r.attempts), NEW n \in s + 1 .. Len(r.attempts),
                      m < n
               PROVE  r.attempts[m] < r.attempts[n]
    BY DEF Ascends
  <2>1. m \in s + 1 .. Len(k.attempts) /\ m \in 1 .. Len(k.attempts)
    BY <1>a
  <2>2. CASE n \in s + 1 .. Len(k.attempts)
    BY <2>1, <2>2, <1>6, <1>a DEF Passes, Ascends
  <2>3. CASE n = Len(k.attempts) + 1
    BY <2>1, <2>3, <1>7, <1>a
  <2>4. n \in s + 1 .. Len(k.attempts) \/ n = Len(k.attempts) + 1
    BY <1>a
  <2> QED BY <2>2, <2>3, <2>4
<1>10. ASSUME NEW m \in s + 1 .. Len(r.attempts), NEW n \in 1 .. Len(r.cooling)
       PROVE  r.attempts[m] < r.cooling[n]
  <2>1. r.cooling[n] = k.cooling[n + 1] /\ n + 1 \in 1 .. Len(k.cooling)
    BY <1>b
  <2>2. CASE m \in s + 1 .. Len(k.attempts)
    <3>1. m \in 1 .. Len(k.attempts)
      BY <2>2
    <3> QED BY <2>1, <2>2, <3>1, <1>6, <1>a DEF Passes
  <2>3. CASE m = Len(k.attempts) + 1
    BY <2>3, <1>a, <1>c
  <2>4. m \in s + 1 .. Len(k.attempts) \/ m = Len(k.attempts) + 1
    BY <1>a
  <2> QED BY <2>2, <2>3, <2>4
<1>11. Passes(r, s) /\ s \in 0 .. Len(r.attempts)
  <2>1. s \in 0 .. Len(r.attempts)
    BY <1>a
  <2>2. r.i = Len(r.backends)
    OBVIOUS
  <2> QED BY <1>8, <1>9, <1>10, <2>1, <2>2 DEF Passes
<1> QED BY <1>1, <1>2, <1>3, <1>4, <1>5, <1>11 DEF OrderOK

\* An action of a call keeps its record in order.
LEMMA OrderStep ==
  ASSUME CallsOK, NEW c \in Callers, OrderOK(call[c]), CallStep(c)
  PROVE  OrderOK(call'[c]) /\ \A d \in Callers \ {c} : call'[d] = call[d]
<1> DEFINE k == call[c]
           r == call'[c]
<1>k. /\ k \in CallType /\ call \in [Callers -> CallType] /\ CallOK(k)
      /\ k.attempts \in Seq(Nat) /\ k.cooling \in Seq(Nat) /\ k.backends \in Seq(Targets)
      /\ k.i \in Nat /\ Len(k.backends) \in Nat
  BY DEF CallsOK, CallType
<1>n. Numbers(k.attempts) /\ Numbers(k.cooling)
  BY <1>k, AppendFacts
<1>i. k.pc = "match" => k.i < Len(k.backends)
  BY <1>k DEF CallOK
<1>1. CASE ScanDrained(c)
  <2>1. /\ r.attempts = k.attempts /\ r.cooling = k.cooling /\ r.i = k.i + 1
        /\ k.i < Len(k.backends) /\ \A d \in Callers \ {c} : call'[d] = call[d]
    BY <1>1, <1>i, <1>k DEF ScanDrained, CallType
  <2> QED BY <2>1, <1>k, <1>n, OrderDrained
<1>2. CASE ScanCooling(c)
  <2>1. /\ r.attempts = k.attempts /\ r.cooling = Append(k.cooling, k.i) /\ r.i = k.i + 1
        /\ k.i < Len(k.backends) /\ \A d \in Callers \ {c} : call'[d] = call[d]
    BY <1>2, <1>i, <1>k DEF ScanCooling, CallType
  <2>2. Appended(k.cooling, k.i, r.cooling)
    BY <1>k, <2>1, AppendFacts
  <2> QED BY <2>1, <2>2, <1>k, <1>n, OrderCooling
<1>3. CASE ScanTry(c)
  <2>1. /\ r.attempts = Append(k.attempts, k.i) /\ r.cooling = k.cooling /\ r.i = k.i + 1
        /\ k.i < Len(k.backends) /\ \A d \in Callers \ {c} : call'[d] = call[d]
    BY <1>3, <1>i, <1>k DEF ScanTry, CallType
  <2>2. Appended(k.attempts, k.i, r.attempts)
    BY <1>k, <2>1, AppendFacts
  <2> QED BY <2>1, <2>2, <1>k, <1>n, OrderTry
<1>4. CASE TryCooling(c)
  <2>1. /\ r.attempts = Append(k.attempts, Head(k.cooling)) /\ r.cooling = Tail(k.cooling)
        /\ r.i = k.i /\ r.backends = k.backends /\ k.i = Len(k.backends) /\ k.cooling # <<>>
        /\ \A d \in Callers \ {c} : call'[d] = call[d]
    BY <1>4, <1>k DEF TryCooling, CallType
  <2>2. /\ Head(k.cooling) = k.cooling[1] /\ Head(k.cooling) \in Nat
        /\ HeadDropped(k.cooling, r.cooling)
    BY <1>k, <2>1, TailFacts
  <2>3. Appended(k.attempts, k.cooling[1], r.attempts)
    BY <1>k, <2>1, <2>2, AppendFacts
  <2> QED BY <2>1, <2>2, <2>3, <1>k, <1>n, OrderRetry
<1>5. CASE Return(c)
  BY <1>5, <1>k, OrderIdle DEF Return
<1>6. ASSUME \/ LoadStatus(c) \/ GiveUp(c) \/ DialOk(c) \/ DialFail(c) \/ DialExhausted(c)
             \/ Ready(c) \/ TryNext(c) \/ UNCHANGED call
             \/ \E n \in 0 .. MaxAddrs : ResolveOk(c, n)
             \/ \E e \in DnsErrors : ResolveFail(c, e)
             \/ \E e \in FatalErrors : ResolveFatal(c, e)
      PROVE  OrderOK(r) /\ \A d \in Callers \ {c} : call'[d] = call[d]
  <2>1. /\ r.attempts = k.attempts /\ r.cooling = k.cooling
        /\ r.i = k.i /\ r.backends = k.backends
        /\ \A d \in Callers \ {c} : call'[d] = call[d]
    <3>0. CASE LoadStatus(c)
      BY <3>0, <1>k DEF LoadStatus, CallType
    <3>1. CASE GiveUp(c) \/ Ready(c) \/ TryNext(c) \/ UNCHANGED call
      BY <3>1, <1>k DEF GiveUp, Ready, TryNext, CallType
    <3>2. CASE DialOk(c) \/ DialFail(c) \/ DialExhausted(c)
      BY <3>2, <1>k DEF DialOk, DialFail, DialExhausted, CallType
    <3>3. CASE \E n \in 0 .. MaxAddrs : ResolveOk(c, n)
      BY <3>3, <1>k DEF ResolveOk, CallType
    <3>4. CASE \E e \in DnsErrors : ResolveFail(c, e)
      BY <3>4, <1>k DEF ResolveFail, CallType
    <3>5. CASE \E e \in FatalErrors : ResolveFatal(c, e)
      BY <3>5, <1>k DEF ResolveFatal, CallType
    <3> QED BY <1>6, <3>0, <3>1, <3>2, <3>3, <3>4, <3>5
  <2> QED BY <2>1, OrderSame
<1>7. CASE LookupHost(c)
  BY <1>6, <1>7, <1>k, LookupOutcomes
<1> QED BY <1>1, <1>2, <1>3, <1>4, <1>5, <1>6, <1>7 DEF CallStep

\* A call that begins, or is dropped, has tried nothing and put nothing aside.
LEMMA FreshOrder ==
  ASSUME NEW k, k.attempts = <<>>, k.cooling = <<>>
  PROVE  OrderOK(k)
BY DEF OrderOK, Passes, Below, Ascends, Distinct

\* Every step keeps the order of every call.
LEMMA OrdersStep == BalancerInv /\ OrdersOK /\ [Next]_vars => OrdersOK'
<1> SUFFICES ASSUME BalancerInv, OrdersOK, [Next]_vars PROVE OrdersOK'
  OBVIOUS
<1>0. CallsOK /\ call \in [Callers -> CallType]
  BY DEF BalancerInv, CallsOK
<1>f. ASSUME NEW c \in Callers, OrderOK(call'[c]), \A d \in Callers \ {c} : call'[d] = call[d]
      PROVE  OrdersOK'
  <2>1. \A d \in Callers : OrderOK(call'[d])
    BY <1>f DEF OrdersOK
  <2> QED BY <2>1 DEF OrdersOK, OrderOK, Passes, Below, Ascends
<1>1. CASE \E c \in Callers : CallStep(c)
  BY <1>0, <1>1, <1>f, OrderStep DEF OrdersOK
<1>2. ASSUME NEW c \in Callers,
             DropCall(c) \/ \E p \in ForPorts : CallUnserved(c, p) \/ Call(c, p)
      PROVE  OrdersOK'
  <2>1. call[c].pc = "idle" => call[c].attempts = <<>> /\ call[c].cooling = <<>>
    BY <1>0 DEF CallsOK, CallOK, NoCall
  <2>2. NoCall.attempts = <<>> /\ NoCall.cooling = <<>>
    BY DEF NoCall
  <2>3. /\ call'[c].attempts = <<>> /\ call'[c].cooling = <<>>
        /\ \A d \in Callers \ {c} : call'[d] = call[d]
    <3>1. CASE DropCall(c)
      BY <1>0, <3>1, <2>2 DEF DropCall
    <3>2. ASSUME NEW p \in ForPorts, CallUnserved(c, p) PROVE <2>3!:
      BY <1>0, <3>2, <2>1 DEF CallUnserved, CallType
    <3>3. ASSUME NEW p \in ForPorts, Call(c, p) PROVE <2>3!:
      BY <1>0, <3>3, <2>1 DEF Call, CallType
    <3> QED BY <1>2, <3>1, <3>2, <3>3
  <2> QED BY <1>f, <2>3, FreshOrder
<1>3. CASE UNCHANGED call
  <2>1. \A d \in Callers : OrderOK(call'[d])
    BY <1>3 DEF OrdersOK
  <2> QED BY <2>1 DEF OrdersOK, OrderOK, Passes, Below, Ascends
<1> QED BY <1>1, <1>2, <1>3 DEF Next, vars

\* connect_backend tries no position of a pool twice and goes back once at
\* most, to start over with the positions that were cooling.
THEOREM AttemptsInOrder == Spec => []RoundRobinOrder
<1>1. Init => OrdersOK
  BY OrderIdle DEF Init, OrdersOK
<1>2. BalancerInv /\ OrdersOK => RoundRobinOrder
  <2> SUFFICES ASSUME BalancerInv, OrdersOK, NEW c \in Callers
               PROVE  LET a == call[c].attempts
                          Down(n) == n + 1 \in 1 .. Len(a) /\ a[n + 1] < a[n]
                      IN /\ \A m, n \in 1 .. Len(a) : a[m] = a[n] => m = n
                         /\ \A m, n \in 1 .. Len(a) : Down(m) /\ Down(n) => m = n
    BY DEF RoundRobinOrder
  <2> DEFINE a == call[c].attempts
             Down(n) == n + 1 \in 1 .. Len(a) /\ a[n + 1] < a[n]
  <2>1. a \in Seq(Nat) /\ OrderOK(call[c])
    BY DEF BalancerInv, CallsOK, CallType, OrdersOK
  <2>2. \A m, n \in 1 .. Len(a) : a[m] = a[n] => m = n
    BY <2>1 DEF OrderOK, Distinct
  <2>3. PICK s \in 0 .. Len(a) : Passes(call[c], s)
    BY <2>1 DEF OrderOK
  <2>4. ASSUME NEW m \in 1 .. Len(a), Down(m) PROVE m = s
    <3>0. m + 1 \in 1 .. Len(a) /\ a[m + 1] < a[m]
      BY <2>4
    <3>1. a[m] \in Nat /\ a[m + 1] \in Nat
      <4> HIDE DEF a
      <4> QED BY <2>1, <3>0
    <3>2. CASE m < s
      <4>1. m \in 1 .. s /\ m + 1 \in 1 .. s
        BY <3>2
      <4>2. a[m] < a[m + 1]
        BY <4>1, <2>3 DEF Passes, Ascends
      <4> QED BY <4>2, <3>0, <3>1
    <3>3. CASE m > s
      <4>1. m \in s + 1 .. Len(a) /\ m + 1 \in s + 1 .. Len(a)
        BY <3>0, <3>3
      <4>2. a[m] < a[m + 1]
        BY <4>1, <2>3 DEF Passes, Ascends
      <4> QED BY <4>2, <3>0, <3>1
    <3> QED BY <3>2, <3>3, <2>1
  <2> QED BY <2>2, <2>4
<1> QED BY <1>1, <1>2, OrdersStep, BalancerInvariance, PTL DEF Spec
-----------------------------------------------------------------------------
(* Targets whose address is none.                                          *)

\* What lookup_host answers depends on the form of the address: a bad one
\* gives BadAddressError and nothing else does.
LEMMA LookupForms ==
  ASSUME NEW t \in Targets
  PROVE  /\ AddrForm[t] = "bad" => /\ LookupSizes(t) = {}
                                   /\ LookupErrors(t) = {"BadAddressError"}
         /\ AddrForm[t] # "bad" => LookupErrors(t) \subseteq DnsErrors
         /\ LookupSizes(t) \subseteq 0 .. MaxAddrs
         /\ DnsErrors \cap FatalErrors = {} /\ "BadAddressError" \in FatalErrors
BY FormAssumption, AddrsAssumption
DEF LookupSizes, LookupErrors, FromNetError, DnsErrors, FatalErrors

\* Whether an attempt was on a bad address depends on three fields.
LEMMA BadAtSame ==
  ASSUME NEW k, NEW r, NEW m, r.attempts[m] = k.attempts[m],
         r.start_idx = k.start_idx, r.backends = k.backends
  PROVE  BadAt(r, m) <=> BadAt(k, m)
BY DEF BadAt, TargetAt, IndexAt

\* A record whose search stays where it was, and is not on a bad address
\* unless it is being resolved or done.
LEMMA BadSame ==
  ASSUME NEW k, NEW r, BadOK(k), r.attempts = k.attempts, r.start_idx = k.start_idx,
         r.backends = k.backends, k.attempts \in Seq(Nat),
         k.pc # "resolve", k.pc # "done", r.outcome # "BadAddressError"
  PROVE  BadOK(r)
BY BadAtSame DEF BadOK

\* A step of a pass that tries a further position.
LEMMA BadAppend ==
  ASSUME NEW k, NEW r, NEW x \in Nat, BadOK(k), k.attempts \in Seq(Nat),
         r.attempts = Append(k.attempts, x), r.start_idx = k.start_idx,
         r.backends = k.backends, k.pc \in {"scan", "match"}, r.pc = "resolve",
         r.outcome # "BadAddressError"
  PROVE  BadOK(r)
<1>1. /\ Len(r.attempts) = Len(k.attempts) + 1 /\ Len(k.attempts) \in Nat
      /\ \A m \in 1 .. Len(k.attempts) : r.attempts[m] = k.attempts[m]
  OBVIOUS
<1>2. ASSUME NEW m \in 1 .. Len(r.attempts), BadAt(r, m) PROVE m = Len(r.attempts)
  <2>1. CASE m \in 1 .. Len(k.attempts)
    BY <1>1, <1>2, <2>1, BadAtSame DEF BadOK
  <2>2. CASE m = Len(k.attempts) + 1
    BY <1>1, <2>2
  <2>3. m \in 1 .. Len(k.attempts) \/ m = Len(k.attempts) + 1
    BY <1>1
  <2> QED BY <2>1, <2>2, <2>3
<1> QED BY <1>2 DEF BadOK

\* A call that has tried nothing has met no bad address.
LEMMA BadFresh ==
  ASSUME NEW k, k.attempts = <<>>, k.outcome # "BadAddressError"
  PROVE  BadOK(k)
BY DEF BadOK

\* An action of a call: the bad address ends it, and is never reported.
LEMMA BadStep ==
  ASSUME HandlerInv, CallsOK, BadInv, NEW c \in Callers, CallStep(c),
         ~(ReportStep(c) /\ UNCHANGED <<rr_counter, call>>)
  PROVE  /\ BadOK(call'[c]) /\ \A d \in Callers \ {c} : call'[d] = call[d]
         /\ UNCHANGED target_status
         /\ \/ UNCHANGED report
            \/ /\ \A d \in Callers \ {c} : report'[d] = report[d]
               /\ AddrForm[report'[c].target] # "bad"
<1> DEFINE k == call[c]
           r == call'[c]
           Goal == /\ BadOK(r) /\ \A d \in Callers \ {c} : call'[d] = call[d]
                   /\ UNCHANGED target_status
                   /\ \/ UNCHANGED report
                      \/ /\ \A d \in Callers \ {c} : report'[d] = report[d]
                         /\ AddrForm[report'[c].target] # "bad"
<1>k. /\ k \in CallType /\ call \in [Callers -> CallType] /\ CallOK(k) /\ BadOK(k)
      /\ k.attempts \in Seq(Nat) /\ k.cooling \in Seq(Nat)
      /\ k.i \in Nat
  BY DEF CallsOK, CallType, BadInv
<1>h. DOMAIN report = Callers
  BY DEF HandlerInv, HandlerTypeOK
<1>o. k.pc # "done" => k.outcome # "BadAddressError"
  BY <1>k DEF BadOK
<1>1. CASE LoadStatus(c) \/ ScanDrained(c) \/ ScanCooling(c) \/ TryNext(c) \/ DialFail(c)
  <2>1. /\ r.attempts = k.attempts /\ r.start_idx = k.start_idx /\ r.backends = k.backends
        /\ r.outcome = k.outcome /\ k.pc # "resolve" /\ k.pc # "done"
        /\ \A d \in Callers \ {c} : call'[d] = call[d]
        /\ UNCHANGED <<target_status, report>>
    <3>0. CASE LoadStatus(c)
      BY <3>0, <1>k DEF LoadStatus, Scanning, CallType, handlerVars
    <3>1. CASE ScanDrained(c)
      BY <3>1, <1>k DEF ScanDrained, CallType, handlerVars
    <3>3. CASE ScanCooling(c)
      BY <3>3, <1>k DEF ScanCooling, CallType, handlerVars
    <3>2. CASE TryNext(c)
      BY <3>2, <1>k DEF TryNext, CallType, handlerVars
    <3>4. CASE DialFail(c)
      BY <3>4, <1>k DEF DialFail, CallType, handlerVars
    <3> QED BY <1>1, <3>0, <3>1, <3>2, <3>3, <3>4
  <2> QED BY <2>1, <1>k, <1>o, BadSame
<1>2. CASE GiveUp(c) \/ Ready(c)
  <2>1. /\ r.attempts = k.attempts /\ r.start_idx = k.start_idx /\ r.backends = k.backends
        /\ r.outcome \in {"ConnectionError", "Ready"} /\ k.pc # "resolve" /\ k.pc # "done"
        /\ \A d \in Callers \ {c} : call'[d] = call[d]
        /\ UNCHANGED <<target_status, report>>
    <3>1. CASE GiveUp(c)
      BY <3>1, <1>k DEF GiveUp, CallType, handlerVars
    <3>2. CASE Ready(c)
      BY <3>2, <1>k DEF Ready, CallType, handlerVars
    <3> QED BY <1>2, <3>1, <3>2
  <2> QED BY <2>1, <1>k, BadSame
<1>3. CASE ScanTry(c) \/ TryCooling(c)
  <2>1. PICK x \in Nat :
        /\ r.attempts = Append(k.attempts, x) /\ r.start_idx = k.start_idx
        /\ r.backends = k.backends /\ r.outcome = k.outcome /\ k.pc \in {"scan", "match"}
        /\ r.pc = "resolve" /\ \A d \in Callers \ {c} : call'[d] = call[d]
        /\ UNCHANGED <<target_status, report>>
    <3>1. CASE ScanTry(c)
      BY <3>1, <1>k DEF ScanTry, CallType, handlerVars
    <3>2. CASE TryCooling(c)
      <4>1. Head(k.cooling) \in Nat
        BY <3>2, <1>k DEF TryCooling
      <4> QED BY <3>2, <4>1, <1>k DEF TryCooling, CallType, handlerVars
    <3> QED BY <1>3, <3>1, <3>2
  <2> QED BY <2>1, <1>k, <1>o, BadAppend
<1>4. CASE Return(c)
  <2>1. NoCall.attempts = <<>> /\ NoCall.outcome = "none"
    BY DEF NoCall
  <2> QED BY <1>4, <2>1, <1>k, BadFresh DEF Return, handlerVars
<1>r. ASSUME NEW x \in {"Success", "Failure"}, ReportCall(c, Current(k), x)
      PROVE  /\ \A d \in Callers \ {c} : report'[d] = report[d]
             /\ report'[c].target = Current(k)
  BY <1>r, <1>h DEF ReportCall
<1>5. CASE DialOk(c) \/ DialExhausted(c)
  <2>1. /\ r.attempts = k.attempts /\ r.start_idx = k.start_idx /\ r.backends = k.backends
        /\ r.outcome = k.outcome /\ k.pc = "dial"
        /\ \A d \in Callers \ {c} : call'[d] = call[d]
        /\ UNCHANGED target_status
        /\ \E x \in {"Success", "Failure"} : ReportCall(c, Current(k), x)
    BY <1>5, <1>k DEF DialOk, DialExhausted, CallType
  <2>2. Len(k.attempts) \in 1 .. Len(k.attempts)
    BY <2>1, <1>k DEF CallOK
  <2>3. AddrForm[Current(k)] # "bad"
    BY <2>1, <2>2, <1>k DEF BadOK, BadAt, Current
  <2> QED BY <2>1, <2>3, <1>k, <1>o, <1>r, BadSame
<1>6. CASE LookupHost(c)
  <2> DEFINE t == Current(k)
  <2>1. k.pc = "resolve" /\ k.attempts # <<>>
    BY <1>6, <1>k DEF LookupHost, CallOK
  <2>2. t \in Targets
    BY <2>1, <1>k, CurrentIsTarget
  <2>3. Len(k.attempts) \in 1 .. Len(k.attempts)
    BY <2>1, <1>k
  <2>4. BadAt(k, Len(k.attempts)) <=> AddrForm[t] = "bad"
    BY DEF BadAt, Current
  <2>b. ASSUME NEW m \in 1 .. Len(k.attempts), BadAt(k, m)
        PROVE  m = Len(k.attempts) /\ AddrForm[t] = "bad"
    BY <2>b, <2>4, <1>k DEF BadOK
  <2> HIDE DEF t
  <2>5. ASSUME NEW n \in LookupSizes(t), ResolveOk(c, n) PROVE Goal
    <3>1. AddrForm[t] # "bad"
      BY <2>2, <2>5, LookupForms
    <3>2. /\ r.attempts = k.attempts /\ r.start_idx = k.start_idx /\ r.backends = k.backends
          /\ r.outcome = k.outcome /\ \A d \in Callers \ {c} : call'[d] = call[d]
          /\ UNCHANGED <<target_status, report>>
      BY <2>5, <1>k DEF ResolveOk, CallType, handlerVars
    <3>3. BadOK(r)
      BY <2>1, <3>1, <3>2, <2>b, <1>o, BadAtSame DEF BadOK
    <3> QED BY <3>2, <3>3
  <2>6. ASSUME NEW e \in LookupErrors(t), ResolveFail(c, e) PROVE Goal
    <3>1. AddrForm[t] # "bad"
      BY <2>2, <2>6, LookupForms DEF ResolveFail
    <3>2. /\ r.attempts = k.attempts /\ r.start_idx = k.start_idx /\ r.backends = k.backends
          /\ r.outcome = k.outcome /\ \A d \in Callers \ {c} : call'[d] = call[d]
          /\ UNCHANGED target_status /\ ReportCall(c, t, "Failure")
      BY <2>6, <1>k DEF ResolveFail, CallType, t
    <3>3. BadOK(r)
      BY <2>1, <3>1, <3>2, <2>b, <1>o, BadAtSame DEF BadOK
    <3>4. /\ \A d \in Callers \ {c} : report'[d] = report[d]
          /\ report'[c].target = t
      BY <3>2, <1>r DEF t
    <3> QED BY <3>1, <3>2, <3>3, <3>4
  <2>7. ASSUME NEW e \in LookupErrors(t), ResolveFatal(c, e) PROVE Goal
    <3>1. AddrForm[t] = "bad"
      BY <2>2, <2>7, LookupForms DEF ResolveFatal
    <3>2. /\ r.attempts = k.attempts /\ r.start_idx = k.start_idx /\ r.backends = k.backends
          /\ r.pc = "done" /\ \A d \in Callers \ {c} : call'[d] = call[d]
          /\ UNCHANGED <<target_status, report>>
      BY <2>7, <1>k DEF ResolveFatal, CallType, handlerVars
    <3>3. BadOK(r)
      BY <2>1, <2>4, <3>1, <3>2, <2>b, BadAtSame DEF BadOK
    <3> QED BY <3>2, <3>3
  <2> QED BY <1>6, <2>5, <2>6, <2>7 DEF LookupHost, t
<1> HIDE DEF k, r
<1> QED BY <1>1, <1>2, <1>3, <1>4, <1>5, <1>6 DEF CallStep
\* A report under way touches the status of its own target only, and stays
\* with that target until it returns.
LEMMA BadReportStep ==
  ASSUME HandlerInv, NEW c \in Callers, ReportStep(c)
  PROVE  /\ report[c].at # "idle"
         /\ \A t \in Targets : t # report[c].target => target_status'[t] = target_status[t]
         /\ \A d \in Callers \ {c} : report'[d] = report[d]
         /\ report'[c].at = "idle" \/ report'[c].target = report[c].target
<1>t. /\ target_status \in [Targets -> BackendStatus]
      /\ report \in [Callers -> [at : {"idle", "load", "decide", "store"}, target : Targets,
                                 result : {"Success", "Failure"}, status : BackendStatus]]
      /\ NoReport.at = "idle"
  BY StatusFacts DEF HandlerInv, HandlerTypeOK
<1>1. CASE ReportLoad(c)
  BY <1>1, <1>t DEF ReportLoad, ReportReturn
<1>2. CASE ReportDecide(c)
  BY <1>2, <1>t DEF ReportDecide, ReportReturn
<1>3. CASE ReportStore(c)
  BY <1>3, <1>t DEF ReportStore, ReportReturn
<1> QED BY <1>1, <1>2, <1>3 DEF ReportStep

\* It is enough to look at the caller that takes the step.
LEMMA BadFrame ==
  ASSUME BadInv, NEW c \in Callers, BadOK(call'[c]),
         \A d \in Callers \ {c} : call'[d] = call[d],
         \A t \in Targets : AddrForm[t] = "bad" => target_status'[t] \in {Alive(None), Drain},
         \A d \in Callers \ {c} : report'[d] = report[d],
         report'[c].at # "idle" => AddrForm[report'[c].target] # "bad"
  PROVE  BadInv'
<1>1. \A d \in Callers : BadOK(call'[d])
  BY DEF BadInv
<1>2. \A d \in Callers : report'[d].at # "idle" => AddrForm[report'[d].target] # "bad"
  BY DEF BadInv
<1> QED BY <1>1, <1>2 DEF BadInv, BadOK, BadAt, TargetAt, IndexAt, Alive, Drain, None

\* Every step keeps what is known of the bad addresses.
LEMMA BadInvStep == BalancerInv /\ BadInv /\ [Next]_vars => BadInv'
<1> SUFFICES ASSUME BalancerInv, BadInv, [Next]_vars PROVE BadInv'
  OBVIOUS
<1>0. HandlerInv /\ CallsOK /\ call \in [Callers -> CallType] /\ DOMAIN target_status = Targets
  BY DEF BalancerInv, CallsOK, HandlerInv, HandlerTypeOK
<1>u. ASSUME UNCHANGED call, UNCHANGED report,
             \A t \in Targets :
               AddrForm[t] = "bad" => target_status'[t] \in {Alive(None), Drain}
      PROVE  BadInv'
  <2>1. \A d \in Callers : BadOK(call'[d])
    BY <1>u DEF BadInv
  <2> QED BY <1>u, <2>1 DEF BadInv, BadOK, BadAt, TargetAt, IndexAt, Alive, Drain, None
<1>1. ASSUME NEW c \in Callers, CallStep(c) PROVE BadInv'
  <2>1. CASE ReportStep(c) /\ UNCHANGED <<rr_counter, call>>
    <3>1. BadOK(call'[c]) /\ \A d \in Callers \ {c} : call'[d] = call[d]
      BY <2>1 DEF BadInv
    <3>2. AddrForm[report[c].target] # "bad"
      BY <1>0, <2>1, BadReportStep DEF BadInv
    <3>3. \A t \in Targets : AddrForm[t] = "bad" => target_status'[t] \in {Alive(None), Drain}
      BY <1>0, <2>1, <3>2, BadReportStep DEF BadInv
    <3> QED BY <1>0, <2>1, <3>1, <3>2, <3>3, BadReportStep, BadFrame
  <2>2. CASE ~(ReportStep(c) /\ UNCHANGED <<rr_counter, call>>)
    BY <1>0, <1>1, <2>2, BadStep, BadFrame DEF BadInv
  <2> QED BY <2>1, <2>2
<1>2. ASSUME NEW c \in Callers,
             DropCall(c) \/ \E p \in ForPorts : CallUnserved(c, p) \/ Call(c, p)
      PROVE  BadInv'
  <2>1. call[c].pc = "idle" => call[c].attempts = <<>> /\ call[c].outcome = "none"
    BY <1>0 DEF CallsOK, CallOK, NoCall
  <2>2. NoCall.attempts = <<>> /\ NoCall.outcome = "none"
    BY DEF NoCall
  <2>3. /\ call'[c].attempts = <<>> /\ call'[c].outcome # "BadAddressError"
        /\ \A d \in Callers \ {c} : call'[d] = call[d]
        /\ UNCHANGED <<target_status, report>>
    <3>1. CASE DropCall(c)
      BY <1>0, <3>1, <2>2 DEF DropCall, handlerVars
    <3>2. ASSUME NEW p \in ForPorts, CallUnserved(c, p) PROVE <2>3!:
      BY <1>0, <3>2, <2>1 DEF CallUnserved, CallType, handlerVars
    <3>3. ASSUME NEW p \in ForPorts, Call(c, p) PROVE <2>3!:
      BY <1>0, <3>3, <2>1 DEF Call, CallType, handlerVars
    <3> QED BY <1>2, <3>1, <3>2, <3>3
  <2> QED BY <2>3, BadFresh, BadFrame DEF BadInv
<1>3. CASE Tick /\ UNCHANGED <<rr_counter, call>>
  BY <1>3, <1>u DEF Tick, BadInv
<1>4. ASSUME NEW t \in Targets, DrainTarget(t), UNCHANGED <<rr_counter, call>> PROVE BadInv'
  BY <1>0, <1>4, <1>u DEF DrainTarget, BadInv
<1>5. CASE UNCHANGED vars
  BY <1>5, <1>u DEF vars, handlerVars, BadInv
<1> QED BY <1>1, <1>2, <1>3, <1>4, <1>5 DEF Next

\* A target whose address is none is never put into cooldown, and a call that
\* reaches it returns BadAddressError, however healthy the rest of the pool.
THEOREM BadAddressIsFatal == Spec => []BadAddressEndsCall
<1>1. Init => BadInv
  <2> SUFFICES ASSUME Init PROVE BadInv
    OBVIOUS
  <2>1. NoCall.attempts = <<>> /\ NoCall.outcome = "none" /\ NoReport.at = "idle"
    BY StatusFacts DEF NoCall
  <2>2. \A c \in Callers : BadOK(call[c])
    BY <2>1, BadFresh DEF Init
  <2> QED BY <2>1, <2>2 DEF Init, HandlerInit, BadInv
<1>2. BadInv => BadAddressEndsCall
  BY DEF BadInv, BadOK, BadAt, BadAddressEndsCall
<1> QED BY <1>1, <1>2, BadInvStep, BalancerInvariance, PTL DEF Spec
=============================================================================
