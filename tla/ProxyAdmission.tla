---------------------------- MODULE ProxyAdmission ----------------------------
(***************************************************************************)
(* The proxy server implements AdmissionPool: its two semaphores, its      *)
(* tasks and the semaphore's FIFO, with every way a task can end, amount   *)
(* to a pool with a queue.                                                 *)
(***************************************************************************)
EXTENDS ProxyServer

In(S) == {c \in Conns : task[c] \in S}

Pool == INSTANCE AdmissionPool
          WITH Clients <- Conns, Capacity <- MaxConnections, QueueLimit <- MaxQueue,
               serving <- In(PermitStates), starting <- In({"granted"}),
               fresh <- In({"queued"}), parked <- waiters

\* Whatever listeners, shutdowns, errors and panics do, connections are
\* admitted, queued, parked, handed over and dropped as the pool allows: the
\* server implements AdmissionPool, permits being handed to the longest
\* parked task and never counted free while one is parked.
ImplementsPool == Pool!Spec

\* Once parked, a connection is not overtaken: while any is parked only the
\* first gets a permit, whichever listener has a newcomer and whichever task
\* ends, and whoever stands before a parked one stood before it already.
ServedInOrder ==
    [][/\ waiters # <<>> => In(PermitStates)' \ In(PermitStates) \subseteq {Head(waiters)}
       /\ \A m, n \in 1 .. Len(waiters'), j \in 1 .. Len(waiters) :
            m < n /\ waiters'[n] = waiters[j] =>
              \E i \in 1 .. j - 1 : waiters'[m] = waiters[i]]_vars
=============================================================================
