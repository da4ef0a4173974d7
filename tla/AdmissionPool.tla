---------------------------- MODULE AdmissionPool ----------------------------
(***************************************************************************)
(* What the proxy promises about admission, without listeners, tasks or    *)
(* semaphores: at most Capacity connections are served and at most         *)
(* QueueLimit are queued; a connection that leaves hands its place to the  *)
(* longest parked one; nobody takes a free place past a parked one.        *)
(*                                                                         *)
(* A queued connection is `fresh` until it has looked for a place once,    *)
(* then parked; `starting` are the served ones that still count as queued. *)
(***************************************************************************)
EXTENDS Integers, Sequences, FiniteSets

CONSTANTS Clients, Capacity, QueueLimit

VARIABLES serving, starting, fresh, parked

poolVars == <<serving, starting, fresh, parked>>

Parked == {parked[n] : n \in 1 .. Len(parked)}
Queued == fresh \cup Parked \cup starting
Free   == Cardinality(serving) < Capacity

Init == serving = {} /\ starting = {} /\ fresh = {} /\ parked = <<>>

Outside(c) == c \notin serving \cup fresh \cup Parked

Admit(c) ==
    /\ Outside(c) /\ Free
    /\ serving' = serving \cup {c}
    /\ UNCHANGED <<starting, fresh, parked>>

Queue(c) ==
    /\ Outside(c)
    /\ Cardinality(Queued) < QueueLimit
    /\ fresh' = fresh \cup {c}
    /\ UNCHANGED <<serving, starting, parked>>

Take(c) ==
    /\ c \in fresh /\ Free
    /\ fresh' = fresh \ {c}
    /\ serving' = serving \cup {c}
    /\ starting' = starting \cup {c}
    /\ UNCHANGED parked

Park(c) ==
    /\ c \in fresh /\ ~Free
    /\ fresh' = fresh \ {c}
    /\ parked' = Append(parked, c)
    /\ UNCHANGED <<serving, starting>>

Start(c) ==
    /\ c \in starting
    /\ starting' = starting \ {c}
    /\ UNCHANGED <<serving, fresh, parked>>

Leave(c) ==
    /\ c \in serving
    /\ LET next == IF parked = <<>> THEN {} ELSE {Head(parked)} IN
         /\ serving' = (serving \ {c}) \cup next
         /\ starting' = (starting \ {c}) \cup next
    /\ parked' = IF parked = <<>> THEN parked ELSE Tail(parked)
    /\ UNCHANGED fresh

\* A queued connection is given up.
Withdraw(c) ==
    \/ /\ c \in fresh
       /\ fresh' = fresh \ {c}
       /\ UNCHANGED <<serving, starting, parked>>
    \/ /\ \E i \in 1 .. Len(parked) :
            /\ parked[i] = c
            /\ parked' = [j \in 1 .. Len(parked) - 1 |->
                            IF j < i THEN parked[j] ELSE parked[j + 1]]
       /\ UNCHANGED <<serving, starting, fresh>>

Next == \E c \in Clients : \/ Admit(c) \/ Queue(c) \/ Take(c) \/ Park(c)
                           \/ Start(c) \/ Leave(c) \/ Withdraw(c)

Spec == Init /\ [][Next]_poolVars
=============================================================================
