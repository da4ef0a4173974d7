----------------------- MODULE MCRoundRobinBalancer -----------------------
EXTENDS RoundRobinBalancer, TLC
CONSTANTS ta, tb, td

\* A pool whose targets all callers share, an empty pool, and a port (3)
\* without one.
SharedPools == (1 :> <<ta, tb>>) @@ (2 :> <<>>)

\* A pool that lists a target twice, as the configuration may, and one whose
\* address is no address.
LongPool == (1 :> <<ta, tb, ta, td>>)

TwoTargets == (1 :> <<ta, tb>>)

\* tb is written as a socket address, td as something that is none.
Forms == [t \in Targets |-> IF t = tb THEN "socket" ELSE IF t = td THEN "bad" ELSE "name"]
NameForms == [t \in Targets |-> "name"]

CallerSymmetry == Permutations(Callers)
=============================================================================
