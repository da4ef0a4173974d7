------------------------------- MODULE MCProxy -------------------------------
EXTENDS Proxy, TLC
CONSTANTS ta, tb

TwoTargets == (1 :> <<ta, tb>>)
Forms == [t \in Targets |-> IF t = tb THEN "socket" ELSE "name"]
=============================================================================
