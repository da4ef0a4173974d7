------------------------------ MODULE MCStartup ------------------------------
EXTENDS Startup

SeqsUpTo(S, n) == UNION {[1 .. k -> S] : k \in 0 .. n}

\* Up to two apps with up to two ports and a target each, then three apps
\* with one port.
SmallApps(np) == [ports : SeqsUpTo({1, 2}, np), targets : SeqsUpTo(Targets, 1)]
SmallConfigs == SeqsUpTo(SmallApps(2), 2) \cup SeqsUpTo(SmallApps(1), 3)
=============================================================================
