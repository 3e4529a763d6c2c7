---------------------------- MODULE MCSemaphores ----------------------------
EXTENDS Semaphores

\* A bad value, and the values the uses call for.
SomeValues == {-1, 0, 1, 2}
\* What no later step depends on does not tell two states apart: what a call returned,
\* the ends of an empty list, and who took units where anybody may call V.
Ends    == [s \in Sems |-> IF blocked[s].size = 0 THEN EmptyQueue ELSE blocked[s]]
Holding == IF use \in {"lock", "pool"} THEN holders ELSE {}

View == <<use, value, capacity, Ends, mutex, tokens, givers, takers, nextSibling, at, on,
          prio, cur, preemptible, Holding, crashed>>
=============================================================================
