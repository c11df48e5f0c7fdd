----------------------------- MODULE MCTimeline -----------------------------
(* Instances of Timeline for TLC.                                            *)
EXTENDS Timeline

\* Rows enough for a sync of several pages in one conversation; the others stay
\* empty, and are there to be switched to.
Busiest == CHOOSE c \in Conversations : TRUE
LogsOf(n) == [c \in Conversations |-> IF c = Busiest THEN n ELSE 0]
TwoRows == LogsOf(2)
ThreeRows == LogsOf(3)
=============================================================================
