----------------------------- MODULE MCAutoLoop -----------------------------
(* Command lines for the small instances of AutoLoop.                       *)
EXTENDS AutoLoop

Bounded == [infinite |-> FALSE, iterations |-> 2, target |-> 0, named |-> {},
            clock |-> FALSE, repair |-> TRUE, ship |-> TRUE, timeout |-> TRUE]
Open == [Bounded EXCEPT !.infinite = TRUE, !.iterations = 0, !.clock = TRUE, !.ship = FALSE,
                        !.timeout = FALSE]

\* A bounded run, a bounded dry run for one named task, with no timeout, an
\* infinite run with an explicit target and an open-ended one, both timed by
\* their wall-clock budget.
EveryMode ==
  {Bounded,
   [Bounded EXCEPT !.iterations = 1, !.named = {"b"}, !.repair = FALSE, !.ship = FALSE,
                    !.timeout = FALSE],
   [Open EXCEPT !.target = 2],
   Open}

\* Open-ended runs, as `make` starts them, that land nothing by repair.
OpenOnly == {[Open EXCEPT !.clock = FALSE, !.repair = FALSE]}

\* A pool of one and one of two; the second for fewer runs.
BothPools == {1, 2}
SomeRuns == [n \in Pools |-> IF n = 1 THEN 3 ELSE 2]
Wide == {2}
OneRun == [n \in Pools |-> 1]
=============================================================================
