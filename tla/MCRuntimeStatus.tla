--------------------------- MODULE MCRuntimeStatus ---------------------------
(* Environments in which RuntimeStatus is model-checked. *)
EXTENDS RuntimeStatus

Bound(t, d, c, e, b, m) ==
    [tasks |-> t, breaks |-> d, clears |-> c, exits |-> e, booted |-> b, meets |-> m,
     results |-> {"completed"}]

\* Links that break, clears while tasks run, a desktop that exits, a task that may
\* fail; and the end of the boot: beside a task, and beside an observer whose
\* projections cross those of the main thread.
Environments ==
    {Bound(0, 2, 0, FALSE, FALSE, FALSE), Bound(1, 1, 0, FALSE, TRUE, FALSE),
     Bound(2, 0, 1, FALSE, TRUE, FALSE), Bound(0, 1, 0, TRUE, FALSE, FALSE),
     [Bound(1, 0, 0, FALSE, TRUE, FALSE) EXCEPT !.results = {"completed", "failed"}],
     Bound(1, 0, 0, FALSE, FALSE, FALSE), Bound(0, 1, 0, FALSE, FALSE, TRUE),
     Bound(0, 0, 0, TRUE, FALSE, TRUE)}
=============================================================================
