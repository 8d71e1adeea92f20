-------------------------- MODULE MCSchedulerProfile --------------------------
(* A small instance of SchedulerProfile. *)
EXTENDS SchedulerProfile

CONSTANTS s1, s2

\* Idle, busy, full, out of memory, quiesced for a weight sync, and without stats.
Report(state, kv, waiting, null) == [state |-> state, kv |-> kv, waiting |-> waiting, null |-> null]
Reports ==
    {Report("READY", 0, 0, FALSE), Report("READY", 0, 1, FALSE), Report("READY", 0, 2, FALSE),
     Report("READY", 1, 0, FALSE), Report("READY", 0, 0, TRUE),
     Report("SYNCING", 0, 0, FALSE), Report("SYNCING", 0, 0, TRUE)}

Symmetry == Permutations({s1, s2})
=============================================================================
