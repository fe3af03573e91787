--------------------------- MODULE RunRefinement ---------------------------
(* RunLifecycle implements RunContract: the worker executes the run it claimed
   until it has stored the run's outcome. *)
EXTENDS RunLifecycle

Contract == INSTANCE RunContract WITH
    Runs <- RunIds,
    Nobody <- None,
    status <- [r \in RunIds |-> runs[r].status],
    executing <- IF worker.pc \in Busy THEN worker.id ELSE None

\* Every step of the handlers, the ScheduleWorker and the RunWorker is one step of
\* the life of a run that the contract allows, or changes nothing it can see.
ImplementsContract == Contract!CSpec
=============================================================================
