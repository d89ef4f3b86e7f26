----------------------- MODULE MC_ExecutionLifecycle -------------------------
(***************************************************************************)
(* ExecutionLifecycle for TLC, with the property that needs the fold over  *)
(* the whole ledger.                                                       *)
(***************************************************************************)
EXTENDS ExecutionLifecycle, SequencesExt

\* rebuild(events).
Rebuild(events) == FoldLeft(Apply, InitialState, events)

\* Workers are interchangeable.
WorkerSymmetry == Permutations(Workers)

\* The row, the ledger and the gates account for each other, and the fold the
\* model keeps one event at a time is rebuild_projection over the whole ledger.
RebuildAgrees == AccountedFor /\ folded = Rebuild(ledger)

\* The queue drains under fair workers, clock and sweep: an overdue restart
\* leaves it even after a crash, and a queued execution finishes unless
\* something died.
QueueDrains == RestartLeavesQueue /\ QueuedFinishes

=============================================================================
