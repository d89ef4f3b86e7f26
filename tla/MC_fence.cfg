\* Three executions compete for one scope; one worker dies or one transaction
\* is aborted.  A lease and the remote work each last one tick, the window
\* is the shortest that outlasts both.
SPECIFICATION Spec
CONSTANTS
    Executions = {e1, e2, e3}
    NoExecution = NoExecution
    Lease = 1
    Route = 1
    Window = 3
    MaxFaults = 1
SYMMETRY ExecutionSymmetry
INVARIANTS FenceInvariant OneRemoteOperation ClearMeansReset StuckOnlyByFault
PROPERTIES OvertakenNeverWrites
