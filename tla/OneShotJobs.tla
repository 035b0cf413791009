----------------------------- MODULE OneShotJobs ------------------------------
(***************************************************************************)
(* The jobs that run once and end: view deployment, checkpoint clear,      *)
(* wheel build, the jobs of the monitoring table, batch export.  No state  *)
(* is common to two of them, so any behaviour of them together shows, to   *)
(* each, a behaviour of it alone: one moves, the others stand still.       *)
(***************************************************************************)
EXTENDS DeployViews, CheckpointClear, BuildWheel, LogTable, BatchExport

VARIABLE focus   \* the job that moves
allVars == <<viewVars, clearVars, wheelVars, logVars, batchVars, focus>>

Init ==
    /\ focus \in {"views", "clear", "wheel", "log", "batch"}
    /\ ViewsInit /\ ClearInit /\ WheelInit /\ LogInit /\ BatchInit
    /\ focus # "views" => \A r \in Deploys : deploy[r] = Fresh(CHOOSE t \in Setups[r] : TRUE)
    /\ focus # "clear" => dir = "absent"
    /\ focus # "wheel" => copying
    /\ focus # "batch" => logOn

Next ==
    \/ focus = "views" /\ ViewsNext /\ UNCHANGED <<clearVars, wheelVars, logVars, batchVars, focus>>
    \/ focus = "clear" /\ ClearNext /\ UNCHANGED <<viewVars, wheelVars, logVars, batchVars, focus>>
    \/ focus = "wheel" /\ WheelNext /\ UNCHANGED <<viewVars, clearVars, logVars, batchVars, focus>>
    \/ focus = "log" /\ LogNext /\ UNCHANGED <<viewVars, clearVars, wheelVars, batchVars, focus>>
    \/ focus = "batch" /\ BatchNext /\ UNCHANGED <<viewVars, clearVars, wheelVars, logVars, focus>>

Spec == Init /\ [][Next]_allVars
=============================================================================
