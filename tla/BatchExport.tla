----------------------------- MODULE BatchExport ------------------------------
(***************************************************************************)
(* A batch run (pipeline_lib/batch_export.py in the batch cell of          *)
(* run_index_pipeline.py) with its run record: task attempts that fail,    *)
(* are killed and are retried, a write that sends a part, a log that is    *)
(* off or may not answer.                                                  *)
(***************************************************************************)
EXTENDS Naturals

CONSTANT MaxTries   \* bound: task attempts
ASSUME MaxTriesAssumption == MaxTries \in Nat

VARIABLES try,       \* the task attempt (task_run_id)
          step,
          returned,  \* the write returned: its counts, "exact" or "short"; else "nothing"
          logged,    \* the monitoring rows
          logOn,
          sentIn     \* history: attempt -> the part of the view's rows it sent

batchVars == <<try, step, returned, logged, logOn, sentIn>>

Tries == 1..MaxTries
LogRow(type, t, status) == [type |-> type, try |-> t, status |-> status]

BatchInit ==
    /\ try = 0 /\ step = "idle" /\ returned = "nothing" /\ logged = {} /\ logOn \in BOOLEAN
    /\ sentIn = [t \in Tries |-> "nothing"]

(* MonitoringLog.append: a no-op when off; else it raises on any failure,  *)
(* one whose row was committed included.                                   *)
Appends(row) == logged' = IF logOn THEN logged \cup {row} ELSE logged
AppendFails(row) == logOn /\ logged' \in {logged, logged \cup {row}}
Then(s) == step' = s

NextTry ==
    /\ step \in {"idle", "failed", "killed"} /\ try < MaxTries
    /\ try' = try + 1 /\ Then("start") /\ returned' = "nothing"
    /\ UNCHANGED <<logged, logOn, sentIn>>
(* RECORDER.start, which no guard covers yet.                              *)
StartRun ==
    /\ step = "start"
    /\ LET row == LogRow("run_start", try, "started") IN
       (Appends(row) /\ Then("prepare")) \/ (AppendFails(row) /\ Then("failed"))
    /\ UNCHANGED <<try, returned, logOn, sentIn>>
PrepareBatch ==
    /\ step = "prepare" /\ (Then("announce") \/ Then("guard"))
    /\ UNCHANGED <<try, returned, logged, logOn, sentIn>>
MutAnnounce ==
    /\ step = "announce"
    /\ LET row == LogRow("batch_start", try, "started") IN
       Then("write") /\ (Appends(row) \/ AppendFails(row))
    /\ UNCHANGED <<try, returned, logOn, sentIn>>
Announce ==
    /\ step = "announce"
    /\ LET row == LogRow("batch_start", try, "started") IN
       (Appends(row) /\ Then("write")) \/ (AppendFails(row) /\ Then("guard"))
    /\ UNCHANGED <<try, returned, logOn, sentIn>>

(* bulk_write sends some of the rows, then returns counts or raises.       *)
SendSome ==
    /\ step = "write" /\ sentIn' = [sentIn EXCEPT ![try] = "part"]
    /\ UNCHANGED <<try, step, returned, logged, logOn>>
WriteReturns ==
    /\ step = "write" /\ Then("reconcile")
    /\ \/ returned' = "exact" /\ sentIn' = [sentIn EXCEPT ![try] = "all"]
       \/ returned' = "short" /\ sentIn' = [sentIn EXCEPT ![try] = "part"]
    /\ UNCHANGED <<try, logged, logOn>>
WriteRaises ==
    /\ step = "write" /\ Then("error") /\ UNCHANGED <<try, returned, logged, logOn, sentIn>>
Reconcile ==
    /\ step = "reconcile" /\ Then(IF returned = "exact" THEN "success" ELSE "error")
    /\ UNCHANGED <<try, returned, logged, logOn, sentIn>>
(* append_failure never masks the error, which goes on to the guard.       *)
BatchError ==
    /\ step = "error" /\ Then("guard")
    /\ LET row == LogRow("batch_end", try, "error") IN Appends(row) \/ AppendFails(row)
    /\ UNCHANGED <<try, returned, logOn, sentIn>>
BatchSuccess ==
    /\ step = "success"
    /\ LET row == LogRow("batch_end", try, "success") IN
       (Appends(row) /\ Then("end")) \/ (AppendFails(row) /\ Then("guard"))
    /\ UNCHANGED <<try, returned, logOn, sentIn>>
EndRun ==
    /\ step = "end"
    /\ LET row == LogRow("run_end", try, "success") IN
       (Appends(row) /\ Then("done")) \/ (AppendFails(row) /\ Then("guard"))
    /\ UNCHANGED <<try, returned, logOn, sentIn>>
GuardRun ==
    /\ step = "guard" /\ Then("failed")
    /\ LET row == LogRow("run_end", try, "error") IN Appends(row) \/ AppendFails(row)
    /\ UNCHANGED <<try, returned, logOn, sentIn>>
KillRun ==
    /\ step \notin {"idle", "done", "failed", "killed"} /\ Then("killed")
    /\ UNCHANGED <<try, returned, logged, logOn, sentIn>>

BatchNext ==
    \/ NextTry \/ StartRun \/ PrepareBatch \/ Announce \/ SendSome \/ WriteReturns \/ WriteRaises
    \/ Reconcile \/ BatchError \/ BatchSuccess \/ EndRun \/ GuardRun \/ KillRun

-----------------------------------------------------------------------------
(* With the log on, nothing is sent that no batch_start announces, and a   *)
(* success row is never there for an attempt that did not send everything; *)
(* a run that failed its reconciliation, or was killed in the write, never *)
(* looks complete; a green run sent all rows and has both its end rows.    *)
HasRow(t, type, status) == \E row \in logged : row.type = type /\ row.try = t /\ row.status = status
BatchLogIsTrue ==
    /\ \A t \in Tries :
         /\ logOn /\ sentIn[t] # "nothing" => HasRow(t, "run_start", "started") /\ HasRow(t, "batch_start", "started")
         /\ HasRow(t, "run_end", "success") => HasRow(t, "batch_end", "success")
         /\ HasRow(t, "batch_end", "success") => sentIn[t] = "all" /\ ~HasRow(t, "batch_end", "error")
    /\ step = "done" => /\ sentIn[try] = "all"
                        /\ logOn => HasRow(try, "run_end", "success") /\ ~HasRow(try, "run_end", "error")
=============================================================================
