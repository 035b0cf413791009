----------------------------- MODULE StreamExport ------------------------------
(***************************************************************************)
(* One stream's export with the monitoring log on: the notebook process    *)
(* (run_index_pipeline.py, streaming cells), the query it starts, whose    *)
(* foreachBatch (stream_batch.py) runs next to it, the progress recorder   *)
(* between its wait slices (stream_progress.py) and the run's own rows     *)
(* (run_record.py), over task attempts that fail, are retried, or are      *)
(* killed at any step.                                                     *)
(*                                                                         *)
(* The backlog is Batches micro-batches, 1 .. NumBatches, in source order  *)
(* (Spark counts from 0).  Where a stream starts is StreamStart's subject, *)
(* how the wait loop reads an end AwaitStream's: here a wait slice sees    *)
(* that the query has ended or not, and may give up on a query it cannot   *)
(* read.                                                                   *)
(***************************************************************************)
EXTENDS Naturals

CONSTANTS
  NumBatches,   \* the backlog
  MaxAttempts,  \* bound: task attempts
  MaxFaults,    \* bound: failed calls and kills
  Polls,        \* catch_up's attempts
  PruneEvery,   \* PRUNE_EVERY_RECORDED_BATCHES
  Continuous,   \* always-on query (ProcessingTime), not availableNow
  AckLoss,      \* an append may commit and still raise
  RelayFails,   \* a relay's read or delete may fail
  ReportsLost   \* Spark may lose a progress report

ASSUME ExportAssumption ==
  /\ NumBatches \in Nat \ {0}
  /\ MaxAttempts \in Nat \ {0}
  /\ MaxFaults \in Nat
  /\ Polls \in Nat
  /\ PruneEvery \in Nat \ {0}
  /\ {Continuous, AckLoss, RelayFails, ReportsLost} \subseteq BOOLEAN

Batches == 1..NumBatches
Attempts == 1..MaxAttempts

VARIABLES
  attempt,    \* the current task attempt (task_run_id)
  nb,         \* the notebook
  caller,     \* who called the recorder: "wait", "final" or "catchup"
  ended,      \* this wait slice saw the query end
  todo,       \* the recorder's reports still to append
  last,       \* last_batch_id; 0: None
  since,      \* _recorded_since_prune
  tries,      \* catch_up polls left
  total,      \* the batches the drain summary read
  q,          \* the query
  pending,    \* committed batches whose report is not published yet
  reports,    \* recentProgress
  planned,    \* checkpoint: batches whose offset is written
  committed,  \* checkpoint: batches committed
  metrics,    \* _run_metrics: batches with a file
  relay,      \* _source_version_relay: the attempt whose read is there; 0: none
  kept,       \* relays behind the recorder's mark whose delete failed
  sent,       \* batches all of whose rows are in Elasticsearch
  log,        \* the monitoring table
  repeated,   \* the kinds of row it got twice for one attempt (and batch)
  faults,
  \* history
  sentBy,     \* <<attempt, batch>>: the attempt sent some of the batch
  finished,   \* <<attempt, batch>>: its write and its metrics file are done
  doneBy,     \* the attempt that committed the batch; 0: none
  killed      \* attempts whose process, or whose query, was killed

notebook == <<attempt, nb, caller, ended, todo, last, since, tries, total>>
checkpoint == <<planned, committed, doneBy>>
spark == <<pending, reports>>
dirs == <<metrics, relay, kept>>
table == <<log, repeated>>
es == <<sent, sentBy, finished>>
vars == <<attempt, nb, caller, ended, todo, last, since, tries, total, q, pending, reports,
          planned, committed, metrics, relay, kept, sent, log, repeated, faults, sentBy,
          finished, doneBy, killed>>

(* The query's batch runs, in foreachBatch. *)
InBatch == {"transform", "announce", "write", "sending", "metrics", "error", "batchEnd",
            "relay", "commit"}
Live == InBatch \union {"between"}

Row(type, a, b, status, src, batches) ==
  [type |-> type, attempt |-> a, batch |-> b, status |-> status, source |-> src,
   batches |-> batches]

RunStartRow(a) == Row("run_start", a, 0, "started", 0, {})
RunEndRow(a, status, batches) == Row("run_end", a, 0, status, 0, batches)
BatchStartRow(a, b) == Row("batch_start", a, b, "started", a, {})
BatchEndRow(a, b, status) == Row("batch_end", a, b, status, 0, {})
SummaryRow(a, b, src) == Row("batch_summary", a, b, "success", src, {})

Kinds == {"run_start", "run_end", "batch_start", "batch_end", "batch_summary"}

Rows ==
  [type : Kinds,
   attempt : Attempts, batch : 0..NumBatches,
   status : {"started", "success", "error", "stopped"},
   source : 0..MaxAttempts, batches : SUBSET Batches]

TypeOK ==
  /\ attempt \in 0..MaxAttempts
  /\ nb \in {"idle", "start", "setup", "launch", "wait", "record", "final", "summary",
             "catchup", "end", "guard"}
  /\ caller \in {"wait", "final", "catchup"}
  /\ ended \in BOOLEAN
  /\ todo \subseteq Batches
  /\ last \in 0..NumBatches
  /\ since \in 0..PruneEvery
  /\ tries \in 0..Polls
  /\ total \subseteq Batches
  /\ q \in Live \union {"off", "ended", "failed"}
  /\ pending \subseteq Batches
  /\ reports \subseteq Batches
  /\ planned \in 0..NumBatches
  /\ committed \in 0..NumBatches
  /\ metrics \subseteq Batches
  /\ relay \in [Batches -> 0..MaxAttempts]
  /\ kept \subseteq Batches
  /\ sent \subseteq Batches
  /\ log \subseteq Rows
  /\ repeated \subseteq Kinds
  /\ faults \in 0..MaxFaults
  /\ sentBy \subseteq Attempts \X Batches
  /\ finished \subseteq Attempts \X Batches
  /\ doneBy \in [Batches -> 0..MaxAttempts]
  /\ killed \subseteq Attempts

Init ==
  /\ attempt = 0 /\ nb = "idle" /\ caller = "wait" /\ ended = FALSE
  /\ todo = {} /\ last = 0 /\ since = 0 /\ tries = 0 /\ total = {}
  /\ q = "off" /\ pending = {} /\ reports = {}
  /\ planned = 0 /\ committed = 0
  /\ metrics = {}
  /\ relay = [b \in Batches |-> 0] /\ kept = {}
  /\ sent = {}
  /\ log = {} /\ repeated = {}
  /\ faults = 0
  /\ sentBy = {} /\ finished = {} /\ killed = {}
  /\ doneBy = [b \in Batches |-> 0]

-----------------------------------------------------------------------------
(* A call that may fail does, while the fault budget lasts. *)
Fails == faults < MaxFaults /\ faults' = faults + 1
Works == UNCHANGED faults

Persist(row) ==
  /\ log' = log \union {row}
  /\ repeated' = IF \E r \in log : /\ r.type = row.type /\ r.attempt = row.attempt
                                   /\ r.batch = row.batch
                   THEN repeated \union {row.type} ELSE repeated

(* MonitoringLog.append returned: the row is in the table. *)
Appended(row) == Works /\ Persist(row)

(* It raised: the row is not there, or the write was committed and only its *)
(* acknowledgement was lost.                                                *)
AppendRaised(row) == Fails /\ (UNCHANGED table \/ (AckLoss /\ Persist(row)))

(* append_failure: written or not, the caller goes on to raise. *)
AppendFailure(row) == Appended(row) \/ AppendRaised(row)

(* The process is gone, and a query still live with it. *)
Exit ==
  /\ nb' = "idle"
  /\ q' = "off"
  /\ killed' = IF q \in Live THEN killed \union {attempt} ELSE killed

-----------------------------------------------------------------------------
(* Mutants: bugs this code could have, for the properties to find.          *)

(* Run start forgets to clear a directory left by an earlier attempt. *)
MutSetupKeeps(keptMetrics, keptRelay) ==
  /\ nb = "setup"
  /\ Works
  /\ nb' = "launch"
  /\ metrics' = keptMetrics /\ relay' = keptRelay /\ kept' = {}
  /\ UNCHANGED <<attempt, caller, ended, todo, last, since, tries, total, q, spark,
                 checkpoint, es, table, killed>>

MutSetupKeepsMetrics == MutSetupKeeps(metrics, [b \in Batches |-> 0])
MutSetupKeepsRelay == MutSetupKeeps({}, relay)

(* Clearing a directory that is not there raises. *)
MutSetupNeedsDirs ==
  /\ nb = "setup"
  /\ nb' = IF metrics = {} THEN "guard" ELSE "launch"
  /\ metrics' = {} /\ relay' = [b \in Batches |-> 0] /\ kept' = {}
  /\ UNCHANGED <<attempt, caller, ended, todo, last, since, tries, total, q, spark,
                 checkpoint, es, table, faults, killed>>

(* The recorder prunes on its first batch only, takes reports newest first, *)
(* or does not advance its mark.                                            *)
MutPrunes(b) == last = 0
MutIsNext(b) == \A c \in todo : c <= b
MutRecordReport ==
  /\ nb = "record"
  /\ \E b \in todo :
       Appended(SummaryRow(attempt, b, 0)) /\ todo' = todo \ {b}
  /\ UNCHANGED <<attempt, nb, caller, ended, last, since, tries, total, q, spark,
                 checkpoint, dirs, es, killed>>

(* catch_up waits for its report however long it takes. *)
MutCatchUp ==
  /\ nb = "catchup"
  /\ IF \A b \in total : b <= last
       THEN nb' = "end" /\ UNCHANGED <<todo, caller>>
       ELSE /\ todo' = {b \in reports : b > last}
            /\ caller' = "catchup" /\ nb' = "record"
  /\ UNCHANGED <<attempt, ended, last, since, tries, total, q, spark, checkpoint, dirs, es,
                 table, faults, killed>>

(* A failed batch_start append is swallowed. *)
MutAnnounce ==
  /\ q = "announce"
  /\ AppendFailure(BatchStartRow(attempt, planned))
  /\ q' = "write"
  /\ UNCHANGED <<notebook, killed, spark, checkpoint, dirs, es>>

(* bulk_write without raise_on_error. *)
MutWrite ==
  /\ q = "sending"
  /\ Works
  /\ q' = "metrics"
  /\ UNCHANGED <<notebook, killed, spark, checkpoint, dirs, es, table>>

(* A failed batch_end append is swallowed. *)
MutBatchEnd ==
  /\ q = "batchEnd"
  /\ AppendFailure(BatchEndRow(attempt, planned, "success"))
  /\ q' = "relay"
  /\ UNCHANGED <<notebook, killed, spark, checkpoint, dirs, es>>

-----------------------------------------------------------------------------
(* The notebook. *)

(* The task starts: a tick, or its retry policy. *)
StartAttempt ==
  /\ nb = "idle"
  /\ attempt < MaxAttempts
  /\ attempt' = attempt + 1
  /\ nb' = "start"
  /\ todo' = {} /\ last' = 0 /\ since' = 0 /\ total' = {}
  /\ pending' = {} /\ reports' = {}
  /\ UNCHANGED <<caller, ended, tries, q, checkpoint, dirs, es, table, faults, killed>>

(* RECORDER.start, outside any guard. *)
RunStart ==
  /\ nb = "start"
  /\ \/ Appended(RunStartRow(attempt)) /\ nb' = "setup" /\ UNCHANGED <<q, killed>>
     \/ AppendRaised(RunStartRow(attempt)) /\ Exit
  /\ UNCHANGED <<attempt, caller, ended, todo, last, since, tries, total, spark, checkpoint, dirs,
                 es>>

(* The run's directories are cleared, the metrics first. *)
Setup ==
  /\ nb = "setup"
  /\ \/ /\ Works /\ nb' = "launch"
        /\ metrics' = {} /\ relay' = [b \in Batches |-> 0] /\ kept' = {}
     \/ Fails /\ nb' = "guard" /\ metrics' \in {metrics, {}} /\ UNCHANGED <<relay, kept>>
  /\ UNCHANGED <<attempt, caller, ended, todo, last, since, tries, total, q, spark, checkpoint, es,
                 table, killed>>

Launch ==
  /\ nb = "launch"
  /\ \/ Works /\ nb' = "wait" /\ q' = "between"
     \/ Fails /\ nb' = "guard" /\ UNCHANGED q
  /\ UNCHANGED <<attempt, caller, ended, todo, last, since, tries, total, spark, checkpoint, dirs,
                 es, table, killed>>

(* query.recentProgress: executed batches above the mark; a failed read     *)
(* records nothing this time.                                               *)
ReadProgress(who) ==
  /\ todo' \in {{}, {b \in reports : b > last}}
  /\ caller' = who
  /\ nb' = "record"

WaitSlice ==
  /\ nb = "wait"
  /\ ended' \in {FALSE} \union (IF q \in {"ended", "failed"} THEN {TRUE} ELSE {})
  /\ ReadProgress("wait")
  /\ UNCHANGED <<attempt, last, since, tries, total, q, spark, checkpoint, dirs, es, table, faults,
                 killed>>

(* MAX_ISACTIVE_ERRORS polls in a row, or an end it cannot confirm.         *)
GiveUp ==
  /\ nb = "wait"
  /\ Fails
  /\ nb' = "guard"
  /\ UNCHANGED <<attempt, caller, ended, todo, last, since, tries, total, q, spark, checkpoint,
                 dirs, es, table, killed>>

(* The first recorded batch, one after a gap, and now and then another      *)
(* deletes every relay below it; the batch's own relay is read and deleted. *)
Prunes(b) == last = 0 \/ b > last + 1 \/ since + 1 > PruneEvery

Gone(b) == {b} \union (IF Prunes(b) THEN 1..(b - 1) ELSE {})

(* Every delete is best-effort, one by one. *)
DeleteRelays(b) ==
  \E failed \in IF RelayFails THEN SUBSET Gone(b) ELSE {{}} :
    /\ relay' = [c \in Batches |-> IF c \in Gone(b) \ failed THEN 0 ELSE relay[c]]
    /\ kept' = (kept \ Gone(b)) \union failed

(* Reports are taken in batch order. *)
IsNext(b) == \A c \in todo : b <= c

(* One report's batch_summary.  A failed append raises: the wait loop stops *)
(* a query it saw running (that may fail too) and the task fails.           *)
RecordReport ==
  /\ nb = "record"
  /\ \E b \in todo :
       /\ IsNext(b)
       /\ DeleteRelays(b)
       /\ since' = IF Prunes(b) THEN 1 ELSE since + 1
       /\ \E src \in {relay[b]} \union (IF RelayFails THEN {0} ELSE {}) :
            \/ /\ Appended(SummaryRow(attempt, b, src))
               /\ todo' = todo \ {b}
               /\ last' = b
               /\ UNCHANGED <<nb, q, killed>>
            \/ /\ AppendRaised(SummaryRow(attempt, b, src))
               /\ nb' = "guard"
               /\ \/ /\ caller = "wait" /\ ~ ended
                     /\ q' = "off"
                     /\ killed' = IF q \in Live THEN killed \union {attempt} ELSE killed
                  \/ UNCHANGED <<q, killed>>
               /\ UNCHANGED <<todo, last>>
  /\ UNCHANGED <<attempt, caller, ended, tries, total, spark, checkpoint, metrics, es>>

(* The recorder returns to its caller; await_stream raises a failed query's *)
(* error and returns on a clean end.                                        *)
Recorded ==
  /\ nb = "record"
  /\ todo = {}
  /\ \/ caller = "wait" /\ ~ended /\ nb' = "wait"
     \/ caller = "wait" /\ ended /\ q = "failed" /\ nb' = "guard"
     \/ caller = "wait" /\ ended /\ q = "ended"
           /\ nb' = IF Continuous THEN "final" ELSE "summary"
     \/ caller = "final" /\ nb' = "end"
     \/ caller = "catchup" /\ nb' = "catchup"
  /\ UNCHANGED <<attempt, caller, ended, todo, last, since, tries, total, q, spark, checkpoint,
                 dirs, es, table, faults, killed>>

(* An always-on query that stopped: record once more. *)
FinalRecord ==
  /\ nb = "final"
  /\ ReadProgress("final")
  /\ UNCHANGED <<attempt, ended, last, since, tries, total, q, spark, checkpoint, dirs, es, table,
                 faults, killed>>

(* The drain summary reads the metrics; a failed listing or read raises.    *)
DrainSummary ==
  /\ nb = "summary"
  /\ \/ Works /\ total' = metrics /\ tries' = Polls
        /\ nb' = IF metrics = {} THEN "end" ELSE "catchup"
     \/ Fails /\ nb' = "guard" /\ UNCHANGED <<total, tries>>
  /\ UNCHANGED <<attempt, caller, ended, todo, last, since, q, spark, checkpoint, dirs, es, table,
                 killed>>

(* PROGRESS.catch_up(query, the last batch). *)
CatchUp ==
  /\ nb = "catchup"
  /\ IF (\A b \in total : b <= last) \/ tries = 0
       THEN nb' = "end" /\ UNCHANGED <<todo, caller, tries>>
       ELSE ReadProgress("catchup") /\ tries' = tries - 1
  /\ UNCHANGED <<attempt, ended, last, since, total, q, spark, checkpoint, dirs, es, table, faults,
                 killed>>

EndRow == RunEndRow(attempt, IF Continuous THEN "stopped" ELSE "success", total)

RunEnd ==
  /\ nb = "end"
  /\ \/ Appended(EndRow) /\ Exit
     \/ AppendRaised(EndRow) /\ nb' = "guard" /\ UNCHANGED <<q, killed>>
  /\ UNCHANGED <<attempt, caller, ended, todo, last, since, tries, total, spark, checkpoint, dirs,
                 es>>

(* RECORDER.guard, once: run_end error, then the task fails. *)
Guard ==
  /\ nb = "guard"
  /\ AppendFailure(RunEndRow(attempt, "error", {}))
  /\ Exit
  /\ UNCHANGED <<attempt, caller, ended, todo, last, since, tries, total, spark, checkpoint, dirs,
                 es>>

(* The driver is killed, or the run cancelled, at any point. *)
Kill ==
  /\ nb # "idle"
  /\ Fails
  /\ nb' = "idle"
  /\ q' = "off"
  /\ killed' = killed \union {attempt}
  /\ UNCHANGED <<attempt, caller, ended, todo, last, since, tries, total, spark, checkpoint, dirs,
                 es, table>>

-----------------------------------------------------------------------------
(* The query. *)
QueryStep == UNCHANGED <<notebook, killed>>

(* Spark plans the next batch, or takes up the one that was planned.        *)
NextBatch ==
  /\ q = "between"
  /\ committed < NumBatches
  /\ planned' = committed + 1
  /\ q' = "transform"
  /\ QueryStep /\ UNCHANGED <<spark, committed, doneBy, dirs, es, table, faults>>

(* availableNow has drained; an always-on query is stopped from outside.    *)
QueryEnds ==
  /\ q = "between"
  /\ Continuous \/ committed = NumBatches
  /\ q' = "ended"
  /\ QueryStep /\ UNCHANGED <<spark, checkpoint, dirs, es, table, faults>>

(* Spark itself fails: planning, or the commit. *)
QueryFails ==
  /\ q \in {"between", "commit"}
  /\ Fails
  /\ q' = "failed"
  /\ QueryStep /\ UNCHANGED <<spark, checkpoint, dirs, es, table>>

(* The newest source version (fail-soft) and the view's SELECT.             *)
Transform ==
  /\ q = "transform"
  /\ \/ Works /\ q' = "announce"
     \/ Fails /\ q' = "failed"
  /\ QueryStep /\ UNCHANGED <<spark, checkpoint, dirs, es, table>>

Announce ==
  /\ q = "announce"
  /\ \/ Appended(BatchStartRow(attempt, planned)) /\ q' = "write"
     \/ AppendRaised(BatchStartRow(attempt, planned)) /\ q' = "failed"
  /\ QueryStep /\ UNCHANGED <<spark, checkpoint, dirs, es>>

(* bulk_write sends: some rows are in, or all, and it has not returned.     *)
Send ==
  /\ q = "write"
  /\ q' = "sending"
  /\ sentBy' = sentBy \union {<<attempt, planned>>}
  /\ sent' \in {sent, sent \union {planned}}
  /\ QueryStep /\ UNCHANGED <<spark, checkpoint, dirs, finished, table, faults>>

(* With raise_on_error it returns only when every row is in.                *)
Write ==
  /\ q = "sending"
  /\ \/ Works /\ q' = "metrics" /\ sent' = sent \union {planned}
     \/ Fails /\ q' = "error" /\ UNCHANGED sent
  /\ QueryStep /\ UNCHANGED <<spark, checkpoint, dirs, sentBy, finished, table>>

WriteMetrics ==
  /\ q = "metrics"
  /\ \/ /\ Works /\ q' = "batchEnd" /\ metrics' = metrics \union {planned}
        /\ finished' = finished \union {<<attempt, planned>>}
     \/ /\ Fails /\ q' = "error" /\ metrics' \in {metrics, metrics \union {planned}}
        /\ UNCHANGED finished
  /\ QueryStep /\ UNCHANGED <<spark, checkpoint, relay, kept, sent, sentBy, table>>

BatchError ==
  /\ q = "error"
  /\ AppendFailure(BatchEndRow(attempt, planned, "error"))
  /\ q' = "failed"
  /\ QueryStep /\ UNCHANGED <<spark, checkpoint, dirs, es>>

BatchEnd ==
  /\ q = "batchEnd"
  /\ \/ Appended(BatchEndRow(attempt, planned, "success")) /\ q' = "relay"
     \/ AppendRaised(BatchEndRow(attempt, planned, "success")) /\ q' = "failed"
  /\ QueryStep /\ UNCHANGED <<spark, checkpoint, dirs, es>>

(* write_source_relay, best-effort. *)
WriteRelay ==
  /\ q = "relay"
  /\ relay' \in {[relay EXCEPT ![planned] = attempt]}
                  \union (IF RelayFails THEN {relay} ELSE {})
  /\ q' = "commit"
  /\ QueryStep /\ UNCHANGED <<spark, checkpoint, metrics, kept, es, table, faults>>

Commit ==
  /\ q = "commit"
  /\ committed' = planned
  /\ doneBy' = [doneBy EXCEPT ![planned] = attempt]
  /\ pending' = pending \union {planned}
  /\ q' = "between"
  /\ QueryStep /\ UNCHANGED <<reports, planned, dirs, es, table, faults>>

(* Progress reports are published in batch order, some time after.          *)
Publish ==
  /\ \E b \in pending :
       /\ \A c \in pending : b <= c
       /\ pending' = pending \ {b}
       /\ reports' = reports \union {b}
  /\ QueryStep /\ UNCHANGED <<q, checkpoint, dirs, es, table, faults>>

(* A report never comes, or is pushed out of the buffer. *)
LoseReport ==
  /\ ReportsLost
  /\ \E b \in pending \union reports :
       pending' = pending \ {b} /\ reports' = reports \ {b}
  /\ QueryStep /\ UNCHANGED <<q, checkpoint, dirs, es, table, faults>>

-----------------------------------------------------------------------------
(* The bounded history is over. *)
NoMoreAttempts == nb = "idle" /\ attempt = MaxAttempts /\ UNCHANGED vars

Notebook ==
  \/ StartAttempt \/ RunStart \/ Setup \/ Launch \/ WaitSlice \/ GiveUp \/ RecordReport
  \/ Recorded \/ FinalRecord \/ DrainSummary \/ CatchUp \/ RunEnd \/ Guard

Query ==
  \/ NextBatch \/ QueryEnds \/ QueryFails \/ Transform \/ Announce \/ Send \/ Write
  \/ WriteMetrics
  \/ BatchError \/ BatchEnd \/ WriteRelay \/ Commit

Next == Notebook \/ Query \/ Kill \/ Publish \/ LoseReport \/ NoMoreAttempts

Spec == Init /\ [][Next]_vars

(* The schedule and the retry policy keep starting the task, neither        *)
(* process stops by itself, and the wait loop sees the end of a query that  *)
(* has ended (AwaitStream's FailureEndsTheWait and CleanEndEndsTheWait).    *)
FairSpec ==
  /\ Spec
  /\ WF_vars(Notebook) /\ WF_vars(Query)
  /\ SF_vars(WaitSlice /\ ended')

-----------------------------------------------------------------------------
(* The inductive invariant of the batch's bookkeeping. *)

Done(a) == {b \in Batches : doneBy[b] = a}

(* The query's batch is the one after the last committed, of this attempt.  *)
PlanShape ==
  /\ planned \in {committed, committed + 1}
  /\ q \in InBatch => planned = committed + 1
  /\ q # "off" => nb \notin {"idle", "start", "setup", "launch"}
  /\ nb # "idle" => attempt # 0
  /\ \A b \in Batches : doneBy[b] \in 0..attempt /\ (doneBy[b] = 0 <=> b > committed)

(* What the steps behind the query's position have left.                    *)
BatchProgress ==
  /\ q \in InBatch \ {"transform", "announce"} => BatchStartRow(attempt, planned) \in log
  /\ q \in {"batchEnd", "relay", "commit"} => <<attempt, planned>> \in finished
  /\ q \in {"metrics", "batchEnd", "relay", "commit"} => planned \in sent
  /\ q \in {"relay", "commit"} => BatchEndRow(attempt, planned, "success") \in log
  /\ \A p \in finished : p[2] \in sent

(* No row is sent unannounced: an attempt that has sent any of a batch has  *)
(* logged that batch's batch_start (stream_batch.py: a log outage fails the *)
(* micro-batch before the data moves).                                      *)
SendIsAnnounced ==
  \A p \in sentBy : BatchStartRow(p[1], p[2]) \in log

(* batch_end success comes last: it means that every row is in              *)
(* Elasticsearch and that the attempt's metrics file was written.           *)
SuccessMeansDone ==
  \A a \in Attempts, b \in Batches :
    BatchEndRow(a, b, "success") \in log => <<a, b>> \in finished /\ b \in sent

(* The checkpoint moves past a batch only when its success is on record,    *)
(* under the attempt that committed it.                                     *)
CommittedIsLogged ==
  \A b \in Batches :
    b <= committed => BatchEndRow(doneBy[b], b, "success") \in log

(* The bookkeeping of the batch in flight and the three orders it           *)
(* guarantees, inductive together.                                          *)
ExportInv ==
  /\ TypeOK
  /\ PlanShape
  /\ BatchProgress
  /\ SendIsAnnounced
  /\ SuccessMeansDone
  /\ CommittedIsLogged

(* run_end success of a drain reports exactly the batches this attempt      *)
(* committed (replays, leftovers of a killed attempt and retried batches    *)
(* neither add nor hide any), and the backlog is drained.                   *)
TotalsAreExact ==
  \A r \in log : r.type = "run_end" /\ r.status = "success" =>
    r.batches = Done(r.attempt) /\ committed = NumBatches

(* Behind TotalsAreExact: the metrics directory holds what this attempt     *)
(* committed, and the batch about to be committed once its file is there;   *)
(* the summary reads it when the query has ended, and nothing is committed  *)
(* after run_end success.                                                   *)
MetricsShape ==
  /\ nb \in {"start", "setup", "launch"} => Done(attempt) = {}
  /\ nb = "launch" => metrics = {}
  /\ q \in {"between", "transform", "announce", "write", "sending", "metrics", "ended"} =>
       metrics = Done(attempt)
  /\ q \in {"batchEnd", "relay", "commit"} => metrics = Done(attempt) \union {planned}

(* What the notebook knows of the query after the wait: it has ended, the   *)
(* drain is complete, and the total it read is still this attempt's.        *)
EndShape ==
  /\ q = "ended" /\ ~Continuous => committed = NumBatches
  /\ nb \in {"final", "summary", "catchup", "end"} \/ (nb = "record" /\ caller # "wait")
       => q = "ended"
  /\ ~Continuous /\ (nb \in {"catchup", "end"} \/ (nb = "record" /\ caller = "catchup"))
       => total = Done(attempt)
  /\ ~Continuous => caller # "final" /\ nb # "final"
  /\ \A r \in log : r.type = "run_end" /\ r.status = "success" =>
       \/ r.attempt < attempt
       \/ r.attempt = attempt /\ nb \in {"idle", "guard"} /\ q \in {"off", "ended"}

(* All of it together: inductive, and with it the totals of run_end.        *)
DrainInv == ExportInv /\ MetricsShape /\ EndShape /\ TotalsAreExact

(* One row of a kind per attempt (and batch): no retry, replay or second    *)
(* recorder call repeats one.  Only a run_end whose acknowledgement is lost *)
(* is followed by the guard's own.                                          *)
RowsOnce ==
  repeated \subseteq (IF AckLoss THEN {"run_end"} ELSE {})

(* batch_summary speaks of a batch its attempt committed, and carries that  *)
(* attempt's own source read or none: never one an earlier attempt relayed. *)
SummaryIsFresh ==
  \A r \in log : r.type = "batch_summary" =>
    r.source \in {0, r.attempt} /\ doneBy[r.batch] = r.attempt

(* The recorder's mark never passes a report it could still have recorded.  *)
NoReportSkipped ==
  nb # "idle" =>
    \A b \in reports : b <= last =>
      \E r \in log : r.type = "batch_summary" /\ r.attempt = attempt /\ r.batch = b

(* No relay is left behind the recorder's mark but one whose delete failed, *)
(* however many reports are lost.                                           *)
RelaysPruned == \A b \in Batches : b <= last => relay[b] = 0 \/ b \in kept

(* A drain's attempt always ends: neither process waits for the other       *)
(* forever.                                                                 *)
AttemptsEnd == [](nb # "idle" => <>(nb = "idle"))

(* Faults are few and the task is started again: the backlog is exported.   *)
BacklogIsExported == <>(committed = NumBatches)

(* The batches are the feed's versions; it begins with the first offset.    *)
D == INSTANCE Delivery WITH head <- NumBatches, data <- Batches,
       pos <- IF planned = 0 THEN 0 ELSE committed + 1

(* The attempts together implement the abstract at-least-once feed: the     *)
(* checkpoint passes a batch only when all its rows are sent.               *)
ImplementsDelivery == D!Spec

-----------------------------------------------------------------------------
(* What docs/monitoring.md says of a missing batch_end once the run is over. *)

Over(a) == a < attempt \/ (a = attempt /\ nb = "idle")

(* A batch_start without a batch_end "is a batch that never finished (the   *)
(* task was killed or the driver died mid-write)": so a batch that finished,*)
(* in an attempt nobody killed, has its batch_end.                          *)
OpenBatchNeverFinished ==
  \A p \in finished :
    Over(p[1]) /\ p[1] \notin killed =>
      \E r \in log : r.type = "batch_end" /\ r.attempt = p[1] /\ r.batch = p[2]
=============================================================================
