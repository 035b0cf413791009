--------------------------- MODULE StreamExportProofs --------------------------
(***************************************************************************)
(* Proofs about StreamExport, for any backlog, number of attempts and      *)
(* fault budget: the bookkeeping invariant ExportInv (a batch is announced *)
(* before it is sent, and committed only when its success is on record),   *)
(* the exactness of a drain's totals, what the recorder makes of the       *)
(* progress reports and their relays (RecorderInv), and the refinement of  *)
(* Delivery.                                                               *)
(***************************************************************************)
EXTENDS StreamExport, TLAPS

USE ExportAssumption

-----------------------------------------------------------------------------
(* Rows. *)

(* The rows the notebook and foreachBatch append are rows of the table.     *)
LEMMA RowTypes ==
  ASSUME NEW a \in Attempts
  PROVE  /\ RunStartRow(a) \in Rows
         /\ \A s \in {"success", "stopped", "error"}, t \in SUBSET Batches :
              RunEndRow(a, s, t) \in Rows
         /\ \A b \in Batches : BatchStartRow(a, b) \in Rows
         /\ \A b \in Batches, s \in {"success", "error"} : BatchEndRow(a, b, s) \in Rows
         /\ \A b \in Batches, c \in 0..MaxAttempts : SummaryRow(a, b, c) \in Rows
<1>. USE DEF Rows, Kinds, Row, Attempts, Batches
<1>1. RunStartRow(a) \in Rows
  BY DEF RunStartRow
<1>2. \A s \in {"success", "stopped", "error"}, t \in SUBSET Batches :
        RunEndRow(a, s, t) \in Rows
  BY DEF RunEndRow
<1>3. \A b \in Batches : BatchStartRow(a, b) \in Rows
  BY DEF BatchStartRow
<1>4. \A b \in Batches, s \in {"success", "error"} : BatchEndRow(a, b, s) \in Rows
  BY DEF BatchEndRow
<1>5. \A b \in Batches, c \in 0..MaxAttempts : SummaryRow(a, b, c) \in Rows
  BY DEF SummaryRow
<1>. QED BY <1>1, <1>2, <1>3, <1>4, <1>5

(* A batch_end success row is told from every other row, and from that of   *)
(* another attempt or batch.                                                *)
LEMMA SuccessRowIsUnique ==
  ASSUME NEW a, NEW b
  PROVE  LET success == BatchEndRow(a, b, "success") IN
         /\ \A c : success # RunStartRow(c)
         /\ \A c, s, t : success # RunEndRow(c, s, t)
         /\ \A c, d : success # BatchStartRow(c, d)
         /\ \A c, d : success # BatchEndRow(c, d, "error")
         /\ \A c, d, e : success # SummaryRow(c, d, e)
         /\ \A c, d : success = BatchEndRow(c, d, "success") => c = a /\ d = b
<1>1. \A c, d, s : BatchEndRow(a, b, "success") = BatchEndRow(c, d, s) =>
        c = a /\ d = b /\ s = "success"
  <2>. TAKE c, d, s
  <2>. HAVE BatchEndRow(a, b, "success") = BatchEndRow(c, d, s)
  <2>1. BatchEndRow(a, b, "success").attempt = BatchEndRow(c, d, s).attempt
        /\ BatchEndRow(a, b, "success").batch = BatchEndRow(c, d, s).batch
        /\ BatchEndRow(a, b, "success").status = BatchEndRow(c, d, s).status
    OBVIOUS
  <2>. QED BY <2>1 DEF BatchEndRow, Row
<1>2. BatchEndRow(a, b, "success").type = "batch_end"
  BY DEF BatchEndRow, Row
<1>3. \A c : RunStartRow(c).type = "run_start"
  BY DEF RunStartRow, Row
<1>4. \A c, s, t : RunEndRow(c, s, t).type = "run_end"
  BY DEF RunEndRow, Row
<1>5. \A c, d : BatchStartRow(c, d).type = "batch_start"
  BY DEF BatchStartRow, Row
<1>6. \A c, d, e : SummaryRow(c, d, e).type = "batch_summary"
  BY DEF SummaryRow, Row
<1>. QED BY <1>1, <1>2, <1>3, <1>4, <1>5, <1>6

(* What an append does, returned or raised. *)
LEMMA AppendEffect ==
  ASSUME TypeOK, NEW row \in Rows, AppendFailure(row)
  PROVE  /\ log \subseteq log' /\ log' \subseteq log \union {row}
         /\ log' \subseteq Rows /\ repeated' \subseteq Kinds
         /\ faults' \in 0..MaxFaults
<1>1. row.type \in Kinds
  BY DEF Rows
<1>2. log' = log \/ log' = log \union {row}
  BY DEF AppendFailure, Appended, AppendRaised, Persist, table
<1>3. repeated' = repeated \/ repeated' = repeated \union {row.type}
  BY DEF AppendFailure, Appended, AppendRaised, Persist, table
<1>4. faults' \in 0..MaxFaults
  BY DEF AppendFailure, Appended, AppendRaised, Works, Fails, TypeOK
<1>. QED BY <1>1, <1>2, <1>3, <1>4 DEF TypeOK

(* A failing call spends a fault, and there is one to spend.                *)
LEMMA FaultsStayBounded ==
  ASSUME TypeOK, Works \/ Fails
  PROVE  faults' \in 0..MaxFaults
BY DEF Works, Fails, TypeOK

(* The history conjuncts only ask that rows stay, while nothing new is sent *)
(* or committed.                                                            *)
LEMMA HistoryKept ==
  ASSUME SendIsAnnounced, SuccessMeansDone, CommittedIsLogged,
         UNCHANGED <<committed, doneBy, sent, sentBy, finished>>,
         log \subseteq log',
         \A a \in Attempts, b \in Batches :
           BatchEndRow(a, b, "success") \in log' => BatchEndRow(a, b, "success") \in log
  PROVE  SendIsAnnounced' /\ SuccessMeansDone' /\ CommittedIsLogged'
<1>1. SendIsAnnounced'
  BY DEF SendIsAnnounced, BatchStartRow
<1>2. SuccessMeansDone'
  BY DEF SuccessMeansDone, BatchEndRow
<1>3. CommittedIsLogged'
  BY DEF CommittedIsLogged, BatchEndRow
<1>. QED BY <1>1, <1>2, <1>3

-----------------------------------------------------------------------------
(* The invariant. *)

(* The first attempt finds an empty log and an empty checkpoint.            *)
LEMMA InitExportInv == Init => ExportInv
<1>. SUFFICES ASSUME Init PROVE ExportInv
  OBVIOUS
<1>1. TypeOK
  <2>1. ended \in BOOLEAN /\ todo = {} /\ total = {} /\ pending = {} /\ reports = {}
        /\ metrics = {} /\ kept = {} /\ sent = {} /\ log = {} /\ repeated = {} /\ sentBy = {}
        /\ finished = {} /\ killed = {}
    BY DEF Init
  <2>2. attempt \in 0..MaxAttempts /\ last \in 0..NumBatches /\ since \in 0..PruneEvery
        /\ tries \in 0..Polls /\ planned \in 0..NumBatches /\ committed \in 0..NumBatches
        /\ faults \in 0..MaxFaults
    BY DEF Init
  <2>3. relay \in [Batches -> 0..MaxAttempts] /\ doneBy \in [Batches -> 0..MaxAttempts]
    BY DEF Init
  <2>4. nb = "idle" /\ caller = "wait" /\ q = "off"
    BY DEF Init
  <2>. QED BY <2>1, <2>2, <2>3, <2>4 DEF TypeOK
<1>2. PlanShape /\ BatchProgress
  BY DEF Init, PlanShape, BatchProgress, InBatch, Batches
<1>3. SendIsAnnounced /\ SuccessMeansDone /\ CommittedIsLogged
  BY DEF Init, SendIsAnnounced, SuccessMeansDone, CommittedIsLogged, Batches
<1>. QED BY <1>1, <1>2, <1>3 DEF ExportInv

(* Steps that neither log nor move the query's position inside a batch.     *)
LEMMA QuietStepsKeepExportInv ==
  ASSUME ExportInv,
         StartAttempt \/ Setup \/ Launch \/ WaitSlice \/ GiveUp \/ Recorded \/ FinalRecord
           \/ DrainSummary \/ CatchUp \/ Kill \/ QueryEnds \/ QueryFails \/ Publish
           \/ LoseReport
  PROVE  ExportInv'
<1>. USE DEF ExportInv, notebook, checkpoint, spark, dirs, table, es, QueryStep
<1>a. /\ UNCHANGED <<planned, committed, doneBy, log, repeated, sent, sentBy, finished>>
      /\ \/ q' = q /\ attempt' = attempt
         \/ q' \in {"off", "between", "ended", "failed"}
  BY DEF StartAttempt, Setup, Launch, WaitSlice, GiveUp, Recorded, FinalRecord,
      DrainSummary, CatchUp, Kill, QueryEnds, QueryFails, Publish, LoseReport, PlanShape
<1>1. TypeOK'
  <2>. USE DEF TypeOK
  <2>1. CASE StartAttempt
    BY <2>1 DEF StartAttempt
  <2>2. CASE Setup
    <3>1. faults' \in 0..MaxFaults
      BY <2>2, FaultsStayBounded DEF Setup
    <3>2. /\ relay' \in [Batches -> 0..MaxAttempts] /\ metrics' \subseteq Batches
          /\ kept' \subseteq Batches
      BY <2>2 DEF Setup
    <3>3. nb' \in {"launch", "guard"}
      BY <2>2 DEF Setup
    <3>. QED BY <2>2, <3>1, <3>2, <3>3 DEF Setup
  <2>3. CASE Launch
    BY <2>3, FaultsStayBounded DEF Launch, Live
  <2>4. CASE WaitSlice
    <3>1. ended' \in BOOLEAN
      BY <2>4 DEF WaitSlice
    <3>. QED BY <2>4, <3>1 DEF WaitSlice, ReadProgress
  <2>5. CASE GiveUp
    BY <2>5, FaultsStayBounded DEF GiveUp
  <2>6. CASE Recorded
    BY <2>6 DEF Recorded
  <2>7. CASE FinalRecord
    BY <2>7 DEF FinalRecord, ReadProgress
  <2>8. CASE DrainSummary
    BY <2>8, FaultsStayBounded DEF DrainSummary
  <2>9. CASE CatchUp
    <3>1. tries' \in 0..Polls
      BY <2>9 DEF CatchUp
    <3>. QED BY <2>9, <3>1 DEF CatchUp, ReadProgress
  <2>10. CASE Kill
    <3>1. attempt \in Attempts
      BY <2>10 DEF Kill, PlanShape, Attempts
    <3>. QED BY <2>10, <3>1, FaultsStayBounded DEF Kill
  <2>11. CASE QueryEnds
    BY <2>11 DEF QueryEnds
  <2>12. CASE QueryFails
    BY <2>12, FaultsStayBounded DEF QueryFails
  <2>13. CASE Publish
    BY <2>13 DEF Publish
  <2>14. CASE LoseReport
    BY <2>14 DEF LoseReport
  <2>. QED BY <2>1, <2>2, <2>3, <2>4, <2>5, <2>6, <2>7, <2>8, <2>9, <2>10, <2>11, <2>12,
        <2>13, <2>14
<1>2. PlanShape'
  <2>0. attempt' = attempt \/ attempt' = attempt + 1
    BY DEF StartAttempt, Setup, Launch, WaitSlice, GiveUp, Recorded,
        FinalRecord, DrainSummary, CatchUp, Kill, QueryEnds, QueryFails, Publish, LoseReport
  <2>1. attempt' >= attempt /\ attempt' \in Nat /\ attempt \in Nat
    BY <2>0 DEF TypeOK
  <2>2. \A b \in Batches : doneBy'[b] \in 0..attempt' /\ (doneBy'[b] = 0 <=> b > committed')
    BY <1>a, <2>1 DEF PlanShape
  <2>3. q' \in InBatch => q' = q
    BY <1>a DEF InBatch
  <2>4. /\ q' # "off" => nb' \notin {"idle", "start", "setup", "launch"}
        /\ nb' # "idle" => attempt' # 0
    <3>1. CASE StartAttempt \/ Setup \/ Launch \/ Kill
      BY <2>1, <3>1 DEF PlanShape, TypeOK, StartAttempt, Setup, Launch, Kill
    <3>2. CASE WaitSlice \/ GiveUp \/ Recorded \/ FinalRecord \/ DrainSummary \/ CatchUp
      BY <3>2 DEF PlanShape, WaitSlice, GiveUp, Recorded, FinalRecord, ReadProgress,
          DrainSummary, CatchUp
    <3>3. CASE QueryEnds \/ QueryFails \/ Publish \/ LoseReport
      BY <3>3 DEF PlanShape, QueryEnds, QueryFails, Publish, LoseReport
    <3>. QED BY <3>1, <3>2, <3>3
  <2>. QED BY <1>a, <2>2, <2>3, <2>4 DEF PlanShape
<1>3. BatchProgress'
  BY <1>a DEF BatchProgress, InBatch, BatchStartRow, BatchEndRow
<1>4. SendIsAnnounced' /\ SuccessMeansDone' /\ CommittedIsLogged'
  BY <1>a, HistoryKept
<1>. QED BY <1>1, <1>2, <1>3, <1>4

(* The notebook's own rows and the recorder's.                              *)
LEMMA NotebookRowsKeepExportInv ==
  ASSUME ExportInv, RunStart \/ RecordReport \/ RunEnd \/ Guard
  PROVE  ExportInv'
<1>. USE DEF ExportInv, notebook, checkpoint, spark, dirs, table, es
<1>a. attempt \in Attempts
  BY DEF RunStart, RecordReport, RunEnd, Guard, PlanShape, TypeOK, Attempts
<1>b. /\ UNCHANGED <<attempt, caller, ended, tries, total, pending, reports, planned,
                     committed, doneBy, metrics, sent, sentBy, finished>>
      /\ q' \in {q, "off"}
      /\ killed' \subseteq killed \union {attempt}
      /\ nb' = nb \/ nb' \in {"setup", "guard"} \/ (nb' = "idle" /\ q' = "off")
      /\ nb' = "setup" => nb = "start" /\ q' = q
      /\ nb # "idle"
  BY DEF RunStart, RecordReport, RunEnd, Guard, Exit
<1>c. PICK row \in Rows :
        /\ AppendFailure(row)
        /\ \A a, b : row # BatchEndRow(a, b, "success")
  <2>1. CASE RunStart
    <3>1. AppendFailure(RunStartRow(attempt))
      BY <2>1 DEF RunStart, AppendFailure
    <3>2. \A a, b : RunStartRow(attempt) # BatchEndRow(a, b, "success")
      BY SuccessRowIsUnique
    <3>. QED BY <1>a, <3>1, <3>2, RowTypes
  <2>2. CASE RunEnd
    <3>1. AppendFailure(EndRow)
      BY <2>2 DEF RunEnd, AppendFailure
    <3>2. EndRow \in Rows
      BY <1>a, RowTypes DEF EndRow, TypeOK
    <3>3. \A a, b : EndRow # BatchEndRow(a, b, "success")
      BY SuccessRowIsUnique DEF EndRow
    <3>. QED BY <3>1, <3>2, <3>3
  <2>3. CASE Guard
    <3>1. AppendFailure(RunEndRow(attempt, "error", {}))
      BY <2>3 DEF Guard
    <3>2. RunEndRow(attempt, "error", {}) \in Rows
      BY <1>a, RowTypes
    <3>3. \A a, b : RunEndRow(attempt, "error", {}) # BatchEndRow(a, b, "success")
      BY SuccessRowIsUnique
    <3>. QED BY <3>1, <3>2, <3>3
  <2>4. CASE RecordReport
    <3>0. PICK b \in todo :
            \E src \in {relay[b]} \union (IF RelayFails THEN {0} ELSE {}) :
              AppendFailure(SummaryRow(attempt, b, src))
      BY <2>4 DEF RecordReport, AppendFailure
    <3>1. PICK src \in {relay[b]} \union (IF RelayFails THEN {0} ELSE {}) :
            AppendFailure(SummaryRow(attempt, b, src))
      BY <3>0
    <3>2. b \in Batches /\ src \in 0..MaxAttempts
      BY DEF TypeOK
    <3>3. SummaryRow(attempt, b, src) \in Rows
      BY <1>a, <3>2, RowTypes
    <3>4. \A a, c : SummaryRow(attempt, b, src) # BatchEndRow(a, c, "success")
      BY SuccessRowIsUnique
    <3>. QED BY <3>1, <3>3, <3>4
  <2>. QED BY <2>1, <2>2, <2>3, <2>4
<1>d. /\ log \subseteq log' /\ log' \subseteq log \union {row}
      /\ log' \subseteq Rows /\ repeated' \subseteq Kinds /\ faults' \in 0..MaxFaults
  BY <1>c, AppendEffect
<1>1. TypeOK'
  <2>1. /\ todo' \subseteq Batches /\ last' \in 0..NumBatches /\ since' \in 0..PruneEvery
        /\ relay' \in [Batches -> 0..MaxAttempts] /\ kept' \subseteq Batches
    <3>1. CASE RecordReport
      <4>1. PICK b \in todo :
              /\ DeleteRelays(b)
              /\ since' = IF Prunes(b) THEN 1 ELSE since + 1
              /\ (todo' = todo \ {b} /\ last' = b) \/ UNCHANGED <<todo, last>>
        BY <3>1 DEF RecordReport
      <4>2. relay' \in [Batches -> 0..MaxAttempts] /\ kept' \subseteq Batches
        <5>1. b \in Batches /\ Gone(b) \subseteq Batches
          <6>1. b \in 1..NumBatches
            BY DEF TypeOK, Batches
          <6>2. 1..(b - 1) \subseteq 1..NumBatches
            BY <6>1
          <6>. QED BY <6>1, <6>2 DEF Gone, Batches
        <5>2. PICK failed \in SUBSET Gone(b) :
                /\ relay' = [c \in Batches |-> IF c \in Gone(b) \ failed THEN 0 ELSE relay[c]]
                /\ kept' = (kept \ Gone(b)) \union failed
          BY <4>1 DEF DeleteRelays
        <5>. QED BY <5>1, <5>2 DEF TypeOK
      <4>3. since' \in 0..PruneEvery
        BY <4>1 DEF Prunes, TypeOK
      <4>4. b \in Batches /\ b \in 0..NumBatches
        <5>1. b \in Batches
          BY DEF TypeOK
        <5>. QED BY <5>1 DEF Batches
      <4>5. todo' \subseteq Batches /\ last' \in 0..NumBatches
        BY <4>1, <4>4 DEF TypeOK
      <4>. QED BY <4>2, <4>3, <4>5
    <3>2. CASE RunStart \/ RunEnd \/ Guard
      BY <3>2 DEF RunStart, RunEnd, Guard, TypeOK
    <3>. QED BY <3>1, <3>2
  <2>2. killed' \subseteq Attempts /\ nb' \in {nb, "setup", "guard", "idle"}
    BY <1>a, <1>b DEF TypeOK
  <2>3. ended' \in BOOLEAN
    BY <1>b DEF TypeOK
  <2>. QED BY <1>b, <1>d, <2>1, <2>2, <2>3 DEF TypeOK
<1>2. PlanShape'
  BY <1>b DEF PlanShape, InBatch, TypeOK
<1>3. BatchProgress'
  BY <1>b, <1>d DEF BatchProgress, InBatch, BatchStartRow, BatchEndRow
<1>4. SendIsAnnounced' /\ SuccessMeansDone' /\ CommittedIsLogged'
  BY <1>b, <1>c, <1>d, HistoryKept
<1>. QED BY <1>1, <1>2, <1>3, <1>4

(* foreachBatch's steps and the commit: the query's position moves one step *)
(* and leaves its mark.                                                     *)
LEMMA QueryStepsKeepExportInv ==
  ASSUME ExportInv,
         NextBatch \/ Transform \/ Announce \/ Send \/ Write \/ WriteMetrics \/ BatchError
           \/ BatchEnd \/ WriteRelay \/ Commit
  PROVE  ExportInv'
<1>. USE DEF ExportInv, notebook, checkpoint, spark, dirs, table, es, QueryStep
<1>a. /\ q \in Live /\ q # "off" /\ attempt \in Attempts
      /\ UNCHANGED <<attempt, nb, caller, ended, todo, last, since, tries, total, killed>>
  BY DEF NextBatch, Transform, Announce, Send, Write, WriteMetrics, BatchError, BatchEnd,
      WriteRelay, Commit, PlanShape, TypeOK, Live, InBatch, Attempts
<1>b. /\ committed \in Nat /\ planned \in 0..NumBatches
      /\ q \in InBatch => planned \in Batches /\ planned = committed + 1
      /\ q = "between" => committed \in 0..NumBatches
  BY DEF PlanShape, TypeOK, Batches
<1>c. ended' \in BOOLEAN
  BY <1>a DEF TypeOK
<1>1. CASE NextBatch
  <2>. USE <1>1 DEF NextBatch
  <2>1. TypeOK'
    BY <1>a, <1>b, <1>c DEF TypeOK, Live, InBatch
  <2>2. PlanShape' /\ BatchProgress'
    BY <1>a, <1>b DEF PlanShape, BatchProgress, InBatch
  <2>3. SendIsAnnounced' /\ SuccessMeansDone' /\ CommittedIsLogged'
    BY HistoryKept
  <2>. QED BY <2>1, <2>2, <2>3
<1>2. CASE Transform
  <2>. USE <1>2 DEF Transform
  <2>1. TypeOK'
    BY <1>a, <1>c, FaultsStayBounded DEF TypeOK, Live, InBatch
  <2>2. PlanShape' /\ BatchProgress'
    BY <1>a, <1>b DEF PlanShape, BatchProgress, InBatch
  <2>3. SendIsAnnounced' /\ SuccessMeansDone' /\ CommittedIsLogged'
    BY HistoryKept
  <2>. QED BY <2>1, <2>2, <2>3
<1>3. CASE Announce
  <2>. USE <1>3 DEF Announce
  <2>0. planned \in Batches
    BY <1>b DEF InBatch
  <2>1. AppendFailure(BatchStartRow(attempt, planned))
        /\ BatchStartRow(attempt, planned) \in Rows
    BY <1>a, <2>0, RowTypes DEF AppendFailure
  <2>2. /\ log \subseteq log' /\ log' \subseteq log \union {BatchStartRow(attempt, planned)}
        /\ log' \subseteq Rows /\ repeated' \subseteq Kinds /\ faults' \in 0..MaxFaults
    BY <2>1, AppendEffect
  <2>3. TypeOK'
    BY <1>a, <1>c, <2>2 DEF TypeOK, Live, InBatch
  <2>4. q' = "write" => BatchStartRow(attempt, planned) \in log'
    BY DEF Appended, Persist
  <2>5. q' \in {"write", "failed"}
    OBVIOUS
  <2>6. PlanShape' /\ BatchProgress'
    BY <1>a, <1>b, <2>4, <2>5 DEF PlanShape, BatchProgress, InBatch, BatchStartRow
  <2>7. SendIsAnnounced' /\ SuccessMeansDone' /\ CommittedIsLogged'
    BY <2>2, HistoryKept, SuccessRowIsUnique
  <2>. QED BY <2>3, <2>6, <2>7
<1>4. CASE Send
  <2>. USE <1>4 DEF Send
  <2>0. planned \in Batches
    BY <1>b DEF InBatch
  <2>1. TypeOK'
    BY <1>a, <1>c, <2>0 DEF TypeOK, Live, InBatch
  <2>2. BatchStartRow(attempt, planned) \in log /\ sent \subseteq sent'
    BY DEF BatchProgress, InBatch
  <2>3. PlanShape' /\ BatchProgress'
    BY <1>a, <2>2 DEF PlanShape, BatchProgress, InBatch, BatchStartRow
  <2>4. SendIsAnnounced'
    BY <1>a, <2>2 DEF SendIsAnnounced, BatchStartRow
  <2>5. SuccessMeansDone' /\ CommittedIsLogged'
    BY <2>2 DEF SuccessMeansDone, CommittedIsLogged, BatchEndRow
  <2>. QED BY <2>1, <2>3, <2>4, <2>5
<1>5. CASE Write
  <2>. USE <1>5 DEF Write
  <2>0. planned \in Batches
    BY <1>b DEF InBatch
  <2>1. TypeOK'
    BY <1>a, <1>c, <2>0, FaultsStayBounded DEF TypeOK, Live, InBatch
  <2>2. BatchStartRow(attempt, planned) \in log /\ sent \subseteq sent'
    BY DEF BatchProgress, InBatch
  <2>3. PlanShape' /\ BatchProgress'
    BY <1>a, <2>2 DEF PlanShape, BatchProgress, InBatch, BatchStartRow
  <2>4. SendIsAnnounced' /\ SuccessMeansDone' /\ CommittedIsLogged'
    BY <2>2 DEF SendIsAnnounced, BatchStartRow, SuccessMeansDone, CommittedIsLogged,
        BatchEndRow
  <2>. QED BY <2>1, <2>3, <2>4
<1>6. CASE WriteMetrics
  <2>. USE <1>6 DEF WriteMetrics
  <2>0. planned \in Batches
    BY <1>b DEF InBatch
  <2>1. TypeOK'
    <3>1. faults' \in 0..MaxFaults
      BY FaultsStayBounded
    <3>2. metrics' \subseteq Batches
      BY <2>0 DEF TypeOK
    <3>3. finished' \subseteq Attempts \X Batches
      BY <1>a, <2>0 DEF TypeOK
    <3>4. q' \in {"batchEnd", "error"}
      OBVIOUS
    <3>. QED BY <1>a, <1>c, <3>1, <3>2, <3>3, <3>4 DEF TypeOK, Live, InBatch
  <2>2. /\ BatchStartRow(attempt, planned) \in log /\ planned \in sent
        /\ finished' = finished \/ finished' = finished \union {<<attempt, planned>>}
        /\ finished \subseteq finished' /\ q' \in {"batchEnd", "error"}
        /\ q' = "batchEnd" => <<attempt, planned>> \in finished'
    BY DEF BatchProgress, InBatch
  <2>3. PlanShape'
    BY <1>a, <2>2 DEF PlanShape, InBatch
  <2>4. BatchProgress'
    BY <1>a, <2>2 DEF BatchProgress, InBatch, BatchStartRow
  <2>5. SendIsAnnounced' /\ SuccessMeansDone' /\ CommittedIsLogged'
    BY <2>2 DEF SendIsAnnounced, BatchStartRow, SuccessMeansDone, CommittedIsLogged,
        BatchEndRow
  <2>. QED BY <2>1, <2>3, <2>4, <2>5
<1>7. CASE BatchError
  <2>. USE <1>7 DEF BatchError
  <2>0. planned \in Batches
    BY <1>b DEF InBatch
  <2>1. BatchEndRow(attempt, planned, "error") \in Rows
    BY <1>a, <2>0, RowTypes
  <2>2. /\ log \subseteq log'
        /\ log' \subseteq log \union {BatchEndRow(attempt, planned, "error")}
        /\ log' \subseteq Rows /\ repeated' \subseteq Kinds /\ faults' \in 0..MaxFaults
    BY <2>1, AppendEffect
  <2>3. TypeOK'
    BY <1>a, <1>c, <2>2 DEF TypeOK, Live, InBatch
  <2>4. PlanShape' /\ BatchProgress'
    BY <1>a, <1>b DEF PlanShape, BatchProgress, InBatch
  <2>5. SendIsAnnounced' /\ SuccessMeansDone' /\ CommittedIsLogged'
    BY <2>2, HistoryKept, SuccessRowIsUnique
  <2>. QED BY <2>3, <2>4, <2>5
<1>8. CASE BatchEnd
  <2>. USE <1>8 DEF BatchEnd
  <2>0. planned \in Batches
    BY <1>b DEF InBatch
  <2>1. AppendFailure(BatchEndRow(attempt, planned, "success"))
        /\ BatchEndRow(attempt, planned, "success") \in Rows
    BY <1>a, <2>0, RowTypes DEF AppendFailure
  <2>2. /\ log \subseteq log'
        /\ log' \subseteq log \union {BatchEndRow(attempt, planned, "success")}
        /\ log' \subseteq Rows /\ repeated' \subseteq Kinds /\ faults' \in 0..MaxFaults
    BY <2>1, AppendEffect
  <2>3. TypeOK'
    BY <1>a, <1>c, <2>2 DEF TypeOK, Live, InBatch
  <2>4. /\ q' = "relay" => BatchEndRow(attempt, planned, "success") \in log'
        /\ q' \in {"relay", "failed"}
    BY DEF Appended, Persist
  <2>5. BatchStartRow(attempt, planned) \in log /\ planned \in sent
        /\ <<attempt, planned>> \in finished
    BY DEF BatchProgress, InBatch
  <2>6. PlanShape'
    BY <1>a, <2>4 DEF PlanShape, InBatch
  <2>7. BatchProgress'
    BY <1>a, <2>2, <2>4, <2>5 DEF BatchProgress, InBatch, BatchStartRow, BatchEndRow
  <2>8. SendIsAnnounced' /\ CommittedIsLogged'
    BY <2>2 DEF SendIsAnnounced, CommittedIsLogged, BatchStartRow, BatchEndRow
  <2>9. SuccessMeansDone'
    <3>. SUFFICES ASSUME NEW a \in Attempts, NEW b \in Batches,
                         BatchEndRow(a, b, "success") \in log'
         PROVE  <<a, b>> \in finished /\ b \in sent
      BY DEF SuccessMeansDone, BatchEndRow
    <3>1. BatchEndRow(a, b, "success") \in log \/ (a = attempt /\ b = planned)
      BY <2>2, SuccessRowIsUnique
    <3>. QED BY <2>5, <3>1 DEF SuccessMeansDone
  <2>. QED BY <2>3, <2>6, <2>7, <2>8, <2>9
<1>9. CASE WriteRelay
  <2>. USE <1>9 DEF WriteRelay
  <2>0. relay' \in [Batches -> 0..MaxAttempts]
    BY <1>a DEF TypeOK, Attempts
  <2>1. TypeOK'
    BY <1>a, <1>c, <2>0 DEF TypeOK, Live, InBatch
  <2>2. PlanShape' /\ BatchProgress'
    BY <1>a DEF PlanShape, BatchProgress, InBatch, BatchStartRow, BatchEndRow
  <2>3. SendIsAnnounced' /\ SuccessMeansDone' /\ CommittedIsLogged'
    BY HistoryKept
  <2>. QED BY <2>1, <2>2, <2>3
<1>10. CASE Commit
  <2>. USE <1>10 DEF Commit
  <2>0. planned \in Batches /\ planned = committed + 1
    BY <1>b DEF InBatch
  <2>1. doneBy' \in [Batches -> 0..MaxAttempts]
    BY <1>a DEF TypeOK, Attempts
  <2>2. TypeOK'
    BY <1>a, <1>b, <1>c, <2>0, <2>1 DEF TypeOK, Live, InBatch
  <2>3. \A b \in Batches : doneBy'[b] = IF b = planned THEN attempt ELSE doneBy[b]
    BY DEF TypeOK
  <2>4. PlanShape'
    <3>1. \A b \in Batches : doneBy'[b] \in 0..attempt /\ (doneBy'[b] = 0 <=> b > planned)
      BY <1>a, <1>b, <2>0, <2>3 DEF PlanShape, Batches, Attempts
    <3>. QED BY <1>a, <2>0, <3>1 DEF PlanShape, InBatch
  <2>5. BatchProgress'
    BY DEF BatchProgress, InBatch
  <2>6. SendIsAnnounced' /\ SuccessMeansDone'
    BY DEF SendIsAnnounced, SuccessMeansDone, BatchStartRow, BatchEndRow
  <2>7. CommittedIsLogged'
    <3>. SUFFICES ASSUME NEW b \in Batches, b <= planned
         PROVE  BatchEndRow(doneBy'[b], b, "success") \in log
      BY DEF CommittedIsLogged, BatchEndRow
    <3>1. CASE b = planned
      BY <2>3, <3>1 DEF BatchProgress, InBatch
    <3>2. CASE b # planned
      <4>1. b <= committed
        BY <1>b, <2>0, <3>2 DEF Batches
      <4>. QED BY <2>3, <3>2, <4>1 DEF CommittedIsLogged
    <3>. QED BY <3>1, <3>2
  <2>. QED BY <2>2, <2>4, <2>5, <2>6, <2>7
<1>. QED BY <1>1, <1>2, <1>3, <1>4, <1>5, <1>6, <1>7, <1>8, <1>9, <1>10

(* All steps of both processes together.                                    *)
LEMMA StepKeepsExportInv == ExportInv /\ [Next]_vars => ExportInv'
<1>. SUFFICES ASSUME ExportInv, [Next]_vars PROVE ExportInv'
  OBVIOUS
<1>1. CASE UNCHANGED vars
  BY <1>1 DEF vars, ExportInv, TypeOK, PlanShape, BatchProgress, SendIsAnnounced,
      SuccessMeansDone, CommittedIsLogged, BatchStartRow, BatchEndRow, InBatch, Live
<1>2. CASE Next
  BY <1>1, <1>2, QuietStepsKeepExportInv, NotebookRowsKeepExportInv, QueryStepsKeepExportInv
    DEF Next, Notebook, Query, NoMoreAttempts
<1>. QED BY <1>1, <1>2

(* Every reachable state keeps the batch bookkeeping: what was sent was     *)
(* announced, a success row means the batch is in Elasticsearch, and the    *)
(* checkpoint passes a batch only when its success is on record.            *)
THEOREM ExportInvariant == Spec => []ExportInv
BY InitExportInv, StepKeepsExportInv, PTL DEF Spec

(* In every reachable state, whatever an attempt has sent of a batch was    *)
(* announced in the log first: a log outage stops a batch before its data   *)
(* moves.                                                                   *)
THEOREM NoUnannouncedSend == Spec => []SendIsAnnounced
<1>1. ExportInv => SendIsAnnounced
  BY DEF ExportInv
<1>. QED BY <1>1, ExportInvariant, PTL

(* In every reachable state, a batch the checkpoint has passed has its      *)
(* batch_end success in the log, under the attempt that committed it.       *)
THEOREM NoUnloggedCommit == Spec => []CommittedIsLogged
<1>1. ExportInv => CommittedIsLogged
  BY DEF ExportInv
<1>. QED BY <1>1, ExportInvariant, PTL

(* In every reachable state, a batch_end success row means that the batch   *)
(* is in Elasticsearch and its metrics file was written.                    *)
THEOREM SuccessIsDone == Spec => []SuccessMeansDone
<1>1. ExportInv => SuccessMeansDone
  BY DEF ExportInv
<1>. QED BY <1>1, ExportInvariant, PTL

-----------------------------------------------------------------------------
(* The totals of a drain. *)

(* At first no attempt has run, so no metrics file and no total exist.      *)
LEMMA InitDrainInv == Init => DrainInv
<1>1. Init => MetricsShape /\ EndShape /\ TotalsAreExact
  BY DEF Init, MetricsShape, EndShape, TotalsAreExact
<1>. QED BY <1>1, InitExportInv DEF DrainInv

(* No row but RunEnd's own is a run_end success.                            *)
LEMMA OtherRowsAreNoSuccess ==
  /\ \A a : RunStartRow(a).type = "run_start"
  /\ \A a, t : RunEndRow(a, "error", t).status = "error"
  /\ \A a, t : RunEndRow(a, "stopped", t).status = "stopped"
  /\ \A a, b : BatchStartRow(a, b).type = "batch_start"
  /\ \A a, b, s : BatchEndRow(a, b, s).type = "batch_end"
  /\ \A a, b, c : SummaryRow(a, b, c).type = "batch_summary"
BY DEF RunStartRow, RunEndRow, BatchStartRow, BatchEndRow, SummaryRow, Row

(* A step that adds no run_end success row, commits nothing and starts no   *)
(* attempt leaves the recorded totals as they are.                          *)
LEMMA TotalsKept ==
  ASSUME TotalsAreExact, UNCHANGED <<doneBy, committed>>,
         \A r \in log' : r.type = "run_end" /\ r.status = "success" => r \in log
  PROVE  TotalsAreExact'
BY DEF TotalsAreExact, Done

(* The notebook keeps the metrics directory in step with what its attempt   *)
(* commits: it clears it before the query is launched and reads it after    *)
(* the query has ended.                                                     *)
LEMMA NotebookKeepsDrainInv ==
  ASSUME DrainInv, ExportInv', Notebook \/ Kill
  PROVE  DrainInv'
<1>. USE DEF DrainInv, notebook, checkpoint, spark, dirs, table, es
<1>0. TypeOK /\ PlanShape /\ UNCHANGED <<doneBy, committed, planned>>
  BY DEF ExportInv, Notebook, StartAttempt, RunStart, Setup, Launch, WaitSlice, GiveUp,
      RecordReport, Recorded, FinalRecord, DrainSummary, CatchUp, RunEnd, Guard, Kill
<1>1. CASE StartAttempt
  <2>1. UNCHANGED <<log, q>> /\ attempt' = attempt + 1 /\ nb' = "start" /\ nb = "idle"
    BY <1>1 DEF StartAttempt
  <2>2. q = "off" /\ attempt \in Nat /\ (\A b \in Batches : doneBy[b] \in 0..attempt)
    BY <1>0, <2>1 DEF PlanShape, TypeOK
  <2>3. MetricsShape'
    BY <1>0, <2>1, <2>2 DEF MetricsShape, Done
  <2>4. \A r \in log : r.attempt \in Nat
    BY <1>0 DEF TypeOK, Rows, Attempts
  <2>5. EndShape'
    BY <1>1, <2>1, <2>2, <2>4 DEF StartAttempt, EndShape
  <2>. QED BY <1>0, <2>1, <2>3, <2>5, TotalsKept
<1>2. CASE RunStart
  <2>1. /\ UNCHANGED <<attempt, caller, total, metrics>> /\ q' \in {q, "off"}
        /\ nb' \in {"setup", "idle"} /\ nb = "start"
        /\ log' \subseteq log \union {RunStartRow(attempt)}
        /\ nb' = "idle" => q' = "off"
    BY <1>2 DEF RunStart, Appended, AppendRaised, Persist, Exit
  <2>2. \A r \in log' : r.type = "run_end" => r \in log
    BY <2>1, OtherRowsAreNoSuccess
  <2>3. q = "off"
    BY <1>0, <2>1 DEF PlanShape
  <2>4. MetricsShape' /\ EndShape'
    BY <1>0, <2>1, <2>2, <2>3 DEF MetricsShape, EndShape, Done
  <2>. QED BY <1>0, <2>2, <2>4, TotalsKept
<1>3. CASE Setup
  <2>1. /\ UNCHANGED <<attempt, caller, total, q, log>>
        /\ nb' \in {"launch", "guard"} /\ nb = "setup"
        /\ nb' = "launch" => metrics' = {}
    BY <1>3 DEF Setup
  <2>2. q = "off"
    BY <1>0, <2>1 DEF PlanShape
  <2>3. MetricsShape' /\ EndShape'
    BY <1>0, <2>1, <2>2 DEF MetricsShape, EndShape, Done
  <2>. QED BY <1>0, <2>1, <2>3, TotalsKept
<1>4. CASE Launch
  <2>1. /\ UNCHANGED <<attempt, caller, total, log, metrics>>
        /\ (nb' = "wait" /\ q' = "between") \/ (nb' = "guard" /\ q' = q)
        /\ nb = "launch"
    BY <1>4 DEF Launch
  <2>2. q = "off"
    BY <1>0, <2>1 DEF PlanShape
  <2>3. MetricsShape' /\ EndShape'
    BY <1>0, <2>1, <2>2 DEF MetricsShape, EndShape, Done
  <2>. QED BY <1>0, <2>1, <2>3, TotalsKept
<1>5. CASE WaitSlice \/ GiveUp \/ Recorded \/ FinalRecord \/ DrainSummary \/ CatchUp
  <2>1. UNCHANGED <<attempt, q, log, metrics>> /\ nb \notin {"idle", "guard"}
    BY <1>5 DEF WaitSlice, GiveUp, Recorded, FinalRecord, DrainSummary, CatchUp
  <2>2. MetricsShape'
    BY <1>0, <1>5, <2>1 DEF MetricsShape, Done, WaitSlice, GiveUp, Recorded, FinalRecord,
        DrainSummary, CatchUp, ReadProgress
  <2>3. EndShape'
    <3>1. CASE WaitSlice \/ GiveUp
      BY <1>0, <2>1, <3>1 DEF EndShape, WaitSlice, GiveUp, ReadProgress
    <3>2. CASE Recorded
      BY <1>0, <2>1, <3>2 DEF EndShape, Done, Recorded, TypeOK
    <3>3. CASE FinalRecord
      BY <1>0, <2>1, <3>3 DEF EndShape, FinalRecord, ReadProgress
    <3>4. CASE DrainSummary
      <4>1. metrics = Done(attempt)
        BY <3>4 DEF DrainSummary, EndShape, MetricsShape
      <4>. QED BY <1>0, <2>1, <3>4, <4>1 DEF EndShape, Done, DrainSummary
    <3>5. CASE CatchUp
      BY <1>0, <2>1, <3>5 DEF EndShape, Done, CatchUp, ReadProgress
    <3>. QED BY <1>5, <3>1, <3>2, <3>3, <3>4, <3>5
  <2>. QED BY <1>0, <2>1, <2>2, <2>3, TotalsKept
<1>6. CASE RecordReport
  <2>1. PICK b \in todo :
          \E src \in {relay[b]} \union (IF RelayFails THEN {0} ELSE {}) :
            AppendFailure(SummaryRow(attempt, b, src))
    BY <1>6 DEF RecordReport, AppendFailure
  <2>2. PICK src : AppendFailure(SummaryRow(attempt, b, src))
    BY <2>1
  <2>3. \A r \in log' : r.type = "run_end" => r \in log
    BY <2>2, OtherRowsAreNoSuccess DEF AppendFailure, Appended, AppendRaised, Persist
  <2>4. /\ UNCHANGED <<attempt, caller, total, metrics>> /\ nb = "record"
        /\ (nb' = nb /\ q' = q) \/ (nb' = "guard" /\ q' \in {q, "off"})
    BY <1>6 DEF RecordReport
  <2>5. MetricsShape'
    BY <1>0, <2>4 DEF MetricsShape, Done
  <2>6. EndShape'
    BY <1>0, <2>3, <2>4 DEF EndShape, Done
  <2>. QED BY <1>0, <2>3, <2>5, <2>6, TotalsKept
<1>7. CASE RunEnd
  <2>1. /\ UNCHANGED <<attempt, caller, total, metrics>> /\ nb = "end"
        /\ (nb' = "idle" /\ q' = "off") \/ (nb' = "guard" /\ q' = q)
        /\ log' \subseteq log \union {EndRow}
    BY <1>7 DEF RunEnd, Appended, AppendRaised, Persist, Exit
  <2>2. q = "ended"
    BY <2>1 DEF EndShape
  <2>3. /\ EndRow.type = "run_end" /\ EndRow.attempt = attempt /\ EndRow.batches = total
        /\ EndRow.status = "success" => ~Continuous
    BY DEF EndRow, RunEndRow, Row
  <2>4. MetricsShape'
    BY <1>0, <2>1, <2>2 DEF MetricsShape, Done
  <2>5. EndShape'
    BY <1>0, <2>1, <2>2, <2>3 DEF EndShape, Done
  <2>6. TotalsAreExact'
    <3>. SUFFICES ASSUME NEW r \in log', r.type = "run_end", r.status = "success"
         PROVE  r.batches = Done(r.attempt) /\ committed = NumBatches
      BY <1>0 DEF TotalsAreExact, Done
    <3>1. CASE r \in log
      BY <3>1 DEF TotalsAreExact
    <3>2. CASE r = EndRow
      BY <2>1, <2>2, <2>3, <3>2 DEF EndShape
    <3>. QED BY <2>1, <3>1, <3>2
  <2>. QED BY <2>4, <2>5, <2>6
<1>8. CASE Guard
  <2>1. /\ UNCHANGED <<attempt, caller, total, metrics>>
        /\ nb' = "idle" /\ q' = "off" /\ nb = "guard"
        /\ log' \subseteq log \union {RunEndRow(attempt, "error", {})}
    BY <1>8 DEF Guard, AppendFailure, Appended, AppendRaised, Persist, Exit
  <2>2. \A r \in log' : r.type = "run_end" /\ r.status = "success" => r \in log
    BY <2>1, OtherRowsAreNoSuccess
  <2>3. MetricsShape' /\ EndShape'
    BY <1>0, <2>1, <2>2 DEF MetricsShape, EndShape, Done
  <2>. QED BY <1>0, <2>2, <2>3, TotalsKept
<1>9. CASE Kill
  <2>1. /\ UNCHANGED <<attempt, caller, total, metrics, log>>
        /\ nb' = "idle" /\ q' = "off"
    BY <1>9 DEF Kill
  <2>2. MetricsShape' /\ EndShape'
    BY <1>0, <2>1 DEF MetricsShape, EndShape, Done
  <2>. QED BY <1>0, <2>1, <2>2, TotalsKept
<1>. QED BY <1>1, <1>2, <1>3, <1>4, <1>5, <1>6, <1>7, <1>8, <1>9 DEF Notebook

(* The query adds a metrics file for its batch, and commits that batch or   *)
(* dies with it.                                                            *)
LEMMA QueryKeepsDrainInv ==
  ASSUME DrainInv, ExportInv', Query \/ Publish \/ LoseReport
  PROVE  DrainInv'
<1>. USE DEF DrainInv, notebook, checkpoint, spark, dirs, table, es, QueryStep
<1>0. /\ TypeOK /\ PlanShape
      /\ UNCHANGED <<attempt, nb, caller, total>>
  BY DEF ExportInv, Query, NextBatch, QueryEnds, QueryFails, Transform, Announce, Send,
      Write, WriteMetrics, BatchError, BatchEnd, WriteRelay, Commit, Publish, LoseReport
<1>1. \A r \in log' : r.type = "run_end" => r \in log
  BY OtherRowsAreNoSuccess DEF Query, NextBatch, QueryEnds, QueryFails, Transform, Announce,
      Send, Write, WriteMetrics, BatchError, BatchEnd, WriteRelay, Commit, Publish,
      LoseReport, AppendFailure, Appended, AppendRaised, Persist
<1>2. CASE Commit
  <2>. USE <1>2 DEF Commit
  <2>1. planned \in Batches /\ planned = committed + 1 /\ doneBy[planned] = 0
        /\ committed # NumBatches
    BY <1>0 DEF PlanShape, TypeOK, InBatch, Batches
  <2>2. \A b \in Batches : doneBy'[b] = IF b = planned THEN attempt ELSE doneBy[b]
    BY <1>0 DEF TypeOK
  <2>3. Done(attempt)' = Done(attempt) \union {planned}
    BY <1>0, <2>1, <2>2 DEF Done
  <2>4. MetricsShape'
    BY <1>0, <2>3 DEF MetricsShape, PlanShape
  <2>5. EndShape'
    BY <1>0, <1>1 DEF EndShape
  <2>6. TotalsAreExact'
    BY <2>1 DEF TotalsAreExact
  <2>. QED BY <2>4, <2>5, <2>6
<1>3. CASE ~Commit
  <2>1. UNCHANGED <<doneBy, committed>>
    BY <1>3 DEF Query, NextBatch, QueryEnds, QueryFails, Transform, Announce,
        Send, Write, WriteMetrics, BatchError, BatchEnd, WriteRelay, Publish, LoseReport
  <2>2. MetricsShape'
    <3>1. CASE WriteMetrics
      BY <1>0, <2>1, <3>1 DEF WriteMetrics, MetricsShape, Done, PlanShape
    <3>2. CASE ~WriteMetrics
      <4>1. metrics' = metrics
        BY <1>3, <3>2 DEF Query, NextBatch, QueryEnds, QueryFails, Transform, Announce,
            Send, Write, BatchError, BatchEnd, WriteRelay, Publish, LoseReport
      <4>2. planned' = planned \/ (q = "between" /\ q' = "transform")
        BY <1>3, <3>2 DEF Query, NextBatch, QueryEnds, QueryFails, Transform, Announce,
            Send, Write, BatchError, BatchEnd, WriteRelay, Publish, LoseReport
      <4>3. /\ q' \in {"between", "transform", "announce", "write", "sending", "metrics",
                       "ended"} =>
                 q \in {"between", "transform", "announce", "write", "sending", "metrics",
                       "ended"}
            /\ q' \in {"batchEnd", "relay", "commit"} => q \in {"batchEnd", "relay", "commit"}
        BY <1>3, <3>2 DEF Query, NextBatch, QueryEnds, QueryFails, Transform, Announce,
            Send, Write, BatchError, BatchEnd, WriteRelay, Publish, LoseReport
      <4>. QED BY <1>0, <2>1, <4>1, <4>2, <4>3 DEF MetricsShape, Done
    <3>. QED BY <3>1, <3>2
  <2>3. q = "ended" => q' = "ended"
    BY <1>3 DEF Query, NextBatch, QueryEnds, QueryFails, Transform, Announce,
        Send, Write, WriteMetrics, BatchError, BatchEnd, WriteRelay, Publish, LoseReport
  <2>4. /\ q' = "ended" /\ ~Continuous => q = "ended" \/ committed = NumBatches
        /\ q' = "off" => q = "off"
        /\ q = "off" => q' = "off"
    BY <1>3 DEF Query, NextBatch, QueryEnds, QueryFails, Transform, Announce,
        Send, Write, WriteMetrics, BatchError, BatchEnd, WriteRelay, Publish, LoseReport
  <2>5. EndShape'
    BY <1>0, <1>1, <2>1, <2>3, <2>4 DEF EndShape, Done
  <2>. QED BY <1>1, <2>1, <2>2, <2>5, TotalsKept
<1>. QED BY <1>2, <1>3

(* All steps of both processes together.                                    *)
LEMMA StepKeepsDrainInv == DrainInv /\ [Next]_vars => DrainInv'
<1>. SUFFICES ASSUME DrainInv, [Next]_vars PROVE DrainInv'
  OBVIOUS
<1>1. ExportInv'
  BY StepKeepsExportInv DEF DrainInv
<1>2. CASE UNCHANGED vars
  BY <1>1, <1>2 DEF vars, DrainInv, MetricsShape, EndShape, TotalsAreExact, Done
<1>3. CASE Next
  BY <1>1, <1>2, <1>3, NotebookKeepsDrainInv, QueryKeepsDrainInv
    DEF Next, NoMoreAttempts
<1>. QED BY <1>2, <1>3

(* The run_end success of every drain reports exactly the batches its       *)
(* attempt committed, and the backlog is drained.                           *)
THEOREM DrainTotalsAreExact == Spec => []TotalsAreExact
<1>1. DrainInv => TotalsAreExact
  BY DEF DrainInv
<1>. QED BY <1>1, InitDrainInv, StepKeepsDrainInv, PTL DEF Spec

-----------------------------------------------------------------------------
(* The recorder's invariant: what the reports, the relays and the rows of   *)
(* the running attempt say of each other.                                   *)

(* Spark reports only what this attempt committed, in batch order, and the  *)
(* recorder holds every report above its mark but those that came later.    *)
ReportShape ==
  /\ pending \union reports \union todo \subseteq Done(attempt)
  /\ last = 0 \/ last \in Done(attempt)
  /\ \A b \in todo : b > last
  /\ \A b \in pending : b > last /\ (\A c \in reports \union todo : b > c)
  /\ nb = "record" =>
       \A b \in reports : b > last => b \in todo \/ (\A c \in todo : b > c)

(* Once its directories are cleared an attempt finds only relays of its     *)
(* own.                                                                     *)
RelayShape ==
  \/ nb \in {"launch", "wait", "record", "final", "summary", "catchup", "end"}
  \/ q # "off"
  => \A b \in Batches : relay[b] \in {0, attempt}

(* Which rows of the running attempt may be in the log, by where the         *)
(* notebook and the query stand.                                            *)
RowFits(r) ==
  /\ r.attempt <= attempt
  /\ r.type \in {"batch_start", "batch_end"} => r.batch <= planned
  /\ r.attempt = attempt =>
       /\ nb # "start"
       /\ nb \in {"setup", "launch"} => r.type = "run_start"
       /\ r.type = "batch_start" /\ q \in {"between", "transform", "announce"}
            => r.batch <= committed
       /\ r.type = "batch_end" /\ q \in Live \ {"relay", "commit"} => r.batch <= committed
       /\ r.type = "batch_summary" /\ nb \notin {"idle", "guard"} => r.batch <= last
       /\ r.type = "run_end" /\ nb # "idle" => AckLoss

RowShape == \A r \in log : RowFits(r)

(* What every reachable state of the recorder satisfies.                    *)
RecorderInv ==
  /\ ExportInv
  /\ ReportShape
  /\ RelayShape
  /\ RowShape
  /\ RowsOnce
  /\ SummaryIsFresh
  /\ NoReportSkipped
  /\ RelaysPruned

(* What an attempt has committed the checkpoint has passed.                 *)
LEMMA DoneIsCommitted ==
  ASSUME ExportInv, attempt # 0, NEW b \in Done(attempt)
  PROVE  b \in Batches /\ b <= committed
BY DEF ExportInv, PlanShape, TypeOK, Done, Batches

(* Reports are taken and recorded in batch order, so none is behind the     *)
(* mark unrecorded.                                                         *)
LEMMA StepKeepsReportShape ==
  ASSUME ExportInv, ReportShape, Next
  PROVE  ReportShape'
<1>. USE DEF notebook, checkpoint, spark, dirs, table, es, QueryStep
<1>0. TypeOK /\ PlanShape
  BY DEF ExportInv
<1>a. pending \subseteq Nat /\ reports \subseteq Nat /\ todo \subseteq Nat /\ last \in Nat
  BY <1>0 DEF TypeOK, Batches
<1>1. CASE StartAttempt
  BY <1>1 DEF StartAttempt, ReportShape
<1>2. CASE WaitSlice \/ FinalRecord \/ CatchUp
  <2>1. /\ UNCHANGED <<attempt, doneBy, last, pending, reports>>
        /\ todo' \in {todo, {}, {b \in reports : b > last}}
        /\ nb' = "record" => todo' \in {{}, {b \in reports : b > last}}
    BY <1>2 DEF WaitSlice, FinalRecord, CatchUp, ReadProgress
  <2>2. todo' \subseteq todo \union reports /\ (\A b \in todo' : b > last)
    BY <2>1 DEF ReportShape
  <2>. QED BY <2>1, <2>2 DEF ReportShape, Done
<1>3. CASE RecordReport
  <2>1. UNCHANGED <<attempt, doneBy, pending, reports>>
    BY <1>3 DEF RecordReport
  <2>2. CASE UNCHANGED <<todo, last>>
    <3>1. nb = "record"
      BY <1>3 DEF RecordReport
    <3>. QED BY <2>1, <2>2, <3>1 DEF ReportShape, Done
  <2>3. CASE ~ UNCHANGED <<todo, last>>
    <3>1. PICK b \in todo : IsNext(b) /\ todo' = todo \ {b} /\ last' = b
      BY <1>3, <2>3 DEF RecordReport
    <3>2. nb = "record"
      BY <1>3 DEF RecordReport
    <3>3. b \in Nat /\ b > last /\ b \in Done(attempt)
      BY <1>a DEF ReportShape
    <3>4. \A c \in todo \ {b} : c > b
      BY <1>a, <3>1, <3>3 DEF IsNext
    <3>5. \A c \in reports : c > b => c \in todo \ {b} \/ (\A d \in todo \ {b} : c > d)
      <4>. SUFFICES ASSUME NEW c \in reports, c > b
           PROVE  c \in todo \ {b} \/ (\A d \in todo \ {b} : c > d)
        OBVIOUS
      <4>1. c > last /\ c # b
        BY <1>a, <3>3
      <4>. QED BY <3>2, <4>1 DEF ReportShape
    <3>. QED BY <2>1, <3>1, <3>3, <3>4, <3>5 DEF ReportShape, Done
  <2>. QED BY <2>2, <2>3
<1>4. CASE RunStart \/ Setup \/ Launch \/ GiveUp \/ Recorded \/ DrainSummary \/ RunEnd
             \/ Guard \/ Kill
  <2>1. UNCHANGED <<attempt, doneBy, todo, last, pending, reports>> /\ nb' # "record"
    BY <1>4 DEF RunStart, Setup, Launch, GiveUp, Recorded, DrainSummary, RunEnd, Guard,
        Kill, Exit
  <2>. QED BY <2>1 DEF ReportShape, Done
<1>5. CASE Commit
  <2>1. /\ UNCHANGED <<attempt, nb, todo, last, reports>>
        /\ doneBy' = [doneBy EXCEPT ![planned] = attempt]
        /\ pending' = pending \union {planned}
        /\ q = "commit"
    BY <1>5 DEF Commit
  <2>2. planned \in Batches /\ planned = committed + 1 /\ committed \in Nat /\ attempt # 0
    BY <1>0, <2>1 DEF PlanShape, TypeOK, InBatch, Batches
  <2>3. \A b \in Done(attempt) : b \in Nat /\ b < planned
    BY <2>2, DoneIsCommitted DEF Batches
  <2>4. Done(attempt) \union {planned} \subseteq Done(attempt)'
    BY <1>0, <2>1, <2>2 DEF TypeOK, Done
  <2>5. planned > last
    BY <2>2, <2>3 DEF ReportShape
  <2>6. \A c \in reports \union todo : planned > c
    BY <2>2, <2>3 DEF ReportShape
  <2>. QED BY <2>1, <2>4, <2>5, <2>6 DEF ReportShape
<1>6. CASE Publish
  <2>1. PICK b \in pending :
          /\ \A c \in pending : b <= c
          /\ pending' = pending \ {b} /\ reports' = reports \union {b}
    BY <1>6 DEF Publish
  <2>2. UNCHANGED <<attempt, nb, doneBy, todo, last>>
    BY <1>6 DEF Publish
  <2>3. \A c \in pending \ {b} : c > b
    BY <1>a, <2>1
  <2>. QED BY <2>1, <2>2, <2>3 DEF ReportShape, Done
<1>7. CASE LoseReport
  <2>1. UNCHANGED <<attempt, nb, doneBy, todo, last>> /\ pending' \subseteq pending
        /\ reports' \subseteq reports
    BY <1>7 DEF LoseReport
  <2>. QED BY <2>1 DEF ReportShape, Done
<1>8. CASE (Query /\ ~Commit) \/ NoMoreAttempts
  <2>1. UNCHANGED <<attempt, nb, doneBy, todo, last, pending, reports>>
    BY <1>8 DEF Query, NextBatch, QueryEnds, QueryFails, Transform, Announce, Send, Write,
        WriteMetrics, BatchError, BatchEnd, WriteRelay, NoMoreAttempts, vars
  <2>. QED BY <2>1 DEF ReportShape, Done
<1>. QED BY <1>1, <1>2, <1>3, <1>4, <1>5, <1>6, <1>7, <1>8 DEF Next, Notebook, Query

(* The mark only passes relays it deletes or fails to delete, and a relay   *)
(* is written ahead of it.                                                  *)
LEMMA StepKeepsRelays ==
  ASSUME ExportInv, ReportShape, RelayShape, RelaysPruned, Next
  PROVE  RelayShape' /\ RelaysPruned'
<1>. USE DEF notebook, checkpoint, spark, dirs, table, es, QueryStep
<1>0. TypeOK /\ PlanShape
  BY DEF ExportInv
<1>a. last \in Nat /\ attempt \in Nat /\ Batches \subseteq Nat
  BY <1>0 DEF TypeOK, Batches
<1>1. CASE StartAttempt
  <2>1. q = "off"
    BY <1>0, <1>1 DEF StartAttempt, PlanShape
  <2>2. RelayShape'
    BY <1>1, <2>1 DEF StartAttempt, RelayShape
  <2>3. RelaysPruned'
    BY <1>a, <1>1 DEF StartAttempt, RelaysPruned, Batches
  <2>. QED BY <2>2, <2>3
<1>2. CASE Setup
  <2>1. q = "off" /\ q' = "off" /\ UNCHANGED <<last, attempt>>
    BY <1>0, <1>2 DEF Setup, PlanShape
  <2>2. \/ nb' = "launch" /\ relay' = [b \in Batches |-> 0]
        \/ nb' = "guard" /\ UNCHANGED <<relay, kept>>
    BY <1>2 DEF Setup
  <2>. QED BY <2>1, <2>2 DEF RelayShape, RelaysPruned
<1>3. CASE RecordReport
  <2>1. /\ nb = "record" /\ UNCHANGED attempt
        /\ nb' \in {"record", "guard"} /\ q' \in {q, "off"}
    BY <1>3 DEF RecordReport
  <2>2. PICK b \in todo : DeleteRelays(b) /\ (last' = b \/ last' = last)
    BY <1>3 DEF RecordReport
  <2>3. PICK failed \in SUBSET Gone(b) :
          /\ relay' = [c \in Batches |-> IF c \in Gone(b) \ failed THEN 0 ELSE relay[c]]
          /\ kept' = (kept \ Gone(b)) \union failed
    BY <2>2 DEF DeleteRelays
  <2>4. RelayShape'
    BY <2>1, <2>3 DEF RelayShape
  <2>5. b \in Batches /\ b > last
    BY <1>0 DEF TypeOK, ReportShape
  <2>6. RelaysPruned'
    <3>. SUFFICES ASSUME NEW c \in Batches, c <= last'
         PROVE  relay'[c] = 0 \/ c \in kept'
      BY DEF RelaysPruned
    <3>1. CASE c \in Gone(b)
      BY <2>3, <3>1
    <3>2. CASE c \notin Gone(b)
      <4>1. c <= last
        BY <1>a, <2>2, <2>5, <3>2 DEF Gone, Prunes, Batches
      <4>. QED BY <2>3, <3>2, <4>1 DEF RelaysPruned
    <3>. QED BY <3>1, <3>2
  <2>. QED BY <2>4, <2>6
<1>4. CASE WriteRelay
  <2>1. UNCHANGED <<nb, attempt, last, kept>> /\ q = "relay" /\ planned = committed + 1
        /\ attempt # 0
    BY <1>0, <1>4 DEF WriteRelay, PlanShape, InBatch
  <2>2. \A b \in Batches : relay'[b] = relay[b] \/ (b = planned /\ relay'[b] = attempt)
    BY <1>0, <1>4 DEF WriteRelay, TypeOK
  <2>3. RelayShape'
    BY <2>1, <2>2 DEF RelayShape
  <2>4. last < planned
    BY <1>0, <1>a, <2>1, DoneIsCommitted DEF ReportShape, TypeOK
  <2>5. RelaysPruned'
    BY <1>a, <2>1, <2>2, <2>4, <1>0 DEF RelaysPruned, TypeOK
  <2>. QED BY <2>3, <2>5
<1>5. CASE RunStart \/ Launch \/ WaitSlice \/ GiveUp \/ Recorded \/ FinalRecord \/ DrainSummary
             \/ CatchUp \/ RunEnd \/ Guard \/ Kill
  <2>1. UNCHANGED <<attempt, last, relay, kept>>
    BY <1>5 DEF RunStart, Launch, WaitSlice, GiveUp, Recorded, FinalRecord, DrainSummary,
        CatchUp, RunEnd, Guard, Kill
  <2>2. /\ q' \in {q, "off"} \/ nb = "launch"
        /\ nb' \in {"setup", "guard", "idle"}
           \/ nb \in {"launch", "wait", "record", "final", "summary", "catchup", "end"}
    BY <1>5 DEF RunStart, Launch, WaitSlice, GiveUp, Recorded, FinalRecord, DrainSummary,
        CatchUp, RunEnd, Guard, Kill, ReadProgress, Exit
  <2>. QED BY <2>1, <2>2 DEF RelayShape, RelaysPruned
<1>6. CASE (Query /\ ~WriteRelay) \/ Publish \/ LoseReport \/ NoMoreAttempts
  <2>1. UNCHANGED <<nb, attempt, last, relay, kept>> /\ (q = "off" => q' = "off")
    BY <1>6 DEF Query, NextBatch, QueryEnds, QueryFails, Transform, Announce, Send, Write,
        WriteMetrics, BatchError, BatchEnd, Commit, Publish, LoseReport, NoMoreAttempts, vars
  <2>. QED BY <2>1 DEF RelayShape, RelaysPruned
<1>. QED BY <1>1, <1>2, <1>3, <1>4, <1>5, <1>6 DEF Next, Notebook, Query

(* What a row says of itself. *)
LEMMA RowKeys ==
  /\ \A a : RunStartRow(a).type = "run_start" /\ RunStartRow(a).attempt = a
            /\ RunStartRow(a).batch = 0
  /\ \A a, s, t : RunEndRow(a, s, t).type = "run_end" /\ RunEndRow(a, s, t).attempt = a
                  /\ RunEndRow(a, s, t).batch = 0
  /\ \A a, b : BatchStartRow(a, b).type = "batch_start" /\ BatchStartRow(a, b).attempt = a
               /\ BatchStartRow(a, b).batch = b
  /\ \A a, b, s : BatchEndRow(a, b, s).type = "batch_end" /\ BatchEndRow(a, b, s).attempt = a
                  /\ BatchEndRow(a, b, s).batch = b
  /\ \A a, b, c : SummaryRow(a, b, c).type = "batch_summary"
                  /\ SummaryRow(a, b, c).attempt = a /\ SummaryRow(a, b, c).batch = b
                  /\ SummaryRow(a, b, c).source = c
BY DEF RunStartRow, RunEndRow, BatchStartRow, BatchEndRow, SummaryRow, Row

(* An append repeats nothing when the log has no row of its key yet.        *)
LEMMA NewRowKeepsRowsOnce ==
  ASSUME RowsOnce, NEW row, AppendFailure(row),
         \/ \A r \in log : r.type = row.type /\ r.attempt = row.attempt => r.batch # row.batch
         \/ AckLoss /\ row.type = "run_end"
  PROVE  RowsOnce'
<1>1. repeated' = repeated \/ (repeated' = repeated \union {row.type} /\ AckLoss
                               /\ row.type = "run_end")
  BY DEF AppendFailure, Appended, AppendRaised, Persist, table
<1>. QED BY <1>1 DEF RowsOnce

(* A step that appends one row keeps the shape of the log when the old rows *)
(* still fit and the new one does, if it was written.                       *)
LEMMA NewRowKeepsRowShape ==
  ASSUME NEW row, AppendFailure(row),
         \A r \in log : RowFits(r)', row \in log' => RowFits(row)'
  PROVE  RowShape'
<1>1. log' \subseteq log \union {row}
  BY DEF AppendFailure, Appended, AppendRaised, Persist, table
<1>. QED BY <1>1 DEF RowShape

(* Each row is appended where the log cannot hold one of its key.           *)
LEMMA NotebookKeepsRows ==
  ASSUME ExportInv, ReportShape, RowShape, RowsOnce, Notebook \/ Kill
  PROVE  RowShape' /\ RowsOnce'
<1>. USE DEF notebook, checkpoint, spark, dirs, table, es
<1>0. TypeOK /\ PlanShape
  BY DEF ExportInv
<1>a. /\ attempt \in Nat /\ last \in Nat /\ Batches \subseteq Nat /\ committed \in Nat
      /\ \A r \in log : r.attempt \in Nat /\ r.batch \in Nat
  BY <1>0 DEF TypeOK, Batches, Rows, Attempts
<1>1. CASE StartAttempt
  BY <1>a, <1>1 DEF StartAttempt, RowShape, RowFits, RowsOnce
<1>2. CASE RunStart
  <2>0. PICK row : row = RunStartRow(attempt)
    OBVIOUS
  <2>1. /\ AppendFailure(row) /\ nb = "start" /\ q = "off"
        /\ UNCHANGED <<attempt, planned, committed, last>> /\ nb' \in {"setup", "idle"} /\ q' = "off"
    BY <1>0, <1>2, <2>0 DEF RunStart, AppendFailure, Exit, PlanShape
  <2>2. \A r \in log : r.attempt # attempt
    BY <2>1 DEF RowShape, RowFits
  <2>3. RowShape'
    <3>1. \A r \in log : RowFits(r)'
      BY <2>1, <2>2 DEF RowShape, RowFits
    <3>2. RowFits(row)'
      BY <1>a, <2>0, <2>1, RowKeys DEF RowFits
    <3>. QED BY <2>1, <3>1, <3>2, NewRowKeepsRowShape
  <2>. QED BY <2>0, <2>1, <2>2, <2>3, RowKeys, NewRowKeepsRowsOnce
<1>3. CASE Setup \/ Launch \/ WaitSlice \/ GiveUp \/ Recorded \/ FinalRecord \/ DrainSummary
             \/ CatchUp \/ Kill
  <2>1. /\ UNCHANGED <<attempt, planned, committed, last, log, repeated>>
        /\ nb' # "start" /\ nb # "idle"
        /\ \/ nb = "setup" /\ q' = q /\ q = "off" /\ nb' \in {"launch", "guard"}
           \/ nb = "launch" /\ nb' \in {"wait", "guard"}
           \/ nb' \notin {"setup", "launch"} /\ q' \in {q, "off"}
        /\ nb = "guard" => nb' = "idle"
    BY <1>0, <1>3 DEF Setup, Launch, WaitSlice, GiveUp, Recorded, FinalRecord, DrainSummary,
        CatchUp, Kill, ReadProgress, PlanShape
  <2>2. RowShape'
    BY <2>1 DEF RowShape, RowFits, Live, InBatch
  <2>. QED BY <2>1, <2>2 DEF RowsOnce
<1>4. CASE RecordReport
  <2>1. /\ nb = "record" /\ UNCHANGED <<attempt, planned, committed>> /\ q' \in {q, "off"}
    BY <1>4 DEF RecordReport
  <2>2. PICK b \in todo :
          \E src \in {relay[b]} \union (IF RelayFails THEN {0} ELSE {}) :
            /\ AppendFailure(SummaryRow(attempt, b, src))
            /\ (last' = b /\ nb' = "record") \/ (last' = last /\ nb' = "guard")
    BY <1>4 DEF RecordReport, AppendFailure
  <2>3. PICK src, row :
          /\ row = SummaryRow(attempt, b, src) /\ AppendFailure(row)
          /\ (last' = b /\ nb' = "record") \/ (last' = last /\ nb' = "guard")
    BY <2>2
  <2>4. b > last /\ b \in Nat
    BY <1>0, <1>a DEF ReportShape, TypeOK
  <2>5. RowShape'
    <3>1. \A r \in log : RowFits(r)'
      BY <1>a, <2>1, <2>3, <2>4 DEF RowShape, RowFits, Live, InBatch
    <3>2. RowFits(row)'
      BY <1>a, <2>1, <2>3, <2>4, RowKeys DEF RowFits
    <3>. QED BY <2>3, <3>1, <3>2, NewRowKeepsRowShape
  <2>6. RowsOnce'
    <3>1. \A r \in log : r.type = "batch_summary" /\ r.attempt = attempt => r.batch # b
      BY <1>a, <2>1, <2>4 DEF RowShape, RowFits
    <3>. QED BY <2>3, <3>1, RowKeys, NewRowKeepsRowsOnce
  <2>. QED BY <2>5, <2>6
<1>5. CASE RunEnd
  <2>0. PICK row : row = EndRow
    OBVIOUS
  <2>1. /\ AppendFailure(row) /\ nb = "end" /\ UNCHANGED <<attempt, planned, committed, last>>
        /\ q' \in {q, "off"} /\ (nb' = "idle" \/ (nb' = "guard" /\ (row \in log' =>
              row \in log \/ AckLoss)))
    BY <1>5, <2>0 DEF RunEnd, Exit, AppendFailure, AppendRaised, Persist
  <2>2. row.type = "run_end" /\ row.attempt = attempt /\ row.batch = 0
    BY <2>0, RowKeys DEF EndRow
  <2>3. \A r \in log : r.type = "run_end" /\ r.attempt = attempt => AckLoss
    BY <2>1 DEF RowShape, RowFits
  <2>4. RowShape'
    <3>1. \A r \in log : RowFits(r)'
      BY <2>1 DEF RowShape, RowFits, Live, InBatch
    <3>2. row \in log' => RowFits(row)'
      BY <1>a, <2>1, <2>2, <2>3 DEF RowFits
    <3>. QED BY <2>1, <3>1, <3>2, NewRowKeepsRowShape
  <2>. QED BY <2>1, <2>2, <2>3, <2>4, NewRowKeepsRowsOnce
<1>6. CASE Guard
  <2>0. PICK row : row = RunEndRow(attempt, "error", {})
    OBVIOUS
  <2>1. /\ AppendFailure(row) /\ nb = "guard" /\ UNCHANGED <<attempt, planned, committed, last>>
        /\ q' = "off" /\ nb' = "idle"
    BY <1>6, <2>0 DEF Guard, Exit
  <2>2. row.type = "run_end" /\ row.attempt = attempt /\ row.batch = 0
    BY <2>0, RowKeys
  <2>3. \A r \in log : r.type = "run_end" /\ r.attempt = attempt => AckLoss
    BY <2>1 DEF RowShape, RowFits
  <2>4. RowShape'
    <3>1. \A r \in log : RowFits(r)'
      BY <2>1 DEF RowShape, RowFits, Live, InBatch
    <3>2. RowFits(row)'
      BY <1>a, <2>1, <2>2 DEF RowFits, Live, InBatch
    <3>. QED BY <2>1, <3>1, <3>2, NewRowKeepsRowShape
  <2>. QED BY <2>1, <2>2, <2>3, <2>4, NewRowKeepsRowsOnce
<1>. QED BY <1>1, <1>2, <1>3, <1>4, <1>5, <1>6 DEF Notebook

(* The query announces and ends a batch once, and the attempt commits it    *)
(* before it takes up the next.                                             *)
LEMMA QueryKeepsRows ==
  ASSUME ExportInv, RowShape, RowsOnce, Query \/ Publish \/ LoseReport
  PROVE  RowShape' /\ RowsOnce'
<1>. USE DEF notebook, checkpoint, spark, dirs, table, es, QueryStep
<1>0. TypeOK /\ PlanShape
  BY DEF ExportInv
<1>a. /\ attempt \in Nat /\ committed \in Nat /\ planned \in Nat
      /\ \A r \in log : r.batch \in Nat
      /\ q \in InBatch => planned = committed + 1
  BY <1>0 DEF TypeOK, Batches, Rows, PlanShape
<1>b. UNCHANGED <<attempt, nb, last>> /\ (q # "off" => nb \notin {"start", "setup", "launch"})
  BY <1>0 DEF PlanShape, Query, NextBatch, QueryEnds, QueryFails, Transform, Announce, Send,
      Write, WriteMetrics, BatchError, BatchEnd, WriteRelay, Commit, Publish, LoseReport
<1>1. CASE Announce
  <2>0. PICK row : row = BatchStartRow(attempt, planned)
    OBVIOUS
  <2>1. /\ AppendFailure(row) /\ q = "announce" /\ q' \in {"write", "failed"}
        /\ UNCHANGED <<planned, committed>>
    BY <1>1, <2>0 DEF Announce, AppendFailure
  <2>2. row.type = "batch_start" /\ row.attempt = attempt /\ row.batch = planned
    BY <2>0, RowKeys
  <2>3. \A r \in log : r.type = "batch_start" /\ r.attempt = attempt => r.batch # planned
    BY <1>a, <2>1 DEF RowShape, RowFits, InBatch
  <2>4. RowShape'
    <3>1. \A r \in log : RowFits(r)'
      BY <1>b, <2>1 DEF RowShape, RowFits, Live, InBatch
    <3>2. RowFits(row)'
      BY <1>a, <1>b, <2>1, <2>2 DEF RowFits
    <3>. QED BY <2>1, <3>1, <3>2, NewRowKeepsRowShape
  <2>. QED BY <2>1, <2>2, <2>3, <2>4, NewRowKeepsRowsOnce
<1>2. CASE BatchError \/ BatchEnd
  <2>1. PICK s, row :
          /\ s \in {"success", "error"} /\ row = BatchEndRow(attempt, planned, s) /\ AppendFailure(row)
          /\ q \in {"error", "batchEnd"} /\ q' \in {"relay", "failed"} /\ UNCHANGED <<planned, committed>>
    BY <1>2 DEF BatchError, BatchEnd, AppendFailure
  <2>2. row.type = "batch_end" /\ row.attempt = attempt /\ row.batch = planned
    BY <2>1, RowKeys
  <2>3. \A r \in log : r.type = "batch_end" /\ r.attempt = attempt => r.batch # planned
    BY <1>a, <2>1 DEF RowShape, RowFits, InBatch, Live
  <2>4. RowShape'
    <3>1. \A r \in log : RowFits(r)'
      BY <1>b, <2>1 DEF RowShape, RowFits, Live, InBatch
    <3>2. RowFits(row)'
      BY <1>a, <1>b, <2>1, <2>2 DEF RowFits, Live, InBatch
    <3>. QED BY <2>1, <3>1, <3>2, NewRowKeepsRowShape
  <2>. QED BY <2>1, <2>2, <2>3, <2>4, NewRowKeepsRowsOnce
<1>3. CASE Commit
  <2>1. /\ committed' = planned /\ UNCHANGED <<planned, log, repeated>>
        /\ q = "commit" /\ q' = "between"
    BY <1>3 DEF Commit
  <2>. QED BY <1>b, <2>1 DEF RowShape, RowFits, RowsOnce
<1>4. CASE NextBatch \/ QueryEnds \/ QueryFails \/ Transform \/ Send \/ Write \/ WriteMetrics
             \/ WriteRelay \/ Publish \/ LoseReport
  <2>1. /\ UNCHANGED <<committed, log, repeated>> /\ planned' \in {planned, committed + 1}
        /\ q' \in {"between", "transform", "announce"} =>
             q \in {"between", "transform", "announce"}
        /\ q' \in Live \ {"relay", "commit"} => q \in Live \ {"relay", "commit"}
    BY <1>4 DEF NextBatch, QueryEnds, QueryFails, Transform, Send, Write, WriteMetrics,
        WriteRelay, Publish, LoseReport, Live, InBatch
  <2>2. planned' >= planned /\ planned' \in Nat
    BY <1>0, <1>a, <2>1 DEF PlanShape
  <2>. QED BY <1>a, <1>b, <2>1, <2>2 DEF RowShape, RowFits, RowsOnce
<1>. QED BY <1>1, <1>2, <1>3, <1>4 DEF Query

(* A step that appends no batch_summary keeps the summaries fresh: a batch  *)
(* once committed stays its attempt's.                                      *)
LEMMA OldSummariesStayFresh ==
  ASSUME ExportInv, SummaryIsFresh, Next,
         \A r \in log' : r.type = "batch_summary" => r \in log
  PROVE  SummaryIsFresh'
<1>0. TypeOK /\ PlanShape
  BY DEF ExportInv
<1>1. CASE Commit
  <2>1. /\ doneBy' = [doneBy EXCEPT ![planned] = attempt] /\ q = "commit"
    BY <1>1 DEF Commit
  <2>2. planned \in Batches /\ doneBy[planned] = 0
    BY <1>0, <2>1 DEF PlanShape, TypeOK, InBatch, Batches
  <2>3. \A r \in log : r.type = "batch_summary" => r.attempt # 0 /\ r.batch # planned
    BY <1>0, <2>2 DEF TypeOK, Rows, Attempts, SummaryIsFresh
  <2>4. \A b : b # planned => doneBy'[b] = doneBy[b]
    BY <1>0, <2>1 DEF TypeOK
  <2>. QED BY <2>3, <2>4 DEF SummaryIsFresh
<1>2. CASE ~Commit
  <2>1. doneBy' = doneBy
    BY <1>2 DEF Next, Notebook, Query, StartAttempt, RunStart, Setup, Launch, WaitSlice,
        GiveUp, RecordReport, Recorded, FinalRecord, DrainSummary, CatchUp, RunEnd, Guard,
        Kill, NextBatch, QueryEnds, QueryFails, Transform, Announce, Send, Write,
        WriteMetrics, BatchError, BatchEnd, WriteRelay, Publish, LoseReport, NoMoreAttempts,
        vars, checkpoint, QueryStep
  <2>. QED BY <2>1 DEF SummaryIsFresh
<1>. QED BY <1>1, <1>2

(* The recorder writes a batch's summary when it passes it, from what the   *)
(* same attempt relayed.                                                    *)
LEMMA StepKeepsSummaries ==
  ASSUME ExportInv, ReportShape, RelayShape, SummaryIsFresh, NoReportSkipped, Next
  PROVE  SummaryIsFresh' /\ NoReportSkipped'
<1>. USE DEF notebook, checkpoint, spark, dirs, table, es, QueryStep
<1>0. TypeOK /\ PlanShape
  BY DEF ExportInv
<1>a. todo \subseteq Batches /\ reports \subseteq Batches /\ last \in Nat /\ Batches \subseteq Nat
      /\ pending \subseteq Batches
  BY <1>0 DEF TypeOK, Batches
<1>1. CASE RecordReport
  <2>1. /\ nb = "record" /\ UNCHANGED <<attempt, doneBy, reports>>
    BY <1>1 DEF RecordReport
  <2>2. PICK b \in todo :
          \E src \in {relay[b]} \union (IF RelayFails THEN {0} ELSE {}) :
            /\ IsNext(b)
            /\ AppendFailure(SummaryRow(attempt, b, src))
            /\ \/ last' = b /\ Appended(SummaryRow(attempt, b, src))
               \/ last' = last
    BY <1>1 DEF RecordReport, AppendFailure
  <2>3. PICK src, row :
          /\ src \in {0, relay[b]} /\ row = SummaryRow(attempt, b, src) /\ IsNext(b) /\ AppendFailure(row)
          /\ (last' = b /\ Appended(row)) \/ last' = last
    BY <2>2
  <2>4. /\ row.type = "batch_summary" /\ row.attempt = attempt /\ row.batch = b
        /\ row.source = src
    BY <2>3, RowKeys
  <2>5. log \subseteq log' /\ log' \subseteq log \union {row}
        /\ (last' = b => row \in log' \/ last' = last)
    BY <2>3 DEF AppendFailure, Appended, AppendRaised, Persist
  <2>6. SummaryIsFresh'
    <3>1. b \in Batches /\ doneBy[b] = attempt /\ b > last
      BY <1>a DEF ReportShape, Done
    <3>2. src \in {0, attempt}
      BY <2>1, <2>3, <3>1 DEF RelayShape
    <3>. QED BY <2>1, <2>4, <2>5, <3>1, <3>2 DEF SummaryIsFresh
  <2>7. NoReportSkipped'
    <3>. SUFFICES ASSUME NEW c \in reports, c <= last'
         PROVE  \E r \in log' : r.type = "batch_summary" /\ r.attempt = attempt /\ r.batch = c
      BY <2>1 DEF NoReportSkipped
    <3>1. CASE c <= last
      BY <2>1, <2>5, <3>1 DEF NoReportSkipped
    <3>2. CASE ~(c <= last)
      <4>1. last' = b /\ row \in log' /\ c > last
        BY <1>a, <2>3, <2>5, <3>2
      <4>2. c \in todo \/ c > b
        BY <2>1, <4>1 DEF ReportShape
      <4>3. b \in Nat /\ c \in Nat /\ c <= b
        BY <1>a, <4>1
      <4>4. c \in todo => b <= c
        BY <2>3 DEF IsNext
      <4>5. c = b
        BY <4>2, <4>3, <4>4
      <4>. QED BY <2>4, <4>1, <4>5
    <3>. QED BY <3>1, <3>2
  <2>. QED BY <2>6, <2>7
<1>2. CASE ~RecordReport
  <2>1. log \subseteq log' /\ (\A r \in log' : r.type = "batch_summary" => r \in log)
    <3>1. CASE RunStart
      BY <3>1, RowKeys DEF RunStart, Appended, AppendRaised, Persist
    <3>2. CASE RunEnd
      BY <3>2, RowKeys DEF RunEnd, EndRow, Appended, AppendRaised, Persist
    <3>3. CASE Guard
      BY <3>3, RowKeys DEF Guard, AppendFailure, Appended, AppendRaised, Persist
    <3>4. CASE Announce
      BY <3>4, RowKeys DEF Announce, Appended, AppendRaised, Persist
    <3>5. CASE BatchError \/ BatchEnd
      BY <3>5, RowKeys DEF BatchError, BatchEnd, AppendFailure, Appended, AppendRaised,
          Persist
    <3>6. CASE UNCHANGED log
      BY <3>6
    <3>. QED BY <1>2, <3>1, <3>2, <3>3, <3>4, <3>5, <3>6 DEF Next, Notebook, Query,
        StartAttempt, Setup, Launch, WaitSlice, GiveUp, Recorded, FinalRecord, DrainSummary,
        CatchUp, Kill, NextBatch, QueryEnds, QueryFails, Transform, Send, Write,
        WriteMetrics, WriteRelay, Commit, Publish, LoseReport, NoMoreAttempts, vars
  <2>2. SummaryIsFresh'
    BY <2>1, OldSummariesStayFresh
  <2>3. NoReportSkipped'
    <3>1. CASE StartAttempt
      BY <3>1 DEF StartAttempt, NoReportSkipped
    <3>2. CASE Publish
      <4>1. PICK b \in pending : reports' = reports \union {b}
        BY <3>2 DEF Publish
      <4>2. UNCHANGED <<nb, attempt, last>>
        BY <3>2 DEF Publish
      <4>3. b > last
        BY DEF ReportShape
      <4>4. \A c \in reports' : c <= last => c \in reports
        BY <1>a, <4>1, <4>3
      <4>. QED BY <2>1, <4>2, <4>4 DEF NoReportSkipped
    <3>3. CASE ~StartAttempt /\ ~Publish
      <4>1. /\ reports' \subseteq reports /\ UNCHANGED <<attempt, last>>
            /\ nb' # "idle" => nb # "idle"
        BY <1>2, <3>3 DEF Next, Notebook, Query, RunStart, Setup, Launch, WaitSlice,
            GiveUp, Recorded, FinalRecord, DrainSummary, CatchUp, RunEnd, Guard, Kill,
            NextBatch, QueryEnds, QueryFails, Transform, Announce, Send, Write,
            WriteMetrics, BatchError, BatchEnd, WriteRelay, Commit, LoseReport,
            NoMoreAttempts, vars
      <4>. QED BY <2>1, <4>1 DEF NoReportSkipped
    <3>. QED BY <3>1, <3>2, <3>3
  <2>. QED BY <2>2, <2>3
<1>. QED BY <1>1, <1>2

(* At first there is no report, no relay and no row.                        *)
LEMMA InitRecorderInv == Init => RecorderInv
<1>1. Init => ReportShape /\ RelayShape /\ RowShape /\ RowsOnce /\ SummaryIsFresh
              /\ NoReportSkipped /\ RelaysPruned
  BY DEF Init, ReportShape, RelayShape, RowShape, RowsOnce, SummaryIsFresh, NoReportSkipped,
      RelaysPruned
<1>. QED BY <1>1, InitExportInv DEF RecorderInv

(* All steps of both processes together.                                    *)
LEMMA StepKeepsRecorderInv == RecorderInv /\ [Next]_vars => RecorderInv'
<1>. SUFFICES ASSUME RecorderInv, [Next]_vars PROVE RecorderInv'
  OBVIOUS
<1>1. ExportInv /\ ExportInv'
  BY StepKeepsExportInv DEF RecorderInv
<1>2. CASE UNCHANGED vars
  <2>1. ReportShape' /\ RelayShape' /\ RowShape'
    BY <1>2 DEF vars, RecorderInv, ReportShape, RelayShape, RowShape, RowFits, Done
  <2>2. RowsOnce' /\ SummaryIsFresh' /\ NoReportSkipped' /\ RelaysPruned'
    BY <1>2 DEF vars, RecorderInv, RowsOnce, SummaryIsFresh, NoReportSkipped, RelaysPruned
  <2>. QED BY <1>1, <2>1, <2>2 DEF RecorderInv
<1>3. CASE Next
  <2>1. ReportShape' /\ RelayShape' /\ RelaysPruned' /\ SummaryIsFresh' /\ NoReportSkipped'
    BY <1>1, <1>3, StepKeepsReportShape, StepKeepsRelays, StepKeepsSummaries DEF RecorderInv
  <2>2. RowShape' /\ RowsOnce'
    BY <1>1, <1>2, <1>3, NotebookKeepsRows, QueryKeepsRows
      DEF RecorderInv, Next, NoMoreAttempts
  <2>. QED BY <1>1, <2>1, <2>2 DEF RecorderInv
<1>. QED BY <1>2, <1>3

(* The invariant of the recorder holds in every reachable state.            *)
THEOREM RecorderInvariant == Spec => []RecorderInv
BY InitRecorderInv, StepKeepsRecorderInv, PTL DEF Spec

(* No retry, replay or second recorder call writes a kind of row twice for  *)
(* one attempt and batch; only a run_end whose acknowledgement was lost is  *)
(* followed by the guard's.                                                 *)
THEOREM RowsAreWrittenOnce == Spec => []RowsOnce
<1>1. RecorderInv => RowsOnce
  BY DEF RecorderInv
<1>. QED BY <1>1, RecorderInvariant, PTL

(* Every batch_summary speaks of a batch its attempt committed and carries  *)
(* that attempt's own source read, or none.                                 *)
THEOREM SummariesAreFresh == Spec => []SummaryIsFresh
<1>1. RecorderInv => SummaryIsFresh
  BY DEF RecorderInv
<1>. QED BY <1>1, RecorderInvariant, PTL

(* The recorder's mark passes no report that is still there to be recorded. *)
THEOREM NoReportIsSkipped == Spec => []NoReportSkipped
<1>1. RecorderInv => NoReportSkipped
  BY DEF RecorderInv
<1>. QED BY <1>1, RecorderInvariant, PTL

(* However many reports are lost, the relays behind the mark are gone but   *)
(* for those whose delete failed.                                           *)
THEOREM RelaysArePruned == Spec => []RelaysPruned
<1>1. RecorderInv => RelaysPruned
  BY DEF RecorderInv
<1>. QED BY <1>1, RecorderInvariant, PTL

-----------------------------------------------------------------------------
(* The refinement. *)

(* Planning the first batch begins the feed, a commit advances it, and rows *)
(* are sent for the batch at its position.                                  *)
LEMMA StepImplementsFeed ==
  ASSUME ExportInv, [Next]_vars
  PROVE  [D!Next]_(D!vars)
<1>. USE DEF ExportInv, notebook, checkpoint, spark, dirs, table, es, QueryStep
<1>. DEFINE Pos == IF planned = 0 THEN 0 ELSE committed + 1
<1>. SUFFICES D!Next \/ UNCHANGED <<sent, Pos>>
  BY DEF D!vars
<1>1. CASE NextBatch
  <2>1. UNCHANGED <<sent, committed>> /\ planned' = committed + 1
    BY <1>1 DEF NextBatch
  <2>2. committed \in Nat /\ planned \in Nat /\ NumBatches \in Nat
    BY DEF TypeOK
  <2>3. CASE planned = 0
    <3>1. committed = 0
      BY <2>2, <2>3 DEF PlanShape
    <3>2. Pos = 0 /\ Pos' = 1
      BY <2>1, <2>3, <3>1
    <3>3. D!Begin
      BY <2>1, <2>2, <3>2 DEF D!Begin, Pos
    <3>. QED BY <3>3 DEF D!Next
  <2>4. CASE planned # 0
    BY <2>1, <2>2, <2>4
  <2>. QED BY <2>3, <2>4
<1>2. CASE Send \/ Write
  <2>1. q \in InBatch
    BY <1>2 DEF Send, Write, InBatch
  <2>2. planned \in Batches /\ UNCHANGED <<planned, committed>>
    BY <1>2, <2>1 DEF Send, Write, PlanShape, TypeOK, Batches
  <2>3. sent' = sent \/ sent' = sent \union {planned}
    BY <1>2 DEF Send, Write
  <2>. QED BY <2>2, <2>3 DEF D!Next, D!Send
<1>3. CASE Commit
  <2>1. /\ planned \in Batches /\ planned = committed + 1 /\ planned \in sent
        /\ UNCHANGED <<sent, planned>> /\ committed' = planned
    BY <1>3 DEF Commit, PlanShape, BatchProgress, TypeOK, InBatch, Batches
  <2>2. committed \in Nat /\ planned \in 1..NumBatches /\ NumBatches \in Nat
    BY <2>1 DEF TypeOK, Batches
  <2>3. Pos = planned /\ Pos' = planned + 1
    BY <2>1, <2>2
  <2>4. Pos # 0 /\ Pos' \in (Pos + 1)..(NumBatches + 1)
    BY <2>2, <2>3
  <2>5. \A v \in Batches : Pos <= v /\ v < Pos' => v \in sent
    BY <2>1, <2>2, <2>3 DEF Batches
  <2>6. D!Advance
    BY <2>1, <2>4, <2>5 DEF D!Advance, Pos
  <2>. QED BY <2>6 DEF D!Next
<1>4. CASE UNCHANGED vars
  BY <1>4 DEF vars
<1>5. CASE Notebook \/ Kill \/ Publish \/ LoseReport
  BY <1>5 DEF Notebook, StartAttempt, RunStart, Setup, Launch, WaitSlice, GiveUp,
      RecordReport, Recorded, FinalRecord, DrainSummary, CatchUp, RunEnd, Guard, Kill,
      Publish, LoseReport
<1>6. CASE QueryEnds \/ QueryFails \/ Transform \/ Announce \/ WriteMetrics \/ BatchError
             \/ BatchEnd \/ WriteRelay
  BY <1>6 DEF QueryEnds, QueryFails, Transform, Announce, WriteMetrics, BatchError,
      BatchEnd, WriteRelay
<1>. QED BY <1>1, <1>2, <1>3, <1>4, <1>5, <1>6 DEF Next, Query, NoMoreAttempts

(* Every history of attempts, failures and kills is one at-least-once feed  *)
(* of the backlog.                                                          *)
THEOREM ExportImplementsDelivery == Spec => ImplementsDelivery
<1>1. Init => D!Init
  BY DEF Init, D!Init, Batches
<1>2. ExportInv /\ [Next]_vars => [D!Next]_(D!vars)
  BY StepImplementsFeed
<1>. QED BY <1>1, <1>2, ExportInvariant, PTL DEF Spec, ImplementsDelivery, D!Spec
=============================================================================
