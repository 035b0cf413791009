--------------------------- MODULE StreamStartProofs ---------------------------
(***************************************************************************)
(* Proofs about StreamStart, for every history length and fault budget:    *)
(* the inductive invariant StartInv, that no un-exported backlog is        *)
(* skipped, and that the stream implements the at-least-once feed of       *)
(* Delivery.                                                               *)
(***************************************************************************)
EXTENDS StreamStart, TLAPS

USE StartAssumption

(* An appended version is beyond the newest batch, so the rows of the batch *)
(* do not change under it.                                                  *)
LEMMA AppendKeepsStartInv ==
  ASSUME StartInv, Append
  PROVE  StartInv'
<1>. USE DEF StartInv, Append, source, checkpoint, history
<1>1. TypeOK'
  BY DEF TypeOK, Versions
<1>2. CheckpointShape' /\ StartShape' /\ SeedIsFirst'
  BY DEF TypeOK, Versions, CheckpointShape, StartShape, SeedIsFirst, Position
<1>3. upto <= head + 1 /\ head \in Nat /\ upto \in Nat
  BY DEF TypeOK, Versions, CheckpointShape
<1>4. BatchIsWritten'
  BY <1>3 DEF TypeOK, BatchIsWritten, Rows, Versions
<1>5. Position \in Nat /\ Position <= head + 1
  BY <1>3 DEF TypeOK, Versions, CheckpointShape, Position
<1>6. NothingSkipped'
  <2>. SUFFICES ASSUME origin # 0, NEW v \in data', origin <= v, v < Position
       PROVE  v \in sent
    BY DEF NothingSkipped, Position
  <2>1. v # head + 1
    BY <1>3, <1>5
  <2>2. v \in data
    BY <2>1
  <2>. QED BY <2>2 DEF NothingSkipped, Position
<1>. QED BY <1>1, <1>2, <1>4, <1>6

(* The notebook's own steps: none but the launch of the main query moves a  *)
(* mark the invariant relates, and that one begins at the offset it finds.  *)
LEMMA NotebookKeepsStartInv ==
  ASSUME StartInv,
         StartRun \/ Classify \/ ResolveSeed \/ ResolvePin \/ LaunchSeed \/ SeedEnd
           \/ Verify \/ Launch \/ MainEnd
  PROVE  StartInv'
<1>. USE DEF StartInv, source, checkpoint, history
<1>1. CASE StartRun
  BY <1>1 DEF StartRun, TypeOK, Versions, CheckpointShape, StartShape, SeedIsFirst,
      BatchIsWritten, NothingSkipped, Position, Rows
<1>2. CASE Classify
  <2>1. /\ pc = "classify"
        /\ pc' \in {"launch", "resolveSeed", "resolvePin"}
        /\ pc' = "resolveSeed" => upto = 0
    BY <1>2 DEF Classify, Answers
  <2>. QED BY <1>2, <2>1 DEF Classify, TypeOK, Versions, CheckpointShape, StartShape,
      SeedIsFirst, BatchIsWritten, NothingSkipped, Position, Rows
<1>3. CASE ResolveSeed
  BY <1>3 DEF ResolveSeed, TypeOK, Versions, CheckpointShape, StartShape, SeedIsFirst,
      BatchIsWritten, NothingSkipped, Position, Rows
<1>4. CASE ResolvePin
  BY <1>4 DEF ResolvePin, TypeOK, Versions, CheckpointShape, StartShape, SeedIsFirst,
      BatchIsWritten, NothingSkipped, Position, Rows
<1>5. CASE LaunchSeed
  BY <1>5 DEF LaunchSeed, TypeOK, Versions, CheckpointShape, StartShape, SeedIsFirst,
      BatchIsWritten, NothingSkipped, Position, Rows
<1>6. CASE SeedEnd
  BY <1>6 DEF SeedEnd, TypeOK, Versions, CheckpointShape, StartShape, SeedIsFirst,
      BatchIsWritten, NothingSkipped, Position, Rows
<1>7. CASE Verify
  BY <1>7 DEF Verify, Answers, TypeOK, Versions, CheckpointShape, StartShape, SeedIsFirst,
      BatchIsWritten, NothingSkipped, Position, Rows
<1>8. CASE Launch
  <2>. USE <1>8 DEF Launch
  <2>1. TypeOK'
    BY DEF TypeOK, Versions, Position
  <2>2. CheckpointShape' /\ StartShape'
    BY DEF TypeOK, Versions, CheckpointShape, StartShape
  <2>3. SeedIsFirst'
    BY DEF TypeOK, Versions, CheckpointShape, SeedIsFirst, Position
  <2>4. BatchIsWritten'
    BY DEF TypeOK, BatchIsWritten, Rows, CheckpointShape
  <2>5. NothingSkipped'
    BY DEF TypeOK, Versions, NothingSkipped, Position
  <2>. QED BY <2>1, <2>2, <2>3, <2>4, <2>5
<1>9. CASE MainEnd
  BY <1>9 DEF MainEnd, TypeOK, Versions, CheckpointShape, StartShape, SeedIsFirst,
      BatchIsWritten, NothingSkipped, Position, Rows
<1>. QED BY <1>1, <1>2, <1>3, <1>4, <1>5, <1>6, <1>7, <1>8, <1>9

(* Planning a batch leaves the position where it was, or begins the stream  *)
(* there.                                                                   *)
LEMMA PlanKeepsStartInv ==
  ASSUME StartInv, Plan
  PROVE  StartInv'
<1>. USE DEF StartInv, Plan, source, checkpoint, history
<1>1. /\ committed /\ NextFrom \in 1..(MaxVersion + 1) /\ Horizon <= head
      /\ Horizon \in Nat /\ head \in 1..MaxVersion
  BY DEF TypeOK, Versions, CheckpointShape, StartShape, NextFrom, Horizon
<1>2. /\ from' = NextFrom /\ from' \in Nat /\ 1 <= from'
      /\ upto' \in Nat /\ from' < upto' /\ upto' <= head + 1
  BY <1>1
<1>3. upto = 0 => NextFrom <= MaxVersion
  BY DEF TypeOK, NextFrom
<1>4. TypeOK'
  <2>1. launch' \in 0..MaxVersion
    BY <1>1, <1>3 DEF TypeOK, Versions
  <2>2. from' \in 0..(MaxVersion + 1) /\ upto' \in 0..(MaxVersion + 1)
    BY <1>1, <1>2
  <2>3. origin' \in 0..(MaxVersion + 1)
    BY <1>1 DEF TypeOK
  <2>. QED BY <2>1, <2>2, <2>3 DEF TypeOK
<1>5. CheckpointShape'
  BY <1>2 DEF CheckpointShape
<1>6. StartShape'
  BY DEF StartShape
<1>7. Position' = NextFrom
  BY <1>2 DEF Position
<1>8. SeedIsFirst'
  BY <1>1, <1>2, <1>7 DEF TypeOK, Versions, SeedIsFirst, Position, NextFrom
<1>9. BatchIsWritten'
  BY DEF BatchIsWritten
<1>10. NothingSkipped'
  <2>. SUFFICES ASSUME origin' # 0, NEW v \in data, origin' <= v, v < NextFrom
       PROVE  v \in sent
    BY <1>7 DEF NothingSkipped
  <2>1. origin # 0
    BY <1>1 DEF TypeOK, Versions
  <2>2. upto # 0 /\ NextFrom = Position
    BY <1>1, <2>1 DEF SeedIsFirst, NextFrom, Position
  <2>. QED BY <2>1, <2>2 DEF NothingSkipped
<1>. QED BY <1>4, <1>5, <1>6, <1>8, <1>9, <1>10

(* A batch commits only after it has run, and in the main query that means  *)
(* that its rows are written.                                               *)
LEMMA CommitKeepsStartInv ==
  ASSUME StartInv, Commit
  PROVE  StartInv'
<1>. USE DEF StartInv, Commit, source, checkpoint, history
<1>1. pc \in {"seed", "main"} /\ ~committed /\ upto # 0
  BY DEF CheckpointShape, TypeOK
<1>2. from \in Nat /\ upto \in Nat /\ from < upto /\ Position = from /\ Position' = upto
  BY <1>1 DEF TypeOK, CheckpointShape, Position
<1>3. TypeOK' /\ CheckpointShape' /\ StartShape' /\ BatchIsWritten'
  BY <1>1 DEF TypeOK, CheckpointShape, StartShape, BatchIsWritten
<1>4. SeedIsFirst'
  BY <1>1, <1>2 DEF TypeOK, SeedIsFirst
<1>5. NothingSkipped'
  <2>. SUFFICES ASSUME origin # 0, NEW v \in data, origin <= v, v < upto
       PROVE  v \in sent
    BY <1>2 DEF NothingSkipped
  <2>0. v \in Nat
    BY DEF TypeOK, Versions
  <2>1. CASE v < from
    BY <2>1, <1>2 DEF NothingSkipped
  <2>2. CASE ~(v < from)
    <3>1. pc = "main"
      BY <1>1 DEF SeedIsFirst
    <3>2. v \in Rows(from, upto)
      BY <2>0, <2>2, <1>2 DEF Rows
    <3>. QED BY <3>1, <3>2 DEF BatchIsWritten
  <2>. QED BY <2>1, <2>2
<1>. QED BY <1>3, <1>4, <1>5

(* The other steps of a query, the end of a run and the operator.           *)
LEMMA QueryKeepsStartInv ==
  ASSUME StartInv, SeedRan \/ Send \/ BatchRan \/ Fault \/ ClearCheckpoint
  PROVE  StartInv'
<1>. USE DEF StartInv, source, checkpoint, history
<1>1. CASE SeedRan
  BY <1>1 DEF SeedRan, TypeOK, Versions, CheckpointShape, StartShape, SeedIsFirst,
      BatchIsWritten, NothingSkipped, Position, Rows
<1>2. CASE Send
  <2>1. PICK v \in Rows(from, upto) \ written :
          written' = written \union {v} /\ sent' = sent \union {v}
    BY <1>2 DEF Send
  <2>2. v \in Versions
    BY DEF Rows, TypeOK, Versions
  <2>3. TypeOK'
    BY <1>2, <2>1, <2>2 DEF Send, TypeOK
  <2>4. CheckpointShape' /\ StartShape' /\ SeedIsFirst'
    BY <1>2 DEF Send, CheckpointShape, StartShape, SeedIsFirst, Position
  <2>5. BatchIsWritten' /\ NothingSkipped'
    BY <1>2, <2>1 DEF Send, BatchIsWritten, NothingSkipped, Position
  <2>. QED BY <2>3, <2>4, <2>5
<1>3. CASE BatchRan
  BY <1>3 DEF BatchRan, TypeOK, Versions, CheckpointShape, StartShape, SeedIsFirst,
      BatchIsWritten, NothingSkipped, Position, Rows
<1>4. CASE Fault
  BY <1>4 DEF Fault, TypeOK, Versions, CheckpointShape, StartShape, SeedIsFirst,
      BatchIsWritten, NothingSkipped, Position, Rows
<1>5. CASE ClearCheckpoint
  BY <1>5 DEF ClearCheckpoint, TypeOK, Versions, CheckpointShape, StartShape, SeedIsFirst,
      BatchIsWritten, NothingSkipped, Position, Rows
<1>. QED BY <1>1, <1>2, <1>3, <1>4, <1>5

(* All steps together. *)
LEMMA StepKeepsStartInv ==
  ASSUME StartInv, [Next]_vars
  PROVE  StartInv'
<1>1. CASE UNCHANGED vars
  BY <1>1 DEF vars, StartInv, TypeOK, Versions, CheckpointShape, StartShape, SeedIsFirst,
      BatchIsWritten, NothingSkipped, Position, Rows
<1>2. CASE Next
  BY <1>1, <1>2, AppendKeepsStartInv, NotebookKeepsStartInv, PlanKeepsStartInv,
      CommitKeepsStartInv, QueryKeepsStartInv DEF Next, Run, IdleTrigger
<1>. QED BY <1>1, <1>2

(* The first run finds no checkpoint and nothing sent. *)
LEMMA InitStartInv == Init => StartInv
<1>. SUFFICES ASSUME Init PROVE StartInv
  OBVIOUS
<1>1. TypeOK
  <2>1. committed \in BOOLEAN
    BY DEF Init
  <2>2. head = 1 /\ 1 \in Versions /\ data \subseteq 1..head
    BY DEF Init, Versions
  <2>3. /\ \A n \in {from, upto, current, pin, begin, limit, faults, origin, emptyRun,
                    launch, firstNow} : n = 0
        /\ written = {} /\ sent = {} /\ pc = "idle" /\ batch = "none"
    BY DEF Init
  <2>. QED BY <2>1, <2>2, <2>3 DEF TypeOK
<1>2. CheckpointShape /\ StartShape /\ SeedIsFirst /\ BatchIsWritten /\ NothingSkipped
  BY DEF Init, CheckpointShape, StartShape, SeedIsFirst, BatchIsWritten, NothingSkipped
<1>. QED BY <1>1, <1>2 DEF StartInv

(* The invariant of the checkpoint cell and the two queries holds in every  *)
(* reachable state.                                                         *)
THEOREM StartInvariant == Spec => []StartInv
<1>1. StartInv /\ [Next]_vars => StartInv'
  BY StepKeepsStartInv
<1>. QED BY <1>1, InitStartInv, PTL DEF Spec

(* No run, crash, misread listing or re-seed moves the stream past rows     *)
(* that are not in Elasticsearch, once it has begun.                        *)
THEOREM NoBacklogSkipped == Spec => []NothingSkipped
<1>1. StartInv => NothingSkipped
  BY DEF StartInv
<1>. QED BY <1>1, StartInvariant, PTL

-----------------------------------------------------------------------------
(* The start boundary. *)

(* A seed drains to where the source was at its launch and no further.      *)
SeedStopsAtLaunch ==
  pc = "seed" => limit = launch /\ (upto # 0 => upto <= launch + 1)

(* With it SkippedOnlyAtLaunch is inductive.                                *)
LaunchInv == StartInv /\ SeedStopsAtLaunch /\ SkippedOnlyAtLaunch

(* A seed's commit passes versions up to its launch, the main query's only  *)
(* versions that are sent; a first plan begins where nothing was launched.  *)
LEMMA StepKeepsLaunchInv ==
  ASSUME LaunchInv, [Next]_vars
  PROVE  SeedStopsAtLaunch' /\ SkippedOnlyAtLaunch'
<1>. USE DEF LaunchInv, source, checkpoint, history
<1>0. TypeOK /\ CheckpointShape /\ SeedIsFirst /\ BatchIsWritten
  BY DEF StartInv
<1>1. CASE Append
  <2>1. /\ data' \subseteq data \union {head + 1} /\ Position' = Position
        /\ UNCHANGED <<pc, limit, launch, upto, sent>>
    BY <1>1 DEF Append, Position
  <2>2. Position <= head + 1 /\ Position \in Nat /\ head \in Nat
    BY <1>0 DEF TypeOK, Versions, CheckpointShape, Position
  <2>. QED BY <2>1, <2>2 DEF SeedStopsAtLaunch, SkippedOnlyAtLaunch
<1>2. CASE LaunchSeed
  <2>1. upto = 0 /\ committed
    BY <1>0, <1>2 DEF LaunchSeed, SeedIsFirst, CheckpointShape
  <2>2. Position' = 0 /\ (\A v \in data : v \in Nat /\ v > 0)
    BY <1>0, <1>2, <2>1 DEF LaunchSeed, Position, TypeOK, Versions
  <2>. QED BY <1>0, <1>2, <2>1, <2>2
    DEF LaunchSeed, SeedStopsAtLaunch, SkippedOnlyAtLaunch
<1>3. CASE Plan
  <2>1. /\ committed /\ from' = NextFrom /\ Position' = NextFrom /\ upto' <= Horizon + 1
        /\ UNCHANGED <<pc, limit, data, sent>>
    BY <1>0, <1>3 DEF Plan, CheckpointShape, Position
  <2>2. SeedStopsAtLaunch'
    BY <1>3, <2>1 DEF Plan, Horizon, SeedStopsAtLaunch
  <2>3. SkippedOnlyAtLaunch'
    <3>. SUFFICES ASSUME NEW v \in data, v < NextFrom, v \notin sent
         PROVE  v <= launch'
      BY <2>1 DEF SkippedOnlyAtLaunch
    <3>1. v \in Nat
      BY <1>0 DEF TypeOK, Versions
    <3>2. CASE upto = 0
      <4>1. pc = "main" => launch' = NextFrom - 1
        BY <1>3, <3>2 DEF Plan
      <4>2. pc = "seed" => launch' = launch /\ NextFrom = begin
        BY <1>3, <3>2 DEF Plan, NextFrom
      <4>3. pc = "seed" => begin <= launch
        BY DEF StartInv, StartShape, SeedStopsAtLaunch
      <4>4. begin \in Nat /\ launch \in Nat /\ NextFrom \in Nat
        BY <1>0 DEF TypeOK, NextFrom
      <4>. QED BY <1>3, <3>1, <4>1, <4>2, <4>3, <4>4 DEF Plan
    <3>3. CASE upto # 0
      BY <1>3, <2>1, <3>3 DEF Plan, NextFrom, Position, SkippedOnlyAtLaunch
    <3>. QED BY <3>2, <3>3
  <2>. QED BY <2>2, <2>3
<1>4. CASE Commit
  <2>1. /\ ~committed /\ committed' = TRUE /\ batch = "ran" /\ upto # 0 /\ pc \in {"seed", "main"}
        /\ UNCHANGED <<pc, limit, launch, upto, data, sent>>
    BY <1>0, <1>4 DEF Commit, CheckpointShape, TypeOK
  <2>2. SeedStopsAtLaunch'
    BY <2>1 DEF SeedStopsAtLaunch
  <2>3. SkippedOnlyAtLaunch'
    <3>. SUFFICES ASSUME NEW v \in data, v < upto, v \notin sent
         PROVE  v <= launch
      BY <2>1 DEF SkippedOnlyAtLaunch, Position
    <3>1. v \in Nat /\ upto \in Nat /\ launch \in Nat /\ from \in Nat
      BY <1>0 DEF TypeOK, Versions
    <3>2. CASE pc = "seed"
      BY <2>1, <3>1, <3>2 DEF SeedStopsAtLaunch
    <3>3. CASE pc = "main"
      <4>1. v \notin Rows(from, upto)
        BY <1>0, <2>1, <3>3 DEF BatchIsWritten
      <4>2. v < from
        BY <3>1, <4>1 DEF Rows
      <4>. QED BY <2>1, <4>2 DEF SkippedOnlyAtLaunch, Position
    <3>. QED BY <2>1, <3>2, <3>3
  <2>. QED BY <2>2, <2>3
<1>5. CASE Send
  BY <1>5 DEF Send, SeedStopsAtLaunch, SkippedOnlyAtLaunch, Position
<1>6. CASE ClearCheckpoint
  <2>1. Position' = 0 /\ pc' # "seed" /\ UNCHANGED <<data, launch>>
    BY <1>6 DEF ClearCheckpoint, Position
  <2>2. \A v \in data : v \in Nat /\ v > 0
    BY <1>0 DEF TypeOK, Versions
  <2>. QED BY <2>1, <2>2 DEF SeedStopsAtLaunch, SkippedOnlyAtLaunch
<1>7. CASE StartRun \/ Classify \/ ResolveSeed \/ ResolvePin \/ SeedEnd \/ Verify \/ Launch
             \/ MainEnd \/ SeedRan \/ BatchRan \/ Fault \/ UNCHANGED vars
  <2>1. UNCHANGED <<launch, from, upto, committed, data, sent>>
    BY <1>7 DEF StartRun, Classify, ResolveSeed, ResolvePin, SeedEnd, Verify, Launch,
        MainEnd, SeedRan, BatchRan, Fault, vars
  <2>2. pc' # "seed" \/ UNCHANGED <<pc, limit>>
    <3>1. CASE Classify
      BY <3>1 DEF Classify, Answers
    <3>. QED BY <1>7, <3>1 DEF StartRun, ResolveSeed, ResolvePin, SeedEnd, Verify, Launch,
        MainEnd, SeedRan, BatchRan, Fault, vars
  <2>. QED BY <2>1, <2>2 DEF SeedStopsAtLaunch, SkippedOnlyAtLaunch, Position
<1>. QED BY <1>1, <1>2, <1>3, <1>4, <1>5, <1>6, <1>7 DEF Next, Run, IdleTrigger

(* What the stream has passed without sending was there when a seed was     *)
(* launched, or before the version a query was pinned to: commits that land *)
(* while a seed drains are never skipped.                                   *)
THEOREM OnlyLaunchIsSkipped == Spec => []SkippedOnlyAtLaunch
<1>1. Init /\ StartInv => LaunchInv
  BY DEF Init, LaunchInv, SeedStopsAtLaunch, SkippedOnlyAtLaunch, Position
<1>2. LaunchInv /\ StartInv' /\ [Next]_vars => LaunchInv'
  BY StepKeepsLaunchInv DEF LaunchInv
<1>3. LaunchInv => SkippedOnlyAtLaunch
  BY DEF LaunchInv
<1>. QED BY <1>1, <1>2, <1>3, StartInvariant, PTL DEF Spec

(* With streaming_start=new every query starts at a version the notebook    *)
(* looked up, or at an offset that such a query left.                       *)
NewStartShape ==
  StartModes = {"new"} =>
    /\ firstNow = 0 =>
         /\ upto = 0 /\ pin = 0 /\ sent = {}
         /\ pc \in {"idle", "classify", "resolveSeed", "resolvePin"}
    /\ pc \in {"launchSeed", "seed", "verify"} => firstNow <= current
    /\ pc = "seed" => firstNow <= begin
    /\ pin # 0 => firstNow <= pin
    /\ pc = "launch" /\ pin = 0 => upto # 0
    /\ pc = "main" /\ upto = 0 => firstNow <= begin
    /\ upto # 0 => firstNow <= from

(* With it HistoryNotSent is inductive.                                     *)
HistoryInv == StartInv /\ firstNow <= head /\ NewStartShape /\ HistoryNotSent

(* The notebook looks a version up before each start without an offset and  *)
(* pins the main query to it when it cannot see that the seed left one.     *)
LEMMA NotebookKeepsHistoryInv ==
  ASSUME HistoryInv,
         StartRun \/ Classify \/ ResolveSeed \/ ResolvePin \/ LaunchSeed \/ SeedEnd
           \/ Verify \/ Launch \/ MainEnd
  PROVE  (firstNow <= head)' /\ NewStartShape' /\ HistoryNotSent'
<1>. USE DEF HistoryInv, NewStartShape, HistoryNotSent, source, checkpoint, history
<1>0. /\ head \in Nat /\ firstNow \in Nat /\ current \in Nat /\ pin \in Nat /\ begin \in Nat
      /\ upto \in Nat /\ from \in Nat
  BY DEF StartInv, TypeOK, Versions
<1>1. CASE StartRun
  BY <1>1 DEF StartRun
<1>2. CASE Classify
  <2>1. /\ StartModes = {"new"} => pc' # "launch" \/ upto # 0
        /\ pc' \in {"launch", "resolveSeed", "resolvePin"}
        /\ UNCHANGED <<head, firstNow, upto, from, pin, sent>>
    BY <1>2 DEF Classify, Answers
  <2>. QED BY <2>1
<1>3. CASE ResolveSeed
  BY <1>0, <1>3 DEF ResolveSeed, StartInv, TypeOK, Versions
<1>4. CASE ResolvePin
  BY <1>0, <1>4 DEF ResolvePin, StartInv, TypeOK, Versions
<1>5. CASE LaunchSeed
  BY <1>5 DEF LaunchSeed
<1>6. CASE SeedEnd
  BY <1>6 DEF SeedEnd
<1>7. CASE Verify
  BY <1>0, <1>7 DEF Verify, Answers, StartInv, StartShape
<1>8. CASE Launch
  BY <1>8 DEF Launch
<1>9. CASE MainEnd
  BY <1>9 DEF MainEnd
<1>. QED BY <1>1, <1>2, <1>3, <1>4, <1>5, <1>6, <1>7, <1>8, <1>9

(* A batch starts where its query did or where the one before it ended, so  *)
(* no batch reaches below the first version looked up.                      *)
LEMMA QueryKeepsHistoryInv ==
  ASSUME HistoryInv,
         Append \/ Plan \/ SeedRan \/ Send \/ BatchRan \/ Commit \/ Fault \/ ClearCheckpoint
           \/ UNCHANGED vars
  PROVE  (firstNow <= head)' /\ NewStartShape' /\ HistoryNotSent'
<1>. USE DEF HistoryInv, NewStartShape, HistoryNotSent, source, checkpoint, history
<1>0. /\ head \in Nat /\ firstNow \in Nat /\ begin \in Nat /\ upto \in Nat /\ from \in Nat
      /\ data \subseteq Nat
  BY DEF StartInv, TypeOK, Versions
<1>1. CASE Append
  BY <1>0, <1>1 DEF Append
<1>2. CASE Plan
  <2>1. /\ pc \in {"seed", "main"} /\ from' = NextFrom /\ upto' # 0
        /\ UNCHANGED <<pc, head, firstNow, pin, begin, current, sent>>
    BY <1>0, <1>2 DEF Plan, NextFrom
  <2>2. StartModes = {"new"} => firstNow <= NextFrom /\ firstNow # 0
    BY <1>0, <2>1 DEF NextFrom, StartInv, CheckpointShape
  <2>. QED BY <2>1, <2>2
<1>3. CASE Send
  <2>1. PICK v \in Rows(from, upto) : sent' = sent \union {v}
    BY <1>3 DEF Send
  <2>2. upto # 0 /\ v >= from /\ v \in Nat
    BY <1>0, <1>3 DEF Send, Rows, StartInv, CheckpointShape
  <2>3. UNCHANGED <<pc, head, firstNow, pin, begin, current, upto, from>>
    BY <1>3 DEF Send
  <2>. QED BY <1>0, <2>1, <2>2, <2>3
<1>4. CASE ClearCheckpoint
  BY <1>4 DEF ClearCheckpoint
<1>5. CASE SeedRan \/ BatchRan \/ Commit \/ Fault \/ UNCHANGED vars
  <2>1. /\ UNCHANGED <<head, firstNow, pin, begin, current, upto, from, sent>>
        /\ pc' \in {pc, "idle"}
    BY <1>5 DEF SeedRan, BatchRan, Commit, Fault, vars
  <2>. QED BY <2>1
<1>. QED BY <1>1, <1>2, <1>3, <1>4, <1>5

(* With streaming_start=new nothing older than the first version looked up  *)
(* is ever sent, whatever is misread, interrupted or cleared.               *)
THEOREM NoHistoryIsSent == Spec => []HistoryNotSent
<1>1. Init /\ StartInv => HistoryInv
  BY DEF Init, HistoryInv, NewStartShape, HistoryNotSent
<1>2. HistoryInv /\ StartInv' /\ [Next]_vars => HistoryInv'
  BY NotebookKeepsHistoryInv, QueryKeepsHistoryInv DEF HistoryInv, Next, Run, IdleTrigger
<1>3. HistoryInv => HistoryNotSent
  BY DEF HistoryInv
<1>. QED BY <1>1, <1>2, <1>3, StartInvariant, PTL DEF Spec

-----------------------------------------------------------------------------
(* The refinement mapping of D.                                             *)
Pos == IF origin = 0 THEN 0 ELSE Position

(* Each step of the stream is a step of the feed, or leaves the feed as it  *)
(* was: the main query's first plan (or its launch on an offset a seed      *)
(* left) begins it, a commit of the main query advances it.                 *)
LEMMA StepImplementsFeed ==
  ASSUME StartInv, [Next]_vars
  PROVE  [D!Next]_(D!vars)
<1>. USE DEF StartInv, source, checkpoint, history
<1>. SUFFICES D!Next \/ UNCHANGED <<head, data, sent, Pos>>
  BY DEF D!vars, Pos
<1>0. CASE UNCHANGED vars
  BY <1>0 DEF vars, Pos, Position
<1>1. CASE Append
  BY <1>1 DEF Append, D!Next, D!Append, Position
<1>2. CASE StartRun \/ Classify \/ ResolveSeed \/ ResolvePin \/ LaunchSeed \/ SeedEnd
             \/ Verify \/ SeedRan \/ BatchRan \/ MainEnd
  <2>1. UNCHANGED <<head, data, sent, origin, from, upto, committed>>
    BY <1>2 DEF StartRun, Classify, ResolveSeed, ResolvePin, LaunchSeed, SeedEnd,
        Verify, SeedRan, BatchRan, MainEnd
  <2>. QED BY <2>1 DEF Pos, Position
<1>3. CASE Fault
  BY <1>3 DEF Fault, Pos, Position
<1>4. CASE Launch
  <2>1. UNCHANGED <<head, data, sent, from, upto, committed>>
        /\ origin' = IF origin = 0 /\ upto # 0 THEN Position ELSE origin
    BY <1>4 DEF Launch
  <2>2. CASE origin = 0 /\ upto # 0
    <3>1. Position \in 1..(head + 1)
      BY <2>2 DEF TypeOK, Versions, CheckpointShape, Position
    <3>2. Position' = Position
      BY <2>1 DEF Position
    <3>. QED BY <2>1, <2>2, <3>1, <3>2 DEF D!Next, D!Begin
  <2>3. CASE ~(origin = 0 /\ upto # 0)
    BY <2>1, <2>3 DEF Pos, Position
  <2>. QED BY <2>2, <2>3
<1>6. CASE Plan
  <2>1. /\ UNCHANGED <<head, data, sent>>
        /\ from' = NextFrom /\ committed' = FALSE /\ upto' \in (NextFrom + 1)..(Horizon + 1)
        /\ origin' = IF pc = "main" /\ origin = 0 THEN NextFrom ELSE origin
    BY <1>6 DEF Plan
  <2>2. /\ committed /\ NextFrom \in 1..(head + 1) /\ Horizon \in Nat /\ upto' # 0
        /\ Position' = NextFrom
    BY <1>6, <2>1 DEF Plan, TypeOK, Versions, CheckpointShape, StartShape, NextFrom,
        Horizon, Position
  <2>3. CASE pc = "main" /\ origin = 0
    BY <2>1, <2>2, <2>3 DEF D!Next, D!Begin
  <2>4. CASE pc # "main" /\ origin = 0
    BY <2>1, <2>4 DEF Pos
  <2>5. CASE origin # 0
    BY <2>1, <2>2, <2>5 DEF SeedIsFirst, Pos, Position, NextFrom
  <2>. QED BY <2>3, <2>4, <2>5
<1>7. CASE Send
  <2>1. PICK v \in Rows(from, upto) \ written : sent' = sent \union {v}
    BY <1>7 DEF Send
  <2>2. v \in data
    BY DEF Rows
  <2>3. UNCHANGED <<head, data, Pos>>
    BY <1>7 DEF Send, Pos, Position
  <2>. QED BY <2>1, <2>2, <2>3 DEF D!Next, D!Send, Pos
<1>8. CASE Commit
  <2>1. /\ UNCHANGED <<head, data, sent, from, upto, origin>>
        /\ committed' = TRUE /\ ~committed /\ pc \in {"seed", "main"}
        /\ from \in Nat /\ upto \in Nat /\ from < upto /\ upto <= head + 1 /\ 1 <= from
        /\ head \in Nat
    BY <1>8 DEF Commit, TypeOK, Versions, CheckpointShape
  <2>2. CASE origin = 0
    BY <2>1, <2>2 DEF Pos
  <2>3. CASE origin # 0
    <3>1. pc = "main"
      BY <2>1, <2>3 DEF SeedIsFirst
    <3>2. Pos = from /\ Pos' = upto
      BY <2>1, <2>3 DEF Pos, Position
    <3>3. \A v \in data : from <= v /\ v < upto => v \in sent
      BY <1>8, <3>1 DEF Commit, BatchIsWritten, Rows
    <3>4. Pos # 0 /\ Pos' \in (Pos + 1)..(head + 1)
      BY <2>1, <3>2
    <3>5. \A v \in data : Pos <= v /\ v < Pos' => v \in sent
      BY <3>2, <3>3
    <3>6. D!Advance
      BY <2>1, <3>4, <3>5 DEF D!Advance, Pos
    <3>. QED BY <3>6 DEF D!Next
  <2>. QED BY <2>2, <2>3
<1>9. CASE ClearCheckpoint
  BY <1>9 DEF ClearCheckpoint, D!Next, D!Forget
<1>. QED BY <1>0, <1>1, <1>2, <1>3, <1>4, <1>6, <1>7, <1>8, <1>9
    DEF Next, Run, IdleTrigger

(* The stream implements the at-least-once feed.                            *)
THEOREM StreamImplementsDelivery == Spec => ImplementsDelivery
<1>1. Init => D!Init
  BY DEF Init, D!Init
<1>2. StartInv /\ [Next]_vars => [D!Next]_(D!vars)
  BY StepImplementsFeed
<1>. QED BY <1>1, <1>2, StartInvariant, PTL DEF Spec, ImplementsDelivery, D!Spec
=============================================================================
