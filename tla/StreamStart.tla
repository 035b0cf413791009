------------------------------ MODULE StreamStart ------------------------------
(***************************************************************************)
(* Where a stream starts: the checkpoint preparation and the two queries   *)
(* of notebooks/run_index_pipeline.py (STREAMING run, steps 1 and 2), over *)
(* runs that may crash at any step, a source that takes commits meanwhile, *)
(* and an operator who may clear the checkpoint between runs.  A batch is  *)
(* kept at the grain its position matters: planned (its offset written to  *)
(* the checkpoint), executed, committed.  What foreachBatch does inside is *)
(* StreamExport's subject.                                                 *)
(*                                                                         *)
(* A position p says: every source version below p is behind the stream.   *)
(***************************************************************************)
EXTENDS Naturals

CONSTANTS
  StartModes,  \* what streaming_start may be from run to run: "new", "full"
  Continuous,  \* the main query is always-on (ProcessingTime), not availableNow
  MaxVersion,  \* bound: source versions
  MaxFaults    \* bound: crashes and checkpoint clears

ASSUME StartAssumption ==
  /\ StartModes \subseteq {"new", "full"} /\ StartModes # {}
  /\ Continuous \in BOOLEAN
  /\ MaxVersion \in Nat \ {0}
  /\ MaxFaults \in Nat

VARIABLES
  head, data,             \* the source: newest version, versions with rows
  from, upto, committed,  \* the checkpoint's newest batch [from, upto) and
                          \* whether it committed; upto = 0: no offset at all
  pc,                     \* the notebook
  current,                \* current_version
  pin,                    \* startingVersion on the main reader; 0: none
  begin,                  \* where the running query starts without an offset
  limit,                  \* availableNow: the newest version at launch
  batch,                  \* the running query's batch: "none", "planned", "ran"
  written,                \* versions this execution of the batch has written
  sent,                   \* versions in Elasticsearch
  faults,
  \* history
  origin,      \* the version the stream's offsets begin to export at; 0: none yet
  emptyRun,     \* a run succeeded without any offset, reading on from here; 0: none
  launch,      \* everything up to here was skipped on purpose
  firstNow     \* the first current_version resolved

source == <<head, data>>
checkpoint == <<from, upto, committed>>
history == <<origin, emptyRun, launch, firstNow>>
vars == <<head, data, from, upto, committed, pc, current, pin, begin, limit, batch,
          written, sent, faults, origin, emptyRun, launch, firstNow>>

Versions == 1..MaxVersion

TypeOK ==
  /\ head \in Versions
  /\ data \in SUBSET (1..head)
  /\ from \in 0..(MaxVersion + 1)
  /\ upto \in 0..(MaxVersion + 1)
  /\ committed \in BOOLEAN
  /\ pc \in {"idle", "classify", "resolveSeed", "resolvePin", "launchSeed", "seed",
             "verify", "launch", "main"}
  /\ current \in 0..MaxVersion
  /\ pin \in 0..MaxVersion
  /\ begin \in 0..MaxVersion
  /\ limit \in 0..MaxVersion
  /\ batch \in {"none", "planned", "ran"}
  /\ written \in SUBSET Versions
  /\ sent \in SUBSET Versions
  /\ faults \in 0..MaxFaults
  /\ origin \in 0..(MaxVersion + 1)
  /\ emptyRun \in 0..(MaxVersion + 1)
  /\ launch \in 0..MaxVersion
  /\ firstNow \in 0..MaxVersion

Init ==
  /\ head = 1
  /\ data \in SUBSET {1}
  /\ from = 0 /\ upto = 0 /\ committed = TRUE
  /\ pc = "idle"
  /\ current = 0 /\ pin = 0 /\ begin = 0 /\ limit = 0
  /\ batch = "none"
  /\ written = {}
  /\ sent = {}
  /\ faults = 0
  /\ origin = 0 /\ emptyRun = 0 /\ launch = 0 /\ firstNow = 0

-----------------------------------------------------------------------------
(* The next version of the checkpoint's newest committed batch. *)
Position == IF committed THEN upto ELSE from

(* Where the running query's next batch starts. *)
NextFrom == IF upto = 0 THEN begin ELSE upto

Rows(lo, hi) == {v \in data : lo <= v /\ v < hi}

(* A query with nothing to send may end without a batch, and so without an  *)
(* offset. *)
Drained == NextFrom > limit \/ Rows(NextFrom, limit + 1) = {}

(* The mutants: a listing failure classified EMPTY, a seed or a main query  *)
(* with the wrong end, a pin forgotten, a partial write accepted, a stale   *)
(* batch kept. *)
MutAnswers == {"unknown", "empty"} \union (IF upto = 0 THEN {} ELSE {"has_offset"})

MutHorizonHead == head

MutHorizonLimit == limit

MutVerify ==
  /\ pc = "verify"
  /\ pin' = 0
  /\ pc' = "launch"
  /\ UNCHANGED <<source, checkpoint, current, begin, limit, batch, written, sent, faults,
                 history>>

MutBatchRan ==
  /\ pc = "main"
  /\ batch = "planned"
  /\ batch' = "ran"
  /\ UNCHANGED <<source, checkpoint, pc, current, pin, begin, limit, written, sent, faults,
                 history>>

(* How far it may read: availableNow fixed that at launch. *)
Horizon == IF pc = "main" /\ Continuous THEN head ELSE limit

(* What checkpoint_offsets_state may answer: AnswersAsOneLook, which        *)
(* CheckpointState shows of it.                                             *)
Answers == {"unknown"} \union (IF upto = 0 THEN {"empty"} ELSE {"has_offset"})

-----------------------------------------------------------------------------
(* The source takes a commit: appended rows, or none the stream sends (a    *)
(* metadata change, maintenance, a change commit skipChangeCommits skips).  *)
Append ==
  /\ head < MaxVersion
  /\ head' = head + 1
  /\ data' \in {data, data \union {head + 1}}
  /\ UNCHANGED <<checkpoint, pc, current, pin, begin, limit, batch, written, sent, faults,
                 history>>

-----------------------------------------------------------------------------
(* A run (a tick, a retry, a restart) reaches the checkpoint cell. *)
StartRun ==
  /\ pc = "idle"
  /\ pc' = "classify"
  /\ pin' = 0
  /\ UNCHANGED <<source, checkpoint, current, begin, limit, batch, written, sent, faults,
                 history>>

Classify ==
  /\ pc = "classify"
  /\ \/ "full" \in StartModes /\ pc' = "launch"
     \/ /\ "new" \in StartModes
        /\ \E answer \in Answers :
             pc' = CASE answer = "has_offset" -> "launch"
                     [] answer = "empty"      -> "resolveSeed"
                     [] answer = "unknown"    -> "resolvePin"
  /\ UNCHANGED <<source, checkpoint, current, pin, begin, limit, batch, written, sent,
                 faults, history>>

(* DESCRIBE HISTORY ... LIMIT 1 before the seed. *)
ResolveSeed ==
  /\ pc = "resolveSeed"
  /\ current' = head
  /\ firstNow' = IF firstNow = 0 THEN head ELSE firstNow
  /\ pc' = "launchSeed"
  /\ UNCHANGED <<source, checkpoint, pin, begin, limit, batch, written, sent, faults,
                 origin, emptyRun, launch>>

(* The same on an unknown checkpoint, pinned on the main reader. *)
ResolvePin ==
  /\ pc = "resolvePin"
  /\ current' = head
  /\ pin' = head
  /\ firstNow' = IF firstNow = 0 THEN head ELSE firstNow
  /\ pc' = "launch"
  /\ UNCHANGED <<source, checkpoint, begin, limit, batch, written, sent, faults,
                 origin, emptyRun, launch>>

(* seed_query.start(): availableNow takes its end now.  An EMPTY checkpoint *)
(* has no offset, so the seed starts at startingVersion = current.          *)
LaunchSeed ==
  /\ pc = "launchSeed"
  /\ begin' = current
  /\ limit' = head
  /\ batch' = IF committed THEN "none" ELSE "planned"
  /\ launch' = head
  /\ pc' = "seed"
  /\ UNCHANGED <<source, checkpoint, current, pin, written, sent, faults, origin,
                 emptyRun, firstNow>>

(* The seed drained and ended; await_stream returned. *)
SeedEnd ==
  /\ pc = "seed"
  /\ batch = "none"
  /\ Drained
  /\ pc' = "verify"
  /\ UNCHANGED <<source, checkpoint, current, pin, begin, limit, batch, written, sent,
                 faults, history>>

(* Was an offset committed?  If that cannot be seen, pin. *)
Verify ==
  /\ pc = "verify"
  /\ \E answer \in Answers : pin' = IF answer = "has_offset" THEN 0 ELSE current
  /\ pc' = "launch"
  /\ UNCHANGED <<source, checkpoint, current, begin, limit, batch, written, sent, faults,
                 history>>

(* query = writer...start(): a planned, uncommitted batch is replayed first. *)
Launch ==
  /\ pc = "launch"
  /\ begin' = IF pin = 0 THEN 1 ELSE pin
  /\ limit' = head
  /\ batch' = IF committed THEN "none" ELSE "planned"
  /\ written' = {}
  /\ origin' = IF origin = 0 /\ upto # 0 THEN Position ELSE origin
  /\ pc' = "main"
  /\ UNCHANGED <<source, checkpoint, current, pin, sent, faults, emptyRun, launch,
                 firstNow>>

(* The drain ended without an error: the run succeeds. *)
MainEnd ==
  /\ pc = "main"
  /\ ~Continuous
  /\ batch = "none"
  /\ Drained
  /\ emptyRun' = IF upto = 0 /\ emptyRun = 0 THEN begin ELSE emptyRun
  /\ pc' = "idle"
  /\ UNCHANGED <<source, checkpoint, current, pin, begin, limit, batch, written, sent,
                 faults, origin, launch, firstNow>>

-----------------------------------------------------------------------------
(* Spark plans a batch: its end offset is written before it runs. *)
Plan ==
  /\ pc \in {"seed", "main"}
  /\ batch = "none"
  /\ upto' \in (NextFrom + 1)..(Horizon + 1)
  /\ from' = NextFrom
  /\ committed' = FALSE
  /\ batch' = "planned"
  /\ written' = {}
  /\ origin' = IF pc = "main" /\ origin = 0 THEN NextFrom ELSE origin
  /\ launch' = IF pc = "main" /\ upto = 0 THEN NextFrom - 1 ELSE launch
  /\ UNCHANGED <<source, pc, current, pin, begin, limit, sent, faults, emptyRun, firstNow>>

(* The seed's foreachBatch does nothing. *)
SeedRan ==
  /\ pc = "seed"
  /\ batch = "planned"
  /\ batch' = "ran"
  /\ UNCHANGED <<source, checkpoint, pc, current, pin, begin, limit, written, sent, faults,
                 history>>

(* The main query's foreachBatch writes a version's rows. *)
Send ==
  /\ pc = "main"
  /\ batch = "planned"
  /\ \E v \in Rows(from, upto) \ written :
       /\ written' = written \union {v}
       /\ sent' = sent \union {v}
  /\ UNCHANGED <<source, checkpoint, pc, current, pin, begin, limit, batch, faults, history>>

(* It returns only when every row was written (raise_on_error). *)
BatchRan ==
  /\ pc = "main"
  /\ batch = "planned"
  /\ Rows(from, upto) \subseteq written
  /\ batch' = "ran"
  /\ UNCHANGED <<source, checkpoint, pc, current, pin, begin, limit, written, sent, faults,
                 history>>

Commit ==
  /\ batch = "ran"
  /\ committed' = TRUE
  /\ batch' = "none"
  /\ UNCHANGED <<source, from, upto, pc, current, pin, begin, limit, written, sent, faults,
                 history>>

-----------------------------------------------------------------------------
(* The run ends early at any point: an error, a cancel, a killed driver.    *)
Fault ==
  /\ pc # "idle"
  /\ faults < MaxFaults
  /\ faults' = faults + 1
  /\ pc' = "idle"
  /\ batch' = "none"
  /\ UNCHANGED <<source, checkpoint, current, pin, begin, limit, written, sent, origin,
                 emptyRun, launch, firstNow>>

(* The operator clears the checkpoint while no run of the stream is live. *)
ClearCheckpoint ==
  /\ pc = "idle"
  /\ upto # 0
  /\ faults < MaxFaults
  /\ faults' = faults + 1
  /\ from' = 0 /\ upto' = 0 /\ committed' = TRUE
  /\ origin' = 0
  /\ emptyRun' = 0
  /\ UNCHANGED <<source, pc, current, pin, begin, limit, batch, written, sent, launch,
                 firstNow>>

(* An always-on query's trigger with nothing new runs no batch. *)
IdleTrigger ==
  /\ pc = "main"
  /\ Continuous
  /\ batch = "none"
  /\ NextFrom > head
  /\ UNCHANGED vars

-----------------------------------------------------------------------------
Run ==
  \/ StartRun \/ Classify \/ ResolveSeed \/ ResolvePin \/ LaunchSeed \/ SeedEnd \/ Verify
  \/ Launch \/ MainEnd \/ Plan \/ SeedRan \/ Send \/ BatchRan \/ Commit

Next == Append \/ Run \/ IdleTrigger \/ Fault \/ ClearCheckpoint

Spec == Init /\ [][Next]_vars

(* Runs keep being started (the schedule, a retry, the continuous trigger)  *)
(* and go on unless a fault ends them; a drain that could end or plan does. *)
FairSpec == Spec /\ WF_vars(Run)

-----------------------------------------------------------------------------
(* The inductive invariant behind NothingSkipped. *)

(* The checkpoint's newest batch, and the one the running query executes.   *)
CheckpointShape ==
  /\ upto = 0 => committed
  /\ upto # 0 => 1 <= from /\ from < upto /\ upto <= head + 1
  /\ batch # "none" => pc \in {"seed", "main"} /\ ~committed
  /\ pc \in {"seed", "main"} /\ batch = "none" => committed

(* Versions the notebook resolved exist, and a launched query has some.     *)
StartShape ==
  /\ current <= head /\ pin <= head
  /\ pc \in {"launchSeed", "seed", "verify"} => 1 <= current
  /\ pc \in {"seed", "main"} => 1 <= begin /\ begin <= limit /\ limit <= head

(* A seed runs only before the stream has begun; a main query with an       *)
(* offset has begun it.                                                     *)
SeedIsFirst ==
  /\ origin # 0 => upto # 0 /\ origin <= Position
  /\ pc \in {"resolveSeed", "launchSeed", "seed", "verify"} => origin = 0
  /\ pc \in {"resolveSeed", "launchSeed"} => upto = 0
  /\ pc = "main" /\ upto # 0 => origin # 0

(* What the running batch has written is in Elasticsearch, and once it has  *)
(* run that is all of it.                                                   *)
BatchIsWritten ==
  /\ pc = "main" => written \subseteq sent
  /\ pc = "main" /\ batch = "ran" => Rows(from, upto) \subseteq written

(* Once the stream has an offset, a version with rows is behind its position    *)
(* only if those rows are in Elasticsearch: no run, crash, misread listing  *)
(* or re-seed skips an un-exported backlog.                                 *)
NothingSkipped ==
  origin # 0 => \A v \in data : origin <= v /\ v < Position => v \in sent

(* What every reachable state of the checkpoint and its runs satisfies: the *)
(* conjuncts are inductive together.                                        *)
StartInv ==
  /\ TypeOK
  /\ CheckpointShape
  /\ StartShape
  /\ SeedIsFirst
  /\ BatchIsWritten
  /\ NothingSkipped

(* The start boundary: what was never sent and is behind the position was   *)
(* there when the seed was launched (or before the pinned version).         *)
SkippedOnlyAtLaunch ==
  \A v \in data : v < Position /\ v \notin sent => v <= launch

(* streaming_start=new never sends what was in the table before the first   *)
(* current_version: a seed that ends early may over-send, but only what it  *)
(* had still to drain.                                                      *)
HistoryNotSent ==
  StartModes = {"new"} => \A v \in sent : v >= firstNow

(* "it NEVER skips a backlog": where a run succeeded and left no offset (it  *)
(* had pinned its start and found nothing to send), the next run goes on,   *)
(* so what was committed in between is sent.                                *)
NoGapAfterEmptyRun ==
  origin # 0 /\ emptyRun # 0 =>
    \A v \in data : emptyRun <= v /\ v < origin => v \in sent

(* Every version with rows from the beginning of the stream on is sent, in  *)
(* spite of crashes, as long as runs keep being started.                    *)
EverythingIsSent ==
  \A v \in Versions :
    (v \in data /\ origin # 0 /\ origin <= v) ~> (v \in sent \/ origin = 0)

(* The feed's position is the checkpoint's, once the stream has an offset.   *)
D == INSTANCE Delivery WITH pos <- IF origin = 0 THEN 0 ELSE Position

(* Over crashes, clears and re-seeds, the stream implements the abstract    *)
(* at-least-once feed: its position passes only rows that are sent.         *)
ImplementsDelivery == D!Spec
=============================================================================
