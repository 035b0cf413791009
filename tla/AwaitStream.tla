----------------------------- MODULE AwaitStream -----------------------------
(***************************************************************************)
(* The wait loop of pipeline_lib/stream_wait.py: a notebook waiting, in    *)
(* slices, for a Structured Streaming query that runs on the cluster on    *)
(* its own.  Every request to the server is a step: the query may end      *)
(* between any two of them, the server may show that end through isActive  *)
(* and through exception() at different times, a wait call may miss the    *)
(* end, and any call may fail.                                             *)
(***************************************************************************)
EXTENDS Naturals

CONSTANT MaxErrors   \* MAX_ISACTIVE_ERRORS: unreadable slices in a row before giving up

ASSUME AwaitAssumption == MaxErrors \in Nat \ {0}

VARIABLES
  hasRecord,   \* a record callback is given (the main stream), or not (the seed)
  \* the query, as it is and as the server shows it
  query,       \* "running", "stopped" (ended without an error) or "failed"
  active,      \* what isActive answers
  visible,     \* exception() answers the failure (not None)
  \* the loop's own variables
  pc,
  ended,       \* this slice found the query ended
  byLiveness,  \* ended_by_liveness
  stateRead,   \* state_read
  errors,      \* isactive_errors
  confirmed,   \* what the confirming wait call answered
  outcome,     \* how await_stream ended: see Outcomes
  \* history
  recordedAfterEnd,  \* record was called when the query was over
  recordRaised,      \* some record call raised
  stopTried          \* query.stop() was called

server == <<query, active, visible>>
history == <<recordedAfterEnd, recordRaised, stopTried>>
vars == <<hasRecord, query, active, visible, pc, ended, byLiveness, stateRead, errors,
          confirmed, outcome, recordedAfterEnd, recordRaised, stopTried>>

Steps == {"wait", "active", "exception", "tally", "record", "recordLast", "stop",
          "recordFailed", "verdict", "confirm", "confirmed", "done"}

(* "none" while it waits, "returned" for a normal return, else the error it *)
(* raises: the query's own, the wait call's, the record callback's, a       *)
(* failed exception() read, "blind" and "unconfirmed" for its RuntimeErrors.*)
Outcomes == {"none", "returned", "query", "wait", "record", "read", "blind", "unconfirmed"}

TypeOK ==
  /\ hasRecord \in BOOLEAN
  /\ query \in {"running", "stopped", "failed"}
  /\ active \in BOOLEAN
  /\ visible \in BOOLEAN
  /\ pc \in Steps
  /\ ended \in BOOLEAN
  /\ byLiveness \in BOOLEAN
  /\ stateRead \in BOOLEAN
  /\ errors \in 0..MaxErrors
  /\ confirmed \in BOOLEAN
  /\ outcome \in Outcomes
  /\ recordedAfterEnd \in BOOLEAN
  /\ recordRaised \in BOOLEAN
  /\ stopTried \in BOOLEAN

Init ==
  /\ hasRecord \in BOOLEAN
  /\ query = "running"
  /\ active = TRUE
  /\ visible = FALSE
  /\ pc = "wait"
  /\ ended = FALSE
  /\ byLiveness = FALSE
  /\ stateRead = FALSE
  /\ errors = 0
  /\ confirmed = FALSE
  /\ outcome = "none"
  /\ recordedAfterEnd = FALSE
  /\ recordRaised = FALSE
  /\ stopTried = FALSE

-----------------------------------------------------------------------------
(* The server shows an end when it happens or later, each signal by itself. *)

QueryEnds(how) ==
  /\ query = "running"
  /\ query' = how
  /\ UNCHANGED <<hasRecord, active, visible, pc, ended, byLiveness, stateRead, errors, confirmed, outcome, history>>

ShowInactive ==
  /\ query # "running"
  /\ active
  /\ active' = FALSE
  /\ UNCHANGED <<hasRecord, query, visible, pc, ended, byLiveness, stateRead, errors, confirmed,
                 outcome, history>>

ShowFailure ==
  /\ query = "failed"
  /\ ~visible
  /\ visible' = TRUE
  /\ UNCHANGED <<hasRecord, query, active, pc, ended, byLiveness, stateRead, errors, confirmed,
                 outcome, history>>

-----------------------------------------------------------------------------
(* What a wait call may do: answer that the query is over (never of a       *)
(* failed one), answer that it is not (always possible: it can miss the     *)
(* end), raise the query's failure, or fail on its own, the query running   *)
(* or not (a broken connection).                                            *)
WaitAnswers(answer) ==
  \/ answer = "over" /\ query = "stopped"
  \/ answer = "running"
  \/ answer = "query" /\ query = "failed"
  \/ answer = "wait"

(* The mutants: bugs a change of this loop could plausibly introduce. *)
MutVerdictTrustsLiveness ==
  /\ pc = "verdict"
  /\ \/ visible /\ outcome' = "query"
     \/ ~visible /\ outcome' = "returned"
     \/ outcome' = "read"
  /\ pc' = "done"
  /\ UNCHANGED <<hasRecord, server, ended, byLiveness, stateRead, errors, confirmed, history>>

MutStopSkipped ==
  /\ pc = "stop"
  /\ pc' = "done"
  /\ outcome' = "record"
  /\ UNCHANGED <<hasRecord, server, ended, byLiveness, stateRead, errors, confirmed, history>>

MutTallyForgets ==
  /\ pc = "tally"
  /\ byLiveness' = ended
  /\ errors' = 0
  /\ pc' = IF hasRecord THEN "record" ELSE IF ended THEN "verdict" ELSE "wait"
  /\ UNCHANGED <<hasRecord, server, ended, stateRead, confirmed, outcome, history>>

MutTallySkipsRecord ==
  /\ pc = "tally"
  /\ byLiveness' = ended
  /\ errors' = IF stateRead THEN 0 ELSE errors + 1
  /\ IF errors' >= MaxErrors
       THEN pc' = "done" /\ outcome' = "blind"
       ELSE /\ pc' = IF ended THEN "verdict" ELSE IF hasRecord THEN "record" ELSE "wait"
            /\ UNCHANGED outcome
  /\ UNCHANGED <<hasRecord, server, ended, stateRead, confirmed, history>>

MutReadActiveAlwaysBoth ==
  /\ pc = "active"
  /\ ended' = ~active
  /\ stateRead' = TRUE
  /\ pc' = "exception"
  /\ UNCHANGED <<hasRecord, server, byLiveness, errors, confirmed, outcome, history>>

MutGiveUpLate ==
  /\ pc = "tally"
  /\ byLiveness' = ended
  /\ errors' = IF stateRead THEN 0 ELSE errors + 1
  /\ IF errors' > MaxErrors
       THEN pc' = "done" /\ outcome' = "blind"
       ELSE /\ pc' = IF hasRecord THEN "record" ELSE IF ended THEN "verdict" ELSE "wait"
            /\ UNCHANGED outcome
  /\ UNCHANGED <<hasRecord, server, ended, stateRead, confirmed, history>>

-----------------------------------------------------------------------------
(* ended = query.awaitTermination(poll_seconds).  An exception is kept as   *)
(* the outcome and record runs once more before it propagates.              *)
WaitSlice ==
  /\ pc = "wait"
  /\ \E answer \in {"over", "running", "query", "wait"} :
       /\ WaitAnswers(answer)
       /\ ended' = (answer = "over")
       /\ IF answer \in {"query", "wait"}
            THEN /\ outcome' = answer
                 /\ pc' = IF hasRecord THEN "recordLast" ELSE "done"
            ELSE /\ UNCHANGED outcome
                 /\ pc' = IF answer = "running" THEN "active"
                          ELSE IF hasRecord THEN "record" ELSE "verdict"
  /\ stateRead' = FALSE
  /\ UNCHANGED <<hasRecord, server, byLiveness, errors, confirmed, history>>

(* ended = not query.isActive; the two outcomes of the request are actions  *)
(* of their own, since only the answered one deserves strong fairness.      *)
ReadActive ==
  /\ pc = "active"
  /\ ended' = ~active
  /\ stateRead' = TRUE
  /\ pc' = IF active THEN "exception" ELSE "tally"
  /\ UNCHANGED <<hasRecord, server, byLiveness, errors, confirmed, outcome, history>>

ActiveReadFails ==
  /\ pc = "active"
  /\ pc' = "exception"
  /\ UNCHANGED <<hasRecord, server, ended, byLiveness, stateRead, errors, confirmed, outcome, history>>

(* ended = query.exception() is not None; an error means "cannot tell". *)
ReadException ==
  /\ pc = "exception"
  /\ \/ ended' = visible /\ stateRead' = TRUE
     \/ UNCHANGED <<ended, stateRead>>
  /\ pc' = "tally"
  /\ UNCHANGED <<hasRecord, server, byLiveness, errors, confirmed, outcome, history>>

(* What the slice's two checks add up to. *)
Tally ==
  /\ pc = "tally"
  /\ byLiveness' = ended
  /\ errors' = IF stateRead THEN 0 ELSE errors + 1
  /\ IF errors' >= MaxErrors
       THEN pc' = "done" /\ outcome' = "blind"
       ELSE /\ pc' = IF hasRecord THEN "record" ELSE IF ended THEN "verdict" ELSE "wait"
            /\ UNCHANGED outcome
  /\ UNCHANGED <<hasRecord, server, ended, stateRead, confirmed, history>>

-----------------------------------------------------------------------------
(* record(query) after a slice. *)
Record ==
  /\ pc = "record"
  /\ recordedAfterEnd' = (recordedAfterEnd \/ query # "running")
  /\ \E raises \in BOOLEAN :
       /\ recordRaised' = (recordRaised \/ raises)
       /\ pc' = CASE raises /\ ended   -> "recordFailed"
                  [] raises /\ ~ended  -> "stop"
                  [] ~raises /\ ended  -> "verdict"
                  [] ~raises /\ ~ended -> "wait"
  /\ UNCHANGED <<hasRecord, server, ended, byLiveness, stateRead, errors, confirmed, outcome, stopTried>>

(* record(query), best effort, when the wait call raised: the wait call's   *)
(* exception propagates whatever record does.                               *)
RecordLast ==
  /\ pc = "recordLast"
  /\ recordedAfterEnd' = (recordedAfterEnd \/ query # "running")
  /\ \E raises \in BOOLEAN : recordRaised' = (recordRaised \/ raises)
  /\ pc' = "done"
  /\ UNCHANGED <<hasRecord, server, ended, byLiveness, stateRead, errors, confirmed, outcome, stopTried>>

(* record raised and the query was not found ended: query.stop(), whose own *)
(* failure only warns, then the record error.                               *)
StopQuery ==
  /\ pc = "stop"
  /\ stopTried' = TRUE
  /\ \/ /\ query' = IF query = "running" THEN "stopped" ELSE query
        /\ active' = FALSE
     \/ UNCHANGED <<query, active>>
  /\ outcome' = "record"
  /\ pc' = "done"
  /\ UNCHANGED <<hasRecord, visible, ended, byLiveness, stateRead, errors, confirmed,
                 recordedAfterEnd, recordRaised>>

(* record raised and the query was found ended: failure = query.exception() *)
(* chooses between the query's error and the record error.                  *)
RecordFailed ==
  /\ pc = "recordFailed"
  /\ \/ outcome' = IF visible THEN "query" ELSE "record"
     \/ outcome' = "read"
  /\ pc' = "done"
  /\ UNCHANGED <<hasRecord, server, ended, byLiveness, stateRead, errors, confirmed, history>>

(* The query was found ended: its failure, a confirmation, or the return. *)
Verdict ==
  /\ pc = "verdict"
  /\ \/ visible /\ outcome' = "query" /\ pc' = "done"
     \/ ~visible /\ byLiveness /\ pc' = "confirm" /\ UNCHANGED outcome
     \/ ~visible /\ ~byLiveness /\ outcome' = "returned" /\ pc' = "done"
     \/ outcome' = "read" /\ pc' = "done"
  /\ UNCHANGED <<hasRecord, server, ended, byLiveness, stateRead, errors, confirmed, history>>

(* confirmed = query.awaitTermination(poll_seconds) *)
Confirm ==
  /\ pc = "confirm"
  /\ \E answer \in {"over", "running", "query", "wait"} :
       /\ WaitAnswers(answer)
       /\ confirmed' = (answer = "over")
       /\ IF answer \in {"query", "wait"}
            THEN outcome' = answer /\ pc' = "done"
            ELSE pc' = "confirmed" /\ UNCHANGED outcome
  /\ UNCHANGED <<hasRecord, server, ended, byLiveness, stateRead, errors, history>>

ConfirmVerdict ==
  /\ pc = "confirmed"
  /\ \/ outcome' = IF visible THEN "query" ELSE IF confirmed THEN "returned" ELSE "unconfirmed"
     \/ outcome' = "read"
  /\ pc' = "done"
  /\ UNCHANGED <<hasRecord, server, ended, byLiveness, stateRead, errors, confirmed, history>>

-----------------------------------------------------------------------------
Server == QueryEnds("stopped") \/ QueryEnds("failed") \/ ShowInactive \/ ShowFailure

Loop ==
  \/ WaitSlice \/ ReadActive \/ ActiveReadFails \/ ReadException \/ Tally
  \/ Record \/ RecordLast \/ StopQuery \/ RecordFailed
  \/ Verdict \/ Confirm \/ ConfirmVerdict

(* The loop is over and so is the query: nothing is left to happen. *)
Terminated ==
  /\ pc = "done"
  /\ query # "running"
  /\ ~active
  /\ query = "failed" => visible
  /\ UNCHANGED vars

Next == Server \/ Loop \/ Terminated

Spec == Init /\ [][Next]_vars

(* Every call of the loop returns (poll_seconds bounds the wait), and the   *)
(* server shows an end sooner or later.  The query need never end.          *)
FairSpec == Spec /\ WF_vars(Loop) /\ WF_vars(ShowInactive) /\ WF_vars(ShowFailure)

-----------------------------------------------------------------------------
(* The inductive invariant: what each step of the loop knows of the query.  *)

(* Only the blind give-up reaches MaxErrors unreadable slices. *)
CountBelowLimit == pc # "done" => errors < MaxErrors

(* The server never shows an end that has not happened. *)
SignalsAreSound ==
  /\ ~active => query # "running"
  /\ visible => query = "failed"

(* An end found by a state check is an end; one the wait call reported is   *)
(* a clean one, and so is one the confirming call reported.                 *)
EndsAreSound ==
  /\ pc \in {"wait", "active"} => ~byLiveness
  /\ pc \in {"active", "exception"} => ~ended
  /\ pc \in {"exception", "tally"} => ~byLiveness
  /\ pc = "tally" /\ ended => query # "running"
  /\ pc \in {"record", "recordFailed", "verdict", "confirm", "confirmed"} /\ ended =>
       IF byLiveness THEN query # "running" ELSE query = "stopped"
  /\ pc \in {"recordFailed", "verdict", "confirm", "confirmed"} => ended
  /\ pc = "record" /\ byLiveness => ended
  /\ pc \in {"confirm", "confirmed"} => byLiveness
  /\ pc = "confirmed" /\ confirmed => query = "stopped"

(* While the loop works there is no verdict but the wait call's own error.  *)
OutcomesAreSound ==
  /\ pc \notin {"recordLast", "done"} => outcome = "none"
  /\ pc = "recordLast" => outcome \in {"query", "wait"}
  /\ pc = "done" => outcome # "none"
  /\ outcome = "query" => query = "failed"
  /\ outcome = "returned" => query = "stopped"

(* A raised record is on its way to a stop, or the query is over; only a    *)
(* broken wait call escapes this.                                           *)
RaiseIsHandled ==
  /\ pc \notin {"stop", "recordFailed", "done"} => ~recordRaised
  /\ pc = "done" /\ recordRaised /\ outcome # "wait" => stopTried \/ query # "running"

(* What every reachable state of the wait loop satisfies: the loop's        *)
(* knowledge of the query is sound at every step.                           *)
LoopInv ==
  /\ TypeOK
  /\ CountBelowLimit
  /\ SignalsAreSound
  /\ EndsAreSound
  /\ OutcomesAreSound
  /\ RaiseIsHandled

(* await_stream "Returns normally ONLY when the query ended without an      *)
(* error": a failure whose two signals are shown late, to a loop whose wait *)
(* calls miss the end, is still never taken for a clean end.                *)
NormalReturnIsClean == outcome = "returned" => query = "stopped"

(* When the loop reports the query's end, clean or failed, record has run   *)
(* at least once since the query ended, so batches that committed in the    *)
(* last slice got their chance of a batch_summary.                          *)
EndIsRecorded ==
  pc = "done" /\ outcome \in {"returned", "query"} /\ hasRecord => recordedAfterEnd

(* A record error never leaves an unlogged query running without a stop     *)
(* request, except when record ran because the wait call itself had broken. *)
UnloggedStreamIsStopped ==
  pc = "done" /\ recordRaised /\ outcome # "wait" => stopTried \/ query # "running"

(* The docstring's contract has no exception: "Whatever it RAISES is a real *)
(* failure ...: the loop stops the query, if it is still running, and       *)
(* re-raises".                                                              *)
RecordFailureStopsQuery ==
  pc = "done" /\ recordRaised => stopTried \/ query # "running"

(* The hang this module exists to prevent: a failed query ends the loop,    *)
(* even if no wait call ever reports it and either signal stays unreadable. *)
FailureEndsTheWait == query = "failed" ~> pc = "done"

(* A query that ended cleanly ends the loop too, provided an isActive       *)
(* request made again and again is, now and then, answered: exception()     *)
(* answers None of a clean end, so it cannot show one.                      *)
CleanEndEndsTheWait ==
  SF_vars(ReadActive) => (query = "stopped" ~> pc = "done")
=============================================================================
