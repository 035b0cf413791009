-------------------------- MODULE AwaitStreamProofs --------------------------
(***************************************************************************)
(* Proofs about AwaitStream, for every MaxErrors.                          *)
(***************************************************************************)
EXTENDS AwaitStream, TLAPS

(* Nothing the server does on its own disturbs what the loop knows. *)
LEMMA ServerKeepsLoopInv ==
  ASSUME LoopInv, Server
  PROVE  LoopInv'
<1> USE DEF LoopInv, TypeOK, CountBelowLimit, SignalsAreSound, EndsAreSound,
            OutcomesAreSound, RaiseIsHandled, Steps, Outcomes, history
<1>1. ASSUME NEW how \in {"stopped", "failed"}, QueryEnds(how)
      PROVE  LoopInv'
  <2>1. TypeOK'
    BY <1>1 DEF QueryEnds
  <2>2. CountBelowLimit'
    BY <1>1 DEF QueryEnds
  <2>3. SignalsAreSound'
    BY <1>1 DEF QueryEnds
  <2>4. EndsAreSound'
    BY <1>1 DEF QueryEnds
  <2>5. OutcomesAreSound'
    BY <1>1 DEF QueryEnds
  <2>6. RaiseIsHandled'
    BY <1>1 DEF QueryEnds
  <2>7. QED
    BY <2>1, <2>2, <2>3, <2>4, <2>5, <2>6 DEF LoopInv
<1>2. CASE ShowInactive
  <2>1. TypeOK'
    <3>1. active' \in BOOLEAN
      BY <1>2 DEF ShowInactive
    <3>2. hasRecord' = hasRecord /\ hasRecord \in BOOLEAN
      BY <1>2 DEF ShowInactive
    <3>3. QED
      BY <1>2, <3>1, <3>2 DEF ShowInactive
  <2>2. CountBelowLimit'
    BY <1>2 DEF ShowInactive
  <2>3. SignalsAreSound'
    BY <1>2 DEF ShowInactive
  <2>4. EndsAreSound'
    BY <1>2 DEF ShowInactive
  <2>5. OutcomesAreSound'
    BY <1>2 DEF ShowInactive
  <2>6. RaiseIsHandled'
    BY <1>2 DEF ShowInactive
  <2>7. QED
    BY <2>1, <2>2, <2>3, <2>4, <2>5, <2>6 DEF LoopInv
<1>3. CASE ShowFailure
  BY <1>3 DEF ShowFailure
<1>4. QED
  BY <1>1, <1>2, <1>3 DEF Server

(* Every request the loop makes, and every decision between two of them,    *)
(* keeps what the loop knows true.                                          *)
LEMMA LoopKeepsLoopInv ==
  ASSUME LoopInv, Loop
  PROVE  LoopInv'
<1> USE AwaitAssumption
    DEF LoopInv, TypeOK, CountBelowLimit, SignalsAreSound, EndsAreSound,
        OutcomesAreSound, RaiseIsHandled, Steps, Outcomes, server, history, WaitAnswers
<1>1. CASE WaitSlice
  BY <1>1 DEF WaitSlice
<1>2. CASE ReadActive
  BY <1>2 DEF ReadActive
<1>3. CASE ActiveReadFails
  BY <1>3 DEF ActiveReadFails
<1>4. CASE ReadException
  <2>1. TypeOK'
    BY <1>4 DEF ReadException
  <2>2. CountBelowLimit'
    BY <1>4 DEF ReadException
  <2>3. SignalsAreSound'
    BY <1>4 DEF ReadException
  <2>4. EndsAreSound'
    BY <1>4 DEF ReadException
  <2>5. OutcomesAreSound'
    BY <1>4 DEF ReadException
  <2>6. RaiseIsHandled'
    BY <1>4 DEF ReadException
  <2>7. QED
    BY <2>1, <2>2, <2>3, <2>4, <2>5, <2>6 DEF LoopInv
<1>5. CASE Tally
  BY <1>5 DEF Tally
<1>6. CASE Record
  <2>1. TypeOK'
    BY <1>6 DEF Record
  <2>2. CountBelowLimit'
    BY <1>6 DEF Record
  <2>3. SignalsAreSound'
    BY <1>6 DEF Record
  <2>4. EndsAreSound'
    <3>1. CASE ended
      <4>1. pc' \in {"recordFailed", "verdict"}
        BY <1>6, <3>1 DEF Record
      <4>2. QED
        BY <1>6, <3>1, <4>1 DEF Record
    <3>2. CASE ~ended
      <4>1. pc' \in {"stop", "wait"}
        BY <1>6, <3>2 DEF Record
      <4>2. QED
        BY <1>6, <3>2, <4>1 DEF Record
    <3>3. QED
      BY <3>1, <3>2
  <2>5. OutcomesAreSound'
    BY <1>6 DEF Record
  <2>6. RaiseIsHandled'
    BY <1>6 DEF Record
  <2>7. QED
    BY <2>1, <2>2, <2>3, <2>4, <2>5, <2>6 DEF LoopInv
<1>7. CASE RecordLast
  BY <1>7 DEF RecordLast
<1>8. CASE StopQuery
  BY <1>8 DEF StopQuery
<1>9. CASE RecordFailed
  BY <1>9 DEF RecordFailed
<1>10. CASE Verdict
  BY <1>10 DEF Verdict
<1>11. CASE Confirm
  BY <1>11 DEF Confirm
<1>12. CASE ConfirmVerdict
  BY <1>12 DEF ConfirmVerdict
<1>13. QED
  BY <1>1, <1>2, <1>3, <1>4, <1>5, <1>6, <1>7, <1>8, <1>9, <1>10, <1>11, <1>12 DEF Loop

(* The inductive invariant of the wait loop, its type correctness included. *)
THEOREM LoopInvariant == Spec => []LoopInv
<1>1. Init => LoopInv
  <2> SUFFICES ASSUME Init
               PROVE  LoopInv
    OBVIOUS
  <2>1. TypeOK
    <3>1. errors \in 0..MaxErrors
      BY AwaitAssumption DEF Init
    <3>2. QED
      BY <3>1 DEF Init, TypeOK, Steps, Outcomes
  <2>2. CountBelowLimit /\ SignalsAreSound
    BY AwaitAssumption DEF Init, CountBelowLimit, SignalsAreSound
  <2>3. EndsAreSound /\ OutcomesAreSound
    BY DEF Init, EndsAreSound, OutcomesAreSound
  <2>4. RaiseIsHandled
    BY DEF Init, RaiseIsHandled
  <2>5. QED
    BY <2>1, <2>2, <2>3, <2>4 DEF LoopInv
<1>2. LoopInv /\ [Next]_vars => LoopInv'
  <2>1. ASSUME LoopInv, UNCHANGED vars
        PROVE  LoopInv'
    BY <2>1 DEF vars, LoopInv, TypeOK, CountBelowLimit, SignalsAreSound, EndsAreSound,
                OutcomesAreSound, RaiseIsHandled, Steps, Outcomes
  <2>2. QED
    BY <2>1, ServerKeepsLoopInv, LoopKeepsLoopInv DEF Next, Terminated
<1>3. QED
  BY <1>1, <1>2, PTL DEF Spec

(* A normal return of await_stream means the query ended without an error,  *)
(* whatever the server shows late, loses or fails to answer.                *)
THEOREM NormalReturnOnlyWhenClean == Spec => []NormalReturnIsClean
<1>1. LoopInv => NormalReturnIsClean
  BY DEF LoopInv, OutcomesAreSound, NormalReturnIsClean
<1>2. QED
  BY <1>1, LoopInvariant, PTL

(* A record error never leaves the query running without a stop request,    *)
(* as long as the wait call fails only when the query did.                  *)
THEOREM UnloggedStreamStops == Spec => []UnloggedStreamIsStopped
<1>1. LoopInv => UnloggedStreamIsStopped
  BY DEF LoopInv, RaiseIsHandled, UnloggedStreamIsStopped
<1>2. QED
  BY <1>1, LoopInvariant, PTL

-----------------------------------------------------------------------------
(* Once the loop has found the query ended and called record, it has        *)
(* recorded after the end: it comes to a verdict only through that call.    *)
VerdictIsRecorded ==
  hasRecord /\ pc \in {"recordFailed", "verdict", "confirm", "confirmed"} => recordedAfterEnd

(* With it EndIsRecorded is inductive. *)
RecordInv == LoopInv /\ VerdictIsRecorded /\ EndIsRecorded

(* The server moves neither the loop nor what it has recorded.              *)
LEMMA ServerKeepsRecordInv ==
  ASSUME RecordInv, Server
  PROVE  VerdictIsRecorded' /\ EndIsRecorded'
<1>1. UNCHANGED <<hasRecord, pc, outcome, recordedAfterEnd>>
  BY DEF Server, QueryEnds, ShowInactive, ShowFailure, history
<1>2. QED
  BY <1>1 DEF RecordInv, VerdictIsRecorded, EndIsRecorded

(* Every path of the loop to a reported end passes a record call made when  *)
(* the query was over.                                                      *)
LEMMA LoopKeepsRecordInv ==
  ASSUME RecordInv, Loop
  PROVE  VerdictIsRecorded' /\ EndIsRecorded'
<1> USE DEF RecordInv, VerdictIsRecorded, EndIsRecorded, server, history
<1>1. CASE WaitSlice
  BY <1>1 DEF WaitSlice, LoopInv, OutcomesAreSound
<1>2. CASE ReadActive \/ ActiveReadFails \/ ReadException
  BY <1>2 DEF ReadActive, ActiveReadFails, ReadException
<1>3. CASE Tally
  BY <1>3 DEF Tally, LoopInv, OutcomesAreSound
<1>4. CASE Record
  <2>1. ended => query # "running"
    BY <1>4 DEF Record, LoopInv, EndsAreSound
  <2>2. pc' \in {"recordFailed", "verdict"} => ended
    BY <1>4 DEF Record
  <2>3. pc' \in {"recordFailed", "verdict", "stop", "wait"}
    BY <1>4 DEF Record
  <2>4. query # "running" => recordedAfterEnd'
    BY <1>4 DEF Record
  <2>5. QED
    BY <2>1, <2>2, <2>3, <2>4
<1>5. CASE RecordLast
  <2>1. /\ UNCHANGED outcome /\ outcome \in {"query", "wait"} /\ pc' = "done"
        /\ outcome = "query" => query = "failed"
    BY <1>5 DEF RecordLast, LoopInv, OutcomesAreSound
  <2>2. query # "running" => recordedAfterEnd'
    BY <1>5 DEF RecordLast
  <2>3. QED
    BY <2>1, <2>2
<1>6. CASE StopQuery
  BY <1>6 DEF StopQuery
<1>7. CASE RecordFailed
  BY <1>7 DEF RecordFailed
<1>8. CASE Verdict
  BY <1>8 DEF Verdict
<1>9. CASE Confirm
  BY <1>9 DEF Confirm
<1>10. CASE ConfirmVerdict
  BY <1>10 DEF ConfirmVerdict
<1>11. QED
  BY <1>1, <1>2, <1>3, <1>4, <1>5, <1>6, <1>7, <1>8, <1>9, <1>10 DEF Loop

(* The invariant of the record callback's calls.                            *)
THEOREM RecordInvariant == Spec => []RecordInv
<1>1. Init /\ LoopInv => RecordInv
  BY DEF Init, RecordInv, VerdictIsRecorded, EndIsRecorded
<1>2. RecordInv /\ LoopInv' /\ [Next]_vars => RecordInv'
  <2>1. ASSUME RecordInv, UNCHANGED vars
        PROVE  VerdictIsRecorded' /\ EndIsRecorded'
    BY <2>1 DEF vars, RecordInv, VerdictIsRecorded, EndIsRecorded
  <2>2. QED
    BY <2>1, ServerKeepsRecordInv, LoopKeepsRecordInv DEF RecordInv, Next, Terminated
<1>3. QED
  BY <1>1, <1>2, LoopInvariant, PTL DEF Spec

(* Whenever the loop reports the end of the main query, clean or failed,    *)
(* the recorder was called at least once after that end: the batches of the *)
(* last slice got their batch_summary rows.                                 *)
THEOREM ReportedEndIsRecorded == Spec => []EndIsRecorded
<1>1. RecordInv => EndIsRecorded
  BY DEF RecordInv
<1>2. QED
  BY <1>1, RecordInvariant, PTL
=============================================================================
