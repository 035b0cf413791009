--------------------------- MODULE CheckpointClear ----------------------------
(***************************************************************************)
(* notebooks/checkpoint_clear.py: up to twenty runs of the job may clear   *)
(* one checkpoint at a time, next to a stream that writes it.  Removing a  *)
(* directory takes time and may stop half-way.                             *)
(***************************************************************************)
CONSTANT Clears   \* runs of the job for one config

VARIABLES dir,      \* the checkpoint directory: "absent", "part" or "whole"
          clear,    \* run -> pc, EXISTED_BEFORE, CLEAR_ERROR, GONE_AFTER, outcome
          written   \* history: the runs since whose last sight of it the stream wrote

clearVars == <<dir, clear, written>>

ClearInit ==
    /\ dir \in {"absent", "part", "whole"}
    /\ clear = [r \in Clears |->
         [pc |-> "list", existed |-> FALSE, error |-> FALSE, gone |-> FALSE, outcome |-> "none"]]
    /\ written = {}

At(r, pc) == clear[r].pc = pc
Becomes(r, new) == clear' = [clear EXCEPT ![r] = new]
ClearError(r, next) == Becomes(r, [clear[r] EXCEPT !.pc = next, !.error = TRUE])

(* Cell 2 is not guarded: when the base cannot be listed the run ends.     *)
ListBefore(r) ==
    /\ At(r, "list")
    /\ \E next \in {"probe", "dead"} : Becomes(r, [clear[r] EXCEPT !.pc = next])
    /\ UNCHANGED <<dir, written>>

(* Only a positive not-found means absent; any other error is CLEAR_ERROR. *)
MutProbe(r) ==
    /\ At(r, "probe")
    /\ \E present \in BOOLEAN :
         /\ dir = "absent" => ~present
         /\ Becomes(r, [clear[r] EXCEPT !.pc = IF present THEN "remove" ELSE "recheck", !.existed = present])
    /\ written' = written \ {r} /\ UNCHANGED dir
Probe(r) ==
    /\ At(r, "probe")
    /\ \/ /\ Becomes(r, [clear[r] EXCEPT !.pc = IF dir # "absent" THEN "remove" ELSE "recheck",
                                         !.existed = dir # "absent"])
          /\ written' = written \ {r}
       \/ ClearError(r, "report") /\ written' = written
    /\ UNCHANGED dir

(* rm(recurse): some of it at a time; a path that is gone is no error.     *)
RemoveSome(r) ==
    /\ At(r, "remove") /\ dir = "whole"
    /\ dir' = "part" /\ UNCHANGED <<clear, written>>
RemoveEnds(r) ==
    /\ At(r, "remove")
    /\ \/ /\ dir' = "absent" /\ written' = written \ {r}
          /\ Becomes(r, [clear[r] EXCEPT !.pc = "recheck"])
       \/ ClearError(r, "report") /\ UNCHANGED <<dir, written>>

\* The listing before it is for the log only; the check is of the target itself.
Recheck(r) ==
    /\ At(r, "recheck")
    /\ \/ /\ Becomes(r, [clear[r] EXCEPT !.pc = "report", !.gone = dir = "absent"])
          /\ written' = IF clear[r].existed /\ dir = "absent" THEN written \ {r} ELSE written
       \/ ClearError(r, "report") /\ written' = written
    /\ UNCHANGED dir

Outcome(c) ==
    IF c.error THEN "ERROR"
    ELSE IF ~c.existed THEN "NOT_PRESENT"
    ELSE IF c.gone THEN "DELETED" ELSE "DELETE_INCOMPLETE"
Report(r) ==
    /\ At(r, "report")
    /\ Becomes(r, [clear[r] EXCEPT !.outcome = Outcome(clear[r]),
         !.pc = IF Outcome(clear[r]) \in {"DELETED", "NOT_PRESENT"} THEN "green" ELSE "red"])
    /\ UNCHANGED <<dir, written>>

(* A stream on the checkpoint, restarted in between or never stopped.      *)
StreamWrites ==
    /\ dir' \in {"part", "whole"} /\ written' = Clears /\ UNCHANGED clear

ClearNext ==
    \/ \E r \in Clears : \/ ListBefore(r) \/ Probe(r) \/ RemoveSome(r) \/ RemoveEnds(r)
                         \/ Recheck(r) \/ Report(r)
    \/ StreamWrites

-----------------------------------------------------------------------------
(* What a run reports is what happened, whatever other runs of the job do  *)
(* at the same time: after DELETED or NOT_PRESENT the checkpoint is gone   *)
(* unless the stream wrote it since, so that the next start is a first     *)
(* run; DELETE_INCOMPLETE means that the stream wrote it back, and a       *)
(* delete that stopped half-way is never green.                            *)
ClearVerdictIsTrue ==
    \A r \in Clears :
        /\ clear[r].outcome \in {"DELETED", "NOT_PRESENT"} /\ r \notin written => dir = "absent"
        /\ clear[r].outcome = "DELETED" => clear[r].existed /\ clear[r].gone
        /\ clear[r].outcome = "DELETE_INCOMPLETE" => r \in written
        /\ (clear[r].pc = "green") = (clear[r].outcome \in {"DELETED", "NOT_PRESENT"})
=============================================================================
