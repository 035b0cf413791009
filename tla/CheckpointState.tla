--------------------------- MODULE CheckpointState ---------------------------
(***************************************************************************)
(* checkpoint_offsets_state of pipeline_lib/checkpoint.py: does a stream's *)
(* checkpoint hold a batch offset?  The answer is built from directory     *)
(* listings, any of which may fail for any reason, while the tree may be   *)
(* changed by others (an operator's checkpoint clear, a query of another   *)
(* run).                                                                   *)
(*                                                                         *)
(* The path is a chain of levels: 0 is the offsets directory, 1 the        *)
(* checkpoint location, Root the top of the file system.  A directory      *)
(* exists only with every level above it, so one number says which exist.  *)
(***************************************************************************)
EXTENDS Naturals

CONSTANTS
  Root,      \* the level that has no parent
  MaxClimb,  \* max_climb: ancestors listed at most
  MaxMoves   \* bound: changes others make to the tree during one classification

ASSUME CheckpointAssumption ==
  /\ Root \in Nat \ {0}
  /\ MaxClimb \in Nat \ {0}
  /\ MaxMoves \in Nat

VARIABLES
  lowest,     \* the lowest level that exists
  hasBatch,   \* the offsets directory holds an integer-named file
  pc,         \* "offsets": about to list level 0; "climb": an ancestor; "done"
  ancestor,   \* the level to list next; its child on the path is ancestor - 1
  climbs,     \* iterations of the climb
  verdict,
  \* history of this classification
  moves,      \* changes others made
  sawAbsent,  \* at some moment there was no batch offset
  blind       \* a listing of an existing directory failed

tree == <<lowest, hasBatch>>
history == <<moves, sawAbsent>>
vars == <<lowest, hasBatch, pc, ancestor, climbs, verdict, moves, sawAbsent, blind>>

HAS_OFFSET == "has_offset"
EMPTY == "empty"
UNKNOWN == "unknown"

TypeOK ==
  /\ lowest \in 0..Root
  /\ hasBatch \in BOOLEAN
  /\ pc \in {"offsets", "climb", "done"}
  /\ ancestor \in 1..Root
  /\ climbs \in 0..MaxClimb
  /\ verdict \in {"none", HAS_OFFSET, EMPTY, UNKNOWN}
  /\ moves \in 0..MaxMoves
  /\ sawAbsent \in BOOLEAN
  /\ blind \in BOOLEAN

Init ==
  /\ lowest \in 0..Root
  /\ hasBatch \in BOOLEAN
  /\ hasBatch => lowest = 0
  /\ pc = "offsets"
  /\ ancestor = 1
  /\ climbs = 0
  /\ verdict = "none"
  /\ moves = 0
  /\ sawAbsent = ~hasBatch
  /\ blind = FALSE

-----------------------------------------------------------------------------
(* Others: a recursive delete from some level down, or a query creating the *)
(* checkpoint and writing its first offset.                                 *)
Moved(low, batch) ==
  /\ pc # "done"
  /\ moves < MaxMoves
  /\ moves' = moves + 1
  /\ lowest' = low
  /\ hasBatch' = batch
  /\ sawAbsent' = (sawAbsent \/ ~batch)
  /\ UNCHANGED <<pc, ancestor, climbs, verdict, blind>>

Delete == \E low \in (lowest + 1)..Root : Moved(low, FALSE)
Create == \E batch \in BOOLEAN : (batch # hasBatch \/ lowest # 0) /\ Moved(0, batch \/ hasBatch)

-----------------------------------------------------------------------------
(* ls of a level: it can list only an existing directory, and may fail.     *)
Lists(level) == lowest <= level
Fails(level) == blind' = (blind \/ lowest <= level)

Answer(v) == verdict' = v /\ pc' = "done"

(* The mutants: a listing failure taken for absence, a marker taken for an  *)
(* offset, and a climb that looks at the wrong child.                       *)
MutFailureIsAbsence ==
  /\ pc = "offsets"
  /\ Fails(0)
  /\ Answer(EMPTY)
  /\ UNCHANGED <<tree, ancestor, climbs, history>>

MutAnyEntryIsAnOffset ==
  /\ pc = "offsets"
  /\ Lists(0)
  /\ Answer(HAS_OFFSET)
  /\ UNCHANGED <<tree, ancestor, climbs, history, blind>>

MutAncestorProvesPresence ==
  /\ pc = "climb"
  /\ Lists(ancestor)
  /\ Answer(UNKNOWN)
  /\ UNCHANGED <<tree, ancestor, climbs, history, blind>>

-----------------------------------------------------------------------------
(* The offsets directory itself lists: its contents decide. *)
OffsetsListed ==
  /\ pc = "offsets"
  /\ Lists(0)
  /\ Answer(IF hasBatch THEN HAS_OFFSET ELSE EMPTY)
  /\ UNCHANGED <<tree, ancestor, climbs, history, blind>>

(* It does not list, for whatever reason: the climb starts. *)
OffsetsUnlisted ==
  /\ pc = "offsets"
  /\ Fails(0)
  /\ pc' = "climb"
  /\ UNCHANGED <<tree, ancestor, climbs, verdict, history>>

(* An ancestor lists: the child on the path is there, or positively absent. *)
AncestorListed ==
  /\ pc = "climb"
  /\ Lists(ancestor)
  /\ Answer(IF lowest <= ancestor - 1 THEN UNKNOWN ELSE EMPTY)
  /\ UNCHANGED <<tree, ancestor, climbs, history, blind>>

(* It does not list: one level up, unless at the root or out of climbs. *)
AncestorUnlisted ==
  /\ pc = "climb"
  /\ Fails(ancestor)
  /\ climbs' = climbs + 1
  /\ IF ancestor = Root \/ climbs' >= MaxClimb
       THEN Answer(UNKNOWN) /\ UNCHANGED ancestor
       ELSE ancestor' = ancestor + 1 /\ UNCHANGED <<pc, verdict>>
  /\ UNCHANGED <<tree, history>>

Classify == OffsetsListed \/ OffsetsUnlisted \/ AncestorListed \/ AncestorUnlisted

(* The verdict is given. *)
Classified == pc = "done" /\ UNCHANGED vars

Next == Delete \/ Create \/ Classify \/ Classified

Spec == Init /\ [][Next]_vars

-----------------------------------------------------------------------------
(* What the histories mean, and where an offset can be. *)
TreeInv ==
  /\ TypeOK
  /\ hasBatch => lowest = 0
  /\ ~hasBatch => sawAbsent
  /\ pc # "done" => verdict = "none" /\ climbs < MaxClimb
  /\ verdict = EMPTY => sawAbsent

(* "an existing checkpoint can never be misread as absent": a checkpoint    *)
(* whose offset was there all along is never answered EMPTY, whichever      *)
(* listings failed and whatever others did.                                 *)
NeverMisreadEmpty == verdict = EMPTY => sawAbsent

(* Though made of several listings between which others may delete and      *)
(* create, the answer is one that a single look at the checkpoint could     *)
(* give at the moment it is given: HAS_OFFSET, by which Spark resumes, only *)
(* of a checkpoint with an offset, EMPTY, by which it is seeded, only of    *)
(* one without.  It is what StreamStart takes a classification for.         *)
AnswersAsOneLook ==
  [][verdict' # verdict =>
       verdict' \in {UNKNOWN, IF hasBatch THEN HAS_OFFSET ELSE EMPTY}]_vars

(* "a genuine first run is still positively classified": with no offset, no *)
(* other actor and no failing listing of an existing directory, the climb   *)
(* ends at the nearest existing ancestor with EMPTY, never with UNKNOWN.    *)
FirstRunIsSeen ==
  pc = "done" /\ ~hasBatch /\ moves = 0 /\ ~blind /\ lowest <= MaxClimb => verdict = EMPTY
=============================================================================
