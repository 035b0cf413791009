------------------------ MODULE CheckpointStateProofs ------------------------
(***************************************************************************)
(* Proofs about CheckpointState, for every path depth and climb limit.     *)
(***************************************************************************)
EXTENDS CheckpointState, TLAPS

(* The inductive invariant: what each listing, and each change others make, *)
(* leaves true of the tree, the histories and the verdict.                  *)
THEOREM TreeInvariant == Spec => []TreeInv
<1> USE CheckpointAssumption DEF TreeInv, TypeOK, HAS_OFFSET, EMPTY, UNKNOWN
<1>1. Init => TreeInv
  <2> SUFFICES ASSUME Init
               PROVE  TreeInv
    OBVIOUS
  <2>1. /\ lowest \in 0..Root /\ ancestor \in 1..Root
        /\ climbs \in 0..MaxClimb /\ moves \in 0..MaxMoves
    BY DEF Init
  <2>2. hasBatch \in BOOLEAN /\ sawAbsent \in BOOLEAN /\ blind \in BOOLEAN
    BY Zenon DEF Init
  <2>3. climbs < MaxClimb
    BY DEF Init
  <2>4. /\ ~hasBatch => sawAbsent
        /\ hasBatch => lowest = 0
    BY DEF Init
  <2>5. pc = "offsets" /\ verdict = "none"
    BY DEF Init
  <2>6. QED
    BY <2>1, <2>2, <2>3, <2>4, <2>5
<1>2. TreeInv /\ [Next]_vars => TreeInv'
  <2> SUFFICES ASSUME TreeInv, [Next]_vars
               PROVE  TreeInv'
    OBVIOUS
  <2> USE DEF tree, history, Answer, Lists, Fails
  <2>1. CASE Delete
    <3>1. PICK low \in (lowest + 1)..Root : Moved(low, FALSE)
      BY <2>1 DEF Delete
    <3>2. low \in 0..Root
      OBVIOUS
    <3>3. lowest' = low /\ hasBatch' = FALSE /\ sawAbsent'
      BY <3>1 DEF Moved
    <3>4. moves' \in 0..MaxMoves
      BY <3>1 DEF Moved
    <3>5. sawAbsent' \in BOOLEAN
      BY <3>1, Zenon DEF Moved
    <3>6. UNCHANGED <<pc, ancestor, climbs, verdict, blind>>
      BY <3>1 DEF Moved
    <3>7. QED
      BY <3>2, <3>3, <3>4, <3>5, <3>6
  <2>2. CASE Create
    BY <2>2 DEF Create, Moved
  <2>3. CASE OffsetsListed
    BY <2>3 DEF OffsetsListed
  <2>4. CASE OffsetsUnlisted
    BY <2>4 DEF OffsetsUnlisted
  <2>5. CASE AncestorListed
    BY <2>5 DEF AncestorListed
  <2>6. CASE AncestorUnlisted
    BY <2>6 DEF AncestorUnlisted
  <2>7. CASE UNCHANGED vars
    BY <2>7 DEF vars
  <2>8. QED
    BY <2>1, <2>2, <2>3, <2>4, <2>5, <2>6, <2>7 DEF Next, Classify, Classified
<1>3. QED
  BY <1>1, <1>2, PTL DEF Spec

(* A checkpoint that held an offset throughout is never classified EMPTY:   *)
(* the guarantee the no-op seed depends on.                                 *)
THEOREM ExistingCheckpointNeverEmpty == Spec => []NeverMisreadEmpty
<1>1. TreeInv => NeverMisreadEmpty
  BY DEF TreeInv, NeverMisreadEmpty
<1>2. QED
  BY <1>1, TreeInvariant, PTL

(* Every classification answers as one look at the checkpoint would: an     *)
(* ancestor that lists without the child on the path, or an offsets         *)
(* directory without an offset, shows that none is there at that moment.    *)
THEOREM ClassificationIsOneLook == Spec => AnswersAsOneLook
<1>1. ASSUME TreeInv, [Next]_vars, verdict' # verdict
      PROVE  verdict' \in {UNKNOWN, IF hasBatch THEN HAS_OFFSET ELSE EMPTY}
  <2>1. CASE OffsetsListed
    BY <2>1 DEF OffsetsListed, Answer
  <2>2. CASE AncestorListed
    <3>1. hasBatch => lowest <= ancestor - 1
      BY <1>1, CheckpointAssumption DEF TreeInv, TypeOK
    <3>2. verdict' = IF lowest <= ancestor - 1 THEN UNKNOWN ELSE EMPTY
      BY <2>2 DEF AncestorListed, Answer
    <3>. QED BY <3>1, <3>2
  <2>3. CASE AncestorUnlisted
    BY <1>1, <2>3 DEF AncestorUnlisted, Answer
  <2>4. CASE Delete \/ Create \/ OffsetsUnlisted \/ Classified \/ UNCHANGED vars
    BY <1>1, <2>4 DEF Delete, Create, Moved, OffsetsUnlisted, Classified, vars
  <2>. QED BY <1>1, <2>1, <2>2, <2>3, <2>4 DEF Next, Classify
<1>2. QED
  BY <1>1, TreeInvariant, PTL DEF Spec, AnswersAsOneLook

-----------------------------------------------------------------------------
(* The climb of an undisturbed first run: every level below the one to be   *)
(* listed is known to be absent, and a climb has been spent on each.        *)
ClimbShape ==
  ~hasBatch /\ moves = 0 /\ ~blind =>
    /\ pc = "offsets" => ancestor = 1 /\ climbs = 0
    /\ pc = "climb" => ancestor = climbs + 1 /\ ancestor <= lowest

(* With it FirstRunIsSeen is inductive.                                     *)
FirstRunInv == TreeInv /\ ClimbShape /\ FirstRunIsSeen

(* A classification begins with no climb spent.                             *)
LEMMA InitFirstRun == Init => ClimbShape /\ FirstRunIsSeen
BY DEF Init, ClimbShape, FirstRunIsSeen

(* Without an offset, another actor or a failed listing of a directory that *)
(* exists, the climb goes up level by level to the nearest existing one.    *)
LEMMA StepKeepsFirstRun ==
  ASSUME FirstRunInv, [Next]_vars
  PROVE  ClimbShape' /\ FirstRunIsSeen'
<1> USE CheckpointAssumption DEF FirstRunInv, tree, history, Answer
<1>1. /\ lowest \in 0..Root /\ ancestor \in 1..Root /\ climbs \in 0..MaxClimb
      /\ moves \in Nat
  BY DEF TreeInv, TypeOK
<1>2. CASE Delete \/ Create
  <2>1. moves' = moves + 1
    BY <1>2 DEF Delete, Create, Moved
  <2>2. QED
    BY <1>1, <2>1 DEF ClimbShape, FirstRunIsSeen
<1>3. CASE OffsetsListed
  BY <1>1, <1>3 DEF OffsetsListed, Lists, ClimbShape, FirstRunIsSeen
<1>4. CASE OffsetsUnlisted
  <2>1. ~blind' => ~blind /\ ~(lowest <= 0)
    BY <1>4, Zenon DEF OffsetsUnlisted, Fails
  <2>2. /\ pc = "offsets" /\ pc' = "climb"
        /\ UNCHANGED <<lowest, hasBatch, ancestor, climbs, moves>>
    BY <1>4 DEF OffsetsUnlisted
  <2>3. QED
    BY <1>1, <2>1, <2>2 DEF ClimbShape, FirstRunIsSeen
<1>5. CASE AncestorListed
  BY <1>1, <1>5 DEF AncestorListed, Lists, ClimbShape, FirstRunIsSeen
<1>6. CASE AncestorUnlisted
  <2>1. ~blind' => ~blind /\ ~(lowest <= ancestor)
    BY <1>6, Zenon DEF AncestorUnlisted, Fails
  <2>2. /\ pc = "climb" /\ climbs' = climbs + 1 /\ UNCHANGED <<lowest, hasBatch, moves>>
        /\ IF ancestor = Root \/ climbs' >= MaxClimb
             THEN pc' = "done"
             ELSE ancestor' = ancestor + 1 /\ pc' = pc
    BY <1>6 DEF AncestorUnlisted
  <2>3. QED
    BY <1>1, <2>1, <2>2 DEF ClimbShape, FirstRunIsSeen
<1>7. CASE UNCHANGED vars
  BY <1>7 DEF vars, ClimbShape, FirstRunIsSeen
<1>8. QED
  BY <1>2, <1>3, <1>4, <1>5, <1>6, <1>7 DEF Next, Classify, Classified

(* The invariant of the climb, for every depth of the path and climb limit. *)
THEOREM FirstRunInvariant == Spec => []FirstRunInv
<1>1. Init /\ TreeInv => FirstRunInv
  BY InitFirstRun DEF FirstRunInv
<1>2. FirstRunInv /\ TreeInv' /\ [Next]_vars => FirstRunInv'
  BY StepKeepsFirstRun DEF FirstRunInv
<1>3. QED
  BY <1>1, <1>2, TreeInvariant, PTL DEF Spec

(* A genuine first run is classified EMPTY, never UNKNOWN, when nobody else *)
(* touches the tree, no listing of an existing directory fails and one      *)
(* exists within max_climb.                                                 *)
THEOREM FirstRunIsClassified == Spec => []FirstRunIsSeen
<1>1. FirstRunInv => FirstRunIsSeen
  BY DEF FirstRunInv
<1>2. QED
  BY <1>1, FirstRunInvariant, PTL
=============================================================================
