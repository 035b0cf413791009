------------------------ MODULE ClusterLogPruneProofs ------------------------
(***************************************************************************)
(* Proofs about ClusterLogPrune, for every tree of paths, any number of    *)
(* clusters, failing calls and changes by others.  PruneInv is inductive   *)
(* by itself; what is reported, and what a delivery can do to an otherwise *)
(* undisturbed run, take the order of the removals on top of it: ReportInv *)
(* and RaceInv.                                                            *)
(***************************************************************************)
EXTENDS ClusterLogPrune, TLAPS

(* The root is a sequence of names like the paths below it. *)
LEMMA RootIsAPath == Root \in Seq(STRING) /\ Len(Root) = 0
BY DEF Root

(* A directory above a path: the next step towards the path is a directory  *)
(* in it, with the same first names, or the path itself.                    *)
LEMMA NextStep ==
  ASSUME NEW p \in Paths, NEW d \in Paths \cup {Root}, IsAbove(d, p)
  PROVE  \E q \in Upto(p) :
           /\ IsIn(q, d)
           /\ Len(q) \in 1..Len(p)
           /\ \A i \in 1..Len(q) : q[i] = p[i]
<1> DEFINE n == Len(d) + 1
           q == SubSeq(p, 1, n)
<1>1. p \in Seq(STRING) /\ Len(p) \in Nat /\ d \in Seq(STRING) /\ Len(d) \in Nat
  <2>1. p \in Seq(STRING) /\ d \in Seq(STRING)
    BY RootIsAPath, PruneAssumption
  <2>2. QED
    BY <2>1
<1>2. n \in 1..Len(p)
  BY <1>1 DEF IsAbove
<1>3. q \in Seq(STRING) /\ Len(q) = n /\ \A i \in 1..n : q[i] = p[i]
  BY <1>1, <1>2
<1>4. SubSeq(q, 1, Len(d)) = d
  <2>1. SubSeq(p, 1, Len(d)) = d
    BY DEF IsAbove
  <2>2. \A i \in 1..Len(d) : d[i] = p[i]
    BY <1>1, <1>2, <2>1
  <2>3. QED
    BY <1>1, <1>2, <1>3, <2>2
<1>5. IsIn(q, d)
  BY <1>1, <1>3, <1>4 DEF IsIn, IsAbove
<1>6. q \in Upto(p)
  <2>1. CASE n = Len(p)
    <3>1. q = p
      BY <1>1, <2>1
    <3>2. QED
      BY <3>1 DEF Upto
  <2>2. CASE n # Len(p)
    <3>1. n \in 1..(Len(p) - 1)
      BY <1>1, <1>2, <2>2
    <3>2. q \in Dirs
      BY <3>1, PruneAssumption
    <3>3. IsAbove(q, p)
      BY <1>1, <1>3, <3>1 DEF IsAbove
    <3>4. QED
      BY <3>2, <3>3 DEF Upto
  <2>3. QED
    BY <2>1, <2>2
<1>7. QED
  BY <1>2, <1>3, <1>5, <1>6

(* A directory above a directory above a path is above the path. *)
LEMMA AboveIsTransitive ==
  ASSUME NEW p \in Paths, NEW d \in Dirs, NEW x \in Dirs, IsAbove(x, d), IsAbove(d, p)
  PROVE  IsAbove(x, p)
<1>1. p \in Seq(STRING) /\ d \in Seq(STRING) /\ x \in Seq(STRING)
  BY PruneAssumption DEF Paths
<1>2. Len(x) < Len(d) /\ Len(d) < Len(p) /\ Len(x) \in Nat /\ Len(d) \in Nat /\ Len(p) \in Nat
  BY <1>1 DEF IsAbove
<1>3. \A i \in 1..Len(d) : d[i] = p[i]
  <2>1. SubSeq(p, 1, Len(d)) = d
    BY DEF IsAbove
  <2>2. QED
    BY <1>1, <1>2, <2>1
<1>4. \A i \in 1..Len(x) : x[i] = d[i]
  <2>1. SubSeq(d, 1, Len(x)) = x
    BY DEF IsAbove
  <2>2. QED
    BY <1>1, <1>2, <2>1
<1>5. SubSeq(p, 1, Len(x)) = x
  BY <1>1, <1>2, <1>3, <1>4
<1>6. QED
  BY <1>2, <1>5 DEF IsAbove

(* What is above a directory on the way to a path is above that path. *)
LEMMA AboveAbove ==
  ASSUME NEW p \in Paths, NEW d \in Upto(p)
  PROVE  Upto(d) \subseteq Upto(p)
BY AboveIsTransitive DEF Upto

(* A directory above a path is the one the path is in, or above that one. *)
LEMMA AboveOnTheWay ==
  ASSUME NEW p \in Paths, NEW d \in Dirs, NEW x \in Dirs, IsIn(p, d), IsAbove(x, p)
  PROVE  x = d \/ IsAbove(x, d)
<1>1. p \in Seq(STRING) /\ d \in Seq(STRING) /\ x \in Seq(STRING)
  BY PruneAssumption DEF Paths
<1>2. /\ Len(x) \in Nat /\ Len(d) \in Nat /\ Len(p) = Len(d) + 1
      /\ Len(x) <= Len(d)
  BY <1>1 DEF IsAbove, IsIn
<1>3. SubSeq(p, 1, Len(d)) = d /\ SubSeq(p, 1, Len(x)) = x
  BY DEF IsAbove, IsIn
<1>4. CASE Len(x) = Len(d)
  BY <1>3, <1>4
<1>5. CASE Len(x) < Len(d)
  <2>1. SubSeq(d, 1, Len(x)) = x
    <3>1. \A i \in 1..Len(d) : d[i] = p[i]
      BY <1>1, <1>2, <1>3
    <3>2. \A i \in 1..Len(x) : x[i] = p[i]
      BY <1>1, <1>2, <1>3
    <3>3. QED
      BY <1>1, <1>2, <3>1, <3>2
  <2>2. QED
    BY <1>5, <2>1 DEF IsAbove
<1>6. QED
  BY <1>2, <1>4, <1>5

(* No path is above itself or above the root, and no file above anything. *)
LEMMA NotAbove ==
  /\ \A p \in Paths \cup {Root} : ~IsAbove(p, p) /\ ~IsAbove(p, Root)
  /\ \A p \in Files, q \in Paths : ~IsAbove(p, q)
<1>1. \A p \in Paths \cup {Root} : Len(p) \in Nat
  <2>1. \A p \in Paths \cup {Root} : p \in Seq(STRING)
    BY RootIsAPath, PruneAssumption
  <2>2. QED
    BY <2>1
<1>2. ASSUME NEW p \in Files, NEW q \in Paths, IsAbove(p, q)
      PROVE  FALSE
  <2>1. Len(p) \in 1..(Len(q) - 1) /\ SubSeq(q, 1, Len(p)) = p
    BY <1>1, <1>2, PruneAssumption DEF IsAbove, Paths
  <2>2. p \in Dirs
    BY <2>1, PruneAssumption
  <2>3. QED
    BY <2>2, PruneAssumption
<1>3. QED
  BY <1>1, <1>2, RootIsAPath DEF IsAbove

(* A path is in one directory only. *)
LEMMA OneParent ==
  ASSUME NEW p \in Paths, NEW d \in Paths \cup {Root}, NEW e \in Paths \cup {Root},
         IsIn(p, d), IsIn(p, e)
  PROVE  d = e
<1>1. p \in Seq(STRING) /\ d \in Seq(STRING) /\ e \in Seq(STRING)
  BY RootIsAPath, PruneAssumption
<1>2. Len(d) = Len(e)
  BY <1>1 DEF IsIn
<1>3. d = SubSeq(p, 1, Len(d)) /\ e = SubSeq(p, 1, Len(e))
  BY DEF IsIn, IsAbove
<1>4. QED
  BY <1>2, <1>3

(* Removing a childless path, or delivering one with the directories above  *)
(* it, keeps the tree a tree.                                               *)
LEMMA RemovalKeepsTree ==
  ASSUME there \subseteq Paths, \A q \in there : Upto(q) \subseteq there,
         NEW p \in there, Children(p) = {}
  PROVE  \A q \in there \ {p} : Upto(q) \subseteq there \ {p}
<1> SUFFICES ASSUME NEW q \in there, q # p, p \in Upto(q)
             PROVE  FALSE
  OBVIOUS
<1>1. IsAbove(p, q) /\ q \in Paths /\ p \in Paths \cup {Root}
  BY DEF Upto
<1>2. PICK c \in Upto(q) : IsIn(c, p)
  BY <1>1, NextStep
<1>3. c \in Children(p)
  BY <1>2 DEF Children
<1>4. QED
  BY <1>3

(* A delivery makes the directories of its file too: the tree stays a tree. *)
LEMMA DeliveryKeepsTree ==
  ASSUME there \subseteq Paths, \A q \in there : Upto(q) \subseteq there,
         NEW p \in Paths
  PROVE  /\ there \cup Upto(p) \subseteq Paths
         /\ \A q \in there \cup Upto(p) : Upto(q) \subseteq there \cup Upto(p)
BY AboveAbove DEF Upto, Paths

-----------------------------------------------------------------------------
(* What a step can do to the tree: nothing, remove one childless path, or   *)
(* deliver one.                                                             *)
Removal == \E p \in there : Children(p) = {} /\ there' = there \ {p} /\ aged' = aged \ {p}
Delivery == \E p \in Paths : there' = there \cup Upto(p) /\ aged' = aged \ {p}

(* The tree changes by one removal of something empty, by one delivery, or  *)
(* not at all.                                                              *)
LEMMA TreeChange ==
  ASSUME [Next]_vars
  PROVE  UNCHANGED <<there, aged>> \/ Removal \/ Delivery
<1>1. ASSUME NEW p, RmFails(p)
      PROVE  UNCHANGED <<there, aged>> \/ Removal
  BY <1>1 DEF RmFails, Rm, Removal
<1>2. CASE RemoveFile
  <2>1. PICK p \in todo : Rm(p) \/ RmFails(p)
    BY <1>2 DEF RemoveFile
  <2>2. QED
    BY <2>1, <1>1 DEF Rm, Removal
<1>3. CASE RemoveDir
  <2>1. PICK p \in todo : Rm(p) \/ RmFails(p) \/ UNCHANGED <<there, aged>>
    BY <1>3 DEF RemoveDir
  <2>2. QED
    BY <2>1, <1>1 DEF Rm, Removal
<1>4. CASE Deliver
  BY <1>4 DEF Deliver, Delivers, Delivery, Paths
<1>5. CASE Terminate
  BY <1>5 DEF Terminate, Delivers, Delivery
<1>6. CASE CleanUp
  BY <1>6 DEF CleanUp, Removal
<1>7. CASE Skip \/ ListRoot \/ ProbeRoot \/ PlanMade \/ CheckFile \/ FilesTried \/ CheckDir \/ Report
  BY <1>7 DEF Skip, ListRoot, ProbeRoot, PlanMade, CheckFile, FilesTried, CheckDir, Report, tree
<1>8. CASE \E d \in Dirs : List(d)
  BY <1>8 DEF List, tree
<1>9. CASE Finish \/ UNCHANGED vars
  BY <1>9 DEF Finish, vars, tree
<1>10. QED
  BY <1>2, <1>3, <1>4, <1>5, <1>6, <1>7, <1>8, <1>9 DEF Next, Run, Others

(* No step leaves a path without the directory it is in, or an age to a     *)
(* path that is gone.                                                       *)
LEMMA TreeStep ==
  ASSUME TypeOK, TreeInv, [Next]_vars
  PROVE  TreeInv'
<1> USE DEF TreeInv
<1>1. there \subseteq Paths
  BY DEF TypeOK
<1>2. aged' \subseteq aged
  BY TreeChange DEF Removal, Delivery
<1>3. site' = site
  BY DEF Next, Run, Others, Skip, ListRoot, ProbeRoot, List, PlanMade, RemoveFile, CheckFile,
         FilesTried, RemoveDir, CheckDir, Report, Finish, Deliver, Terminate, CleanUp, Move, vars, config
<1>4. aged' \subseteq there' /\ \A q \in there' : Upto(q) \subseteq there'
  <2>1. CASE UNCHANGED <<there, aged>>
    BY <2>1
  <2>2. CASE Removal
    <3>1. PICK p \in there : Children(p) = {} /\ there' = there \ {p} /\ aged' = aged \ {p}
      BY <2>2 DEF Removal
    <3>2. \A q \in there \ {p} : Upto(q) \subseteq there \ {p}
      BY <1>1, <3>1, RemovalKeepsTree
    <3>3. QED
      BY <3>1, <3>2
  <2>3. CASE Delivery
    <3>1. PICK p \in Paths : there' = there \cup Upto(p) /\ aged' = aged \ {p}
      BY <2>3 DEF Delivery
    <3>2. \A q \in there \cup Upto(p) : Upto(q) \subseteq there \cup Upto(p)
      BY <1>1, DeliveryKeepsTree
    <3>3. QED
      BY <3>1, <3>2
  <2>4. QED
    BY <2>1, <2>2, <2>3, TreeChange
<1>5. QED
  BY <1>2, <1>3, <1>4

-----------------------------------------------------------------------------
(* What is planned was listed, and the plan is fixed once the listings are. *)
LEMMA PlanIsListed ==
  /\ DeleteFiles \subseteq Files \cap entries
  /\ DeleteDirs \subseteq Dirs \cap entries
<1>1. DeleteFiles \subseteq Files \cap entries
  BY DEF DeleteFiles
<1>2. \A c : Within(c) \subseteq entries
  BY DEF Within
<1>3. DeleteDirs \subseteq Dirs \cap entries
  BY <1>2 DEF DeleteDirs
<1>4. QED
  BY <1>1, <1>3

(* The plan is a function of what the walk has seen. *)
LEMMA PlanIsFixed ==
  ASSUME UNCHANGED plan
  PROVE  DeleteFiles' = DeleteFiles /\ DeleteDirs' = DeleteDirs
BY DEF plan, DeleteFiles, DeleteDirs, Finished, Emptied, Within, Clean, HasOld, Walked, InLayout,
       IsAbove

(* No step puts anything but a path into the tree. *)
LEMMA TreeType ==
  ASSUME TypeOK, [Next]_vars
  PROVE  there' \subseteq Paths /\ aged' \subseteq Paths
<1>1. CASE UNCHANGED <<there, aged>>
  BY <1>1 DEF TypeOK
<1>2. CASE Removal
  BY <1>2 DEF Removal, TypeOK
<1>3. CASE Delivery
  <2>1. \A p \in Paths : Upto(p) \subseteq Paths
    BY DEF Upto, Paths
  <2>2. QED
    BY <1>3, <2>1 DEF Delivery, TypeOK
<1>4. QED
  BY <1>1, <1>2, <1>3, TreeChange

(* Every step keeps the type invariant. *)
LEMMA TypeStep ==
  ASSUME TypeOK, PlanInv, [Next]_vars
  PROVE  TypeOK'
<1> USE DEF TypeOK
<1>1. there' \subseteq Paths /\ aged' \subseteq Paths
  BY TreeType
<1>2. \A d : Children(d) \subseteq Paths
  BY DEF Children
<1>3. DeleteFiles \subseteq Paths /\ DeleteDirs \subseteq Paths
  BY PlanIsListed
<1>4. \A S : S \subseteq Paths => ToRemove(S) \subseteq Paths
  BY DEF ToRemove
<1>5. Fault \/ NoFault => faults' \in 0..MaxFaults
  BY PruneAssumption DEF Fault, NoFault
<1>6. ASSUME NEW p \in Paths, RmFails(p)
      PROVE  removed' \subseteq Paths /\ (Fault \/ NoFault)
  BY <1>6 DEF RmFails, Rm
<1>7. ASSUME NEW p \in Paths, Block(p)
      PROVE  blocked' \subseteq Dirs
  BY <1>7 DEF Block, Upto
<1>8. CASE Skip
  BY <1>1, <1>8, Zenon DEF Skip, tree, config, plan, result
<1>9. CASE ListRoot
  <2>1. /\ entries' \subseteq Paths /\ old' \subseteq entries' /\ failures' \subseteq Paths \cup {Root}
        /\ Fault \/ NoFault
    BY <1>2, <1>9 DEF ListRoot
  <2>2. pc' \in {"root", "probe", "walk", "files", "dirs", "done"}
    BY <1>9 DEF ListRoot
  <2>3. QED
    BY <1>1, <1>5, <1>9, <2>1, <2>2, Zenon DEF ListRoot, tree, config
<1>10. CASE ProbeRoot
  <2>1. failures' \subseteq Paths \cup {Root} /\ (Fault \/ NoFault) /\ pc' = "walk"
    BY <1>10 DEF ProbeRoot
  <2>2. QED
    BY <1>1, <1>5, <1>10, <2>1, Zenon DEF ProbeRoot, tree, config, plan
<1>11. ASSUME NEW d \in Dirs, List(d)
       PROVE  TypeOK'
  <2>1. /\ entries' \subseteq Paths /\ old' \subseteq entries' /\ unread' \subseteq listed'
        /\ listed' \subseteq Dirs
        /\ Fault \/ NoFault
    BY <1>2, <1>11 DEF List
  <2>2. QED
    BY <1>1, <1>5, <1>11, <2>1, Zenon DEF List, tree, config, result
<1>12. CASE PlanMade
  <2>1. failures' \subseteq Paths \cup {Root} /\ todo' \subseteq Paths
    BY <1>3, <1>4, <1>12 DEF PlanMade, Paths
  <2>2. QED
    BY <1>1, <1>12, <2>1, Zenon DEF PlanMade, tree, config, plan
<1>13. CASE RemoveFile
  <2>1. PICK p \in todo : (NoFault /\ Rm(p) /\ Tried(p)) \/ (RmFails(p) /\ item' = p /\ UNCHANGED todo)
    BY <1>13 DEF RemoveFile
  <2>2. p \in Paths
    OBVIOUS
  <2>3. removed' \subseteq Paths /\ (Fault \/ NoFault)
    BY <1>6, <2>1, <2>2 DEF Rm
  <2>4. todo' \subseteq Paths /\ item' \in Paths \cup {Root}
    BY <2>1, <2>2 DEF Tried
  <2>5. QED
    BY <1>1, <1>5, <1>13, <2>3, <2>4, Zenon DEF RemoveFile, config, plan, result
<1>14. CASE CheckFile
  <2>1. item \in Paths /\ todo' \subseteq Paths /\ item' = Root
    BY <1>14 DEF CheckFile, Tried
  <2>2. failures' \subseteq Paths \cup {Root} /\ (Fault \/ NoFault)
    BY <1>14, <2>1 DEF CheckFile, PositivelyGone
  <2>3. blocked' \subseteq Dirs
    BY <1>7, <1>14, <2>1 DEF CheckFile
  <2>4. QED
    BY <1>1, <1>5, <1>14, <2>1, <2>2, <2>3, Zenon DEF CheckFile, tree, config, plan
<1>15. CASE FilesTried
  <2>1. todo' \subseteq Paths
    BY <1>3, <1>4, <1>15 DEF FilesTried
  <2>2. QED
    BY <1>1, <1>15, <2>1, Zenon DEF FilesTried, tree, config, plan, result
<1>16. CASE RemoveDir
  <2>1. PICK p \in todo :
          \/ Tried(p) /\ NoFault /\ UNCHANGED <<there, aged, removed, notEmpty>>
          \/ NoFault /\ Rm(p) /\ Tried(p) /\ UNCHANGED notEmpty
          \/ /\ RmFails(p) /\ item' = p /\ UNCHANGED todo
             /\ notEmpty' \in IF faults' = faults THEN {p \in there} ELSE BOOLEAN
    BY <1>16 DEF RemoveDir
  <2>2. p \in Paths
    OBVIOUS
  <2>3. removed' \subseteq Paths /\ (Fault \/ NoFault)
    BY <1>6, <2>1, <2>2 DEF Rm
  <2>4. todo' \subseteq Paths /\ item' \in Paths \cup {Root}
    BY <2>1, <2>2 DEF Tried
  <2>5. notEmpty' \in BOOLEAN
    <3>1. CASE UNCHANGED notEmpty
      BY <3>1
    <3>2. CASE notEmpty' \in IF faults' = faults THEN {p \in there} ELSE BOOLEAN
      <4>1. (p \in there) \in BOOLEAN
        OBVIOUS
      <4>2. CASE faults' = faults
        BY <3>2, <4>1, <4>2
      <4>3. CASE faults' # faults
        BY <3>2, <4>3
      <4>4. QED
        BY <4>2, <4>3
    <3>3. QED
      BY <2>1, <3>1, <3>2
  <2>6. QED
    BY <1>1, <1>5, <1>16, <2>3, <2>4, <2>5, Zenon DEF RemoveDir, config, plan, result
<1>17. CASE CheckDir
  <2>1. item \in Dirs /\ todo' \subseteq Paths /\ item' = Root
    <3>1. item \in DeleteDirs
      BY <1>17 DEF CheckDir, PlanInv
    <3>2. QED
      BY <1>17, <3>1, PlanIsListed DEF CheckDir, Tried
  <2>2. failures' \subseteq Paths \cup {Root} /\ raced' \subseteq Dirs /\ (Fault \/ NoFault)
    BY <1>17, <2>1 DEF CheckDir, PositivelyGone, result, Paths
  <2>3. blocked' \subseteq Dirs
    BY <1>7, <1>17, <2>1 DEF CheckDir, result, Paths
  <2>4. QED
    BY <1>1, <1>5, <1>17, <2>1, <2>2, <2>3, Zenon DEF CheckDir, tree, config, plan
<1>18. CASE Report
  <2>1. outcome' \in {"none", "skipped", "green", "red"}
    BY <1>18 DEF Report
  <2>2. QED
    BY <1>1, <1>18, <2>1, Zenon DEF Report, tree, config, plan, result
<1>19. CASE Others
  <2>1. Move
    BY <1>19 DEF Others, Deliver, Terminate, CleanUp
  <2>2. moves' \in 0..MaxMoves
    BY <2>1, PruneAssumption DEF Move
  <2>3. cleaned' \subseteq Paths /\ running' \subseteq ClusterIds
    BY <1>19 DEF Others, Deliver, Terminate, CleanUp, Delivers
  <2>4. QED
    BY <1>1, <2>1, <2>2, <2>3, Zenon DEF Move, config, plan, result
<1>20. CASE Finish \/ UNCHANGED vars
  BY <1>20, Zenon DEF Finish, vars, tree, config, plan, result
<1>21. QED
  BY <1>8, <1>9, <1>10, <1>11, <1>12, <1>13, <1>14, <1>15, <1>16, <1>17, <1>18, <1>19, <1>20
  DEF Next, Run

-----------------------------------------------------------------------------
(* A call of rm removes at most the path it is given. *)
LEMMA RemovedIsTried ==
  ASSUME NEW p, Rm(p) \/ RmFails(p) \/ UNCHANGED removed
  PROVE  removed' \subseteq removed \cup {p}
BY DEF Rm, RmFails

(* A dry run removes nothing; a real one only what it planned. *)
LEMMA DryRemovesNothing ==
  ASSUME NEW S
  PROVE  ToRemove(S) \subseteq S /\ (ToRemove(S) # {} => ~dry)
BY DEF ToRemove

(* Every step keeps PlanInv: what is tried, blocked or removed was planned  *)
(* from the listings.                                                       *)
LEMMA PlanStep ==
  ASSUME TypeOK, PlanInv, [Next]_vars
  PROVE  PlanInv'
<1> USE DEF PlanInv
<1>1. CASE Skip
  BY <1>1, PlanIsFixed DEF Skip, plan, config, TypeOK
<1>2. CASE ListRoot
  <2>1. removed' = {} /\ todo' = {} /\ item' = Root /\ pc' \in {"walk", "probe"}
    BY <1>2 DEF ListRoot, TypeOK
  <2>2. listed' = {} /\ outcome' = "none" /\ (pc' = "probe" => entries' = {})
    BY <1>2 DEF ListRoot, TypeOK
  <2>3. ASSUME NEW e \in entries', NEW d \in Dirs, IsIn(e, d)
        PROVE  FALSE
    <3>1. IsIn(e, Root) /\ e \in Paths
      BY <1>2, <2>3 DEF ListRoot, Children, TypeOK
    <3>2. d = Root
      BY <2>3, <3>1, OneParent DEF Paths
    <3>3. QED
      BY <3>2, RootIsAPath, PruneAssumption DEF Paths
  <2>4. pc' = "probe" => site' # "dir"
    BY <1>2 DEF ListRoot, config
  <2>5. QED
    BY <2>1, <2>2, <2>3, <2>4
<1>3. CASE ProbeRoot
  BY <1>3, PlanIsFixed DEF ProbeRoot, plan, config
<1>4. ASSUME NEW d \in Dirs, List(d)
      PROVE  PlanInv'
  <2>1. removed' = {} /\ todo' = {} /\ item' = Root /\ pc' = "walk" /\ outcome' = "none"
    BY <1>4 DEF List, result
  <2>2. listed' = listed \cup {d} /\ d \in entries /\ entries \subseteq entries'
    BY <1>4 DEF List, Pending
  <2>3. ASSUME NEW e \in entries', NEW x \in Dirs, IsIn(e, x)
        PROVE  x \in listed'
    <3>1. CASE e \in entries
      BY <2>2, <2>3, <3>1
    <3>2. CASE e \notin entries
      <4>1. IsIn(e, d) /\ e \in Paths
        BY <1>4, <3>2 DEF List, Children, TypeOK
      <4>2. x = d
        BY <2>3, <4>1, OneParent DEF Paths
      <4>3. QED
        BY <2>2, <4>2
    <3>3. QED
      BY <3>1, <3>2
  <2>4. QED
    BY <2>1, <2>2, <2>3
<1>5. CASE PlanMade
  <2>1. /\ UNCHANGED plan /\ UNCHANGED <<item, removed, outcome, dry>>
        /\ pc = "walk" /\ pc' = "files" /\ todo' = ToRemove(DeleteFiles)
    BY <1>5 DEF PlanMade, config
  <2>2. QED
    BY <2>1, PlanIsFixed, DryRemovesNothing DEF plan
<1>6. CASE RemoveFile
  <2>1. /\ UNCHANGED plan /\ UNCHANGED <<outcome, dry, pc>> /\ pc = "files"
        /\ \E p \in todo : /\ todo' \subseteq todo
                           /\ item' = Root \/ (item' = p /\ p \in todo')
                           /\ Rm(p) \/ RmFails(p)
    BY <1>6 DEF RemoveFile, config, Tried
  <2>2. PICK p \in todo : /\ todo' \subseteq todo
                          /\ item' = Root \/ (item' = p /\ p \in todo')
                          /\ Rm(p) \/ RmFails(p)
    BY <2>1
  <2>3. removed' \subseteq removed \cup {p}
    BY <2>2, RemovedIsTried
  <2>4. QED
    BY <2>1, <2>2, <2>3, PlanIsFixed DEF plan
<1>7. CASE CheckFile
  BY <1>7, PlanIsFixed DEF CheckFile, Tried, plan, config
<1>8. CASE FilesTried
  <2>1. /\ UNCHANGED plan /\ UNCHANGED <<item, removed, outcome, dry>>
        /\ pc = "files" /\ pc' = "dirs" /\ todo = {} /\ todo' = ToRemove(DeleteDirs)
    BY <1>8 DEF FilesTried, config, result
  <2>2. QED
    BY <2>1, PlanIsFixed, DryRemovesNothing DEF plan
<1>9. CASE RemoveDir
  <2>1. /\ UNCHANGED plan /\ UNCHANGED <<outcome, dry, pc>> /\ pc = "dirs"
        /\ \E p \in todo : /\ todo' \subseteq todo
                           /\ item' = Root \/ (item' = p /\ p \in todo')
                           /\ Rm(p) \/ RmFails(p) \/ UNCHANGED removed
    BY <1>9 DEF RemoveDir, config, Tried
  <2>2. PICK p \in todo : /\ todo' \subseteq todo
                          /\ item' = Root \/ (item' = p /\ p \in todo')
                          /\ Rm(p) \/ RmFails(p) \/ UNCHANGED removed
    BY <2>1
  <2>3. removed' \subseteq removed \cup {p}
    BY <2>2, RemovedIsTried
  <2>4. QED
    BY <2>1, <2>2, <2>3, PlanIsFixed DEF plan
<1>10. CASE CheckDir
  BY <1>10, PlanIsFixed DEF CheckDir, Tried, plan, config
<1>11. CASE Report
  BY <1>11, PlanIsFixed DEF Report, plan, config
<1>12. CASE Others
  <2>1. Move
    BY <1>12 DEF Others, Deliver, Terminate, CleanUp
  <2>2. QED
    BY <2>1, PlanIsFixed DEF Move, plan, config
<1>13. CASE Finish \/ UNCHANGED vars
  BY <1>13, PlanIsFixed DEF Finish, vars, plan, config
<1>14. QED
  BY <1>1, <1>2, <1>3, <1>4, <1>5, <1>6, <1>7, <1>8, <1>9, <1>10, <1>11, <1>12, <1>13 DEF Next, Run

-----------------------------------------------------------------------------
(* No step makes an old log: what is delivered is new. *)
LEMMA OldLogsShrink ==
  ASSUME [Next]_vars
  PROVE  aged' \subseteq aged /\ OldLogs' \subseteq OldLogs
<1>1. aged' \subseteq aged
  BY TreeChange DEF Removal, Delivery
<1>2. QED
  BY <1>1 DEF OldLogs, InLayout

(* A directory above a log of the layout lists: the walk sees the log, or a *)
(* directory it will enter on the way to it.                                *)
LEMMA ListedTowards ==
  ASSUME TypeOK, TreeInv, NEW p \in OldLogs, NEW d \in Dirs \cup {Root}, IsAbove(d, p)
  PROVE  \/ p \in Children(d)
         \/ \E q \in Dirs : q \in Children(d) /\ IsAbove(q, p) /\ Walked(q) /\ Len(q) \in Nat
<1>1. p \in there /\ p \in Paths /\ InLayout(p)
  BY DEF OldLogs, TreeInv, Paths
<1>2. PICK q \in Upto(p) : /\ IsIn(q, d)
                           /\ Len(q) \in 1..Len(p)
                           /\ \A i \in 1..Len(q) : q[i] = p[i]
  BY <1>1, NextStep DEF Paths
<1>3. q \in Children(d)
  BY <1>1, <1>2 DEF TreeInv, Children
<1>4. CASE q = p
  BY <1>3, <1>4
<1>5. CASE q # p
  <2>1. q \in Dirs /\ IsAbove(q, p)
    BY <1>5 DEF Upto
  <2>2. q[1] = p[1] /\ (Len(q) >= 2 => q[2] = p[2]) /\ Len(q) \in Nat
    <3>1. p \in Seq(STRING)
      BY <1>1, PruneAssumption
    <3>2. Len(p) \in Nat
      BY <3>1
    <3>3. QED
      BY <1>2, <3>2
  <2>3. Walked(q)
    BY <1>1, <2>1, <2>2 DEF Walked, InLayout
  <2>4. QED
    BY <1>3, <2>1, <2>2, <2>3
<1>6. QED
  BY <1>4, <1>5

(* Every step keeps track of each old log that is still there. *)
LEMMA OldLogsStep ==
  ASSUME TypeOK, TreeInv, PlanInv, OldLogsInv, [Next]_vars
  PROVE  OldLogsInv'
<1> USE OldLogsShrink
<1>1. CASE Skip
  BY <1>1 DEF Skip, OldLogsInv
<1>2. CASE ListRoot
  <2>1. CASE pc' = "walk" /\ entries' = Children(Root) /\ listed' = {}
    <3>1. SUFFICES ASSUME NEW p \in OldLogs' \ old'
                   PROVE  \E d \in Dirs : IsAbove(d, p) /\ d \in Pending'
      BY <2>1 DEF OldLogsInv
    <3>2. p \in OldLogs /\ p \in Paths /\ InLayout(p)
      BY DEF OldLogs, Paths, InLayout
    <3>3. IsAbove(Root, p)
      <4>1. p \in Seq(STRING) /\ Len(p) \in Nat /\ Len(p) > 0
        <5>1. p \in Seq(STRING) /\ Len(p) > 0
          BY <3>2, PruneAssumption
        <5>2. QED
          BY <5>1
      <4>2. SubSeq(p, 1, 0) = <<>>
        BY <4>1
      <4>3. QED
        BY <4>1, <4>2, RootIsAPath DEF IsAbove, Root
    <3>4. p \notin Children(Root)
      <4>1. p \in Children(Root) => Len(p) = 1
        BY RootIsAPath DEF Children, IsIn
      <4>2. QED
        BY <3>2, <4>1 DEF InLayout
    <3>5. PICK q \in Dirs : q \in Children(Root) /\ IsAbove(q, p) /\ Walked(q)
      BY <3>2, <3>3, <3>4, ListedTowards
    <3>6. QED
      BY <2>1, <3>5 DEF Pending, Walked
  <2>2. QED
    <3>1. pc' = "probe" \/ failures' # {} \/ (pc' = "walk" /\ entries' = Children(Root))
      BY <1>2 DEF ListRoot
    <3>2. listed' = {}
      BY <1>2 DEF ListRoot, PlanInv
    <3>3. QED
      BY <2>1, <3>1, <3>2 DEF OldLogsInv
<1>3. CASE ProbeRoot
  <2>1. aged = {}
    BY <1>3 DEF ProbeRoot, PlanInv, TreeInv
  <2>2. OldLogs' = {} /\ pc' = "walk"
    BY <1>3, <2>1 DEF OldLogs, ProbeRoot
  <2>3. QED
    BY <2>2 DEF OldLogsInv
<1>4. ASSUME NEW d \in Dirs, List(d)
      PROVE  OldLogsInv'
  <2>1. failures' = failures /\ pc = "walk" /\ pc' = "walk" /\ d \in Pending /\ outcome' = outcome
    BY <1>4 DEF List, result
  <2>2. CASE failures = {}
    <3>1. SUFFICES ASSUME NEW p \in OldLogs' \ old'
                   PROVE  \E x \in Dirs : IsAbove(x, p) /\ x \in unread' \cup Pending'
      BY <2>1 DEF OldLogsInv
    <3>2. /\ old \subseteq old' /\ entries \subseteq entries' /\ unread \subseteq unread'
          /\ listed' = listed \cup {d}
      BY <1>4 DEF List
    <3>3. p \in OldLogs \ old
      BY <3>2
    <3>4. outcome # "skipped"
      BY <2>1 DEF PlanInv
    <3>5. PICK x \in Dirs : IsAbove(x, p) /\ x \in unread \cup Pending
      BY <2>1, <2>2, <3>3, <3>4 DEF OldLogsInv
    <3>6. CASE x # d \/ x \in unread
      BY <3>2, <3>5, <3>6 DEF Pending, Walked
    <3>7. CASE x = d /\ d \in unread'
      BY <3>5, <3>7
    <3>8. CASE x = d /\ d \notin unread'
      <4>1. Children(d) \subseteq entries' /\ Children(d) \cap aged \subseteq old'
        BY <1>4, <3>8 DEF List
      <4>2. p \notin Children(d)
        BY <3>3, <4>1 DEF OldLogs
      <4>3. PICK q \in Dirs : q \in Children(d) /\ IsAbove(q, p) /\ Walked(q) /\ Len(q) \in Nat
        BY <3>3, <3>5, <3>8, <4>2, ListedTowards
      <4>4. IsIn(q, d)
        BY <4>3 DEF Children
      <4>5. q \notin listed
        BY <2>1, <4>4 DEF PlanInv, Pending
      <4>6. q # d
        <5>1. Len(q) # Len(q) + 1
          BY <4>3
        <5>2. QED
          BY <4>4, <5>1 DEF IsIn
      <4>7. QED
        BY <3>2, <4>1, <4>3, <4>5, <4>6 DEF Pending, Walked
    <3>9. QED
      BY <3>6, <3>7, <3>8
  <2>3. QED
    BY <2>1, <2>2 DEF OldLogsInv
<1>5. CASE PlanMade
  <2>1. /\ failures' = failures \cup unread /\ pc = "walk" /\ pc' = "files" /\ Pending = {}
        /\ todo' = ToRemove(DeleteFiles) /\ dry' = dry /\ outcome = "none"
    BY <1>5 DEF PlanMade, config, PlanInv
  <2>2. CASE failures' = {} /\ ~dry
    <3>1. unread = {} /\ failures = {}
      BY <2>1, <2>2
    <3>2. OldLogs \subseteq old
      BY <2>1, <3>1 DEF OldLogsInv
    <3>3. OldLogs \subseteq DeleteFiles
      BY <3>2 DEF OldLogs, DeleteFiles, TypeOK
    <3>4. QED
      BY <2>1, <2>2, <3>3 DEF OldLogsInv, ToRemove
  <2>3. QED
    BY <2>1, <2>2 DEF OldLogsInv
<1>6. CASE RemoveFile
  <2>1. /\ UNCHANGED <<failures, dry, pc, outcome>> /\ pc = "files"
        /\ UNCHANGED todo \/ \E p : aged' = aged \ {p} /\ todo' = todo \ {p}
    BY <1>6 DEF RemoveFile, config, result, Tried, Rm
  <2>2. \A p : aged' = aged \ {p} => OldLogs' \subseteq OldLogs \ {p}
    BY DEF OldLogs, InLayout
  <2>3. outcome # "skipped"
    BY <2>1 DEF PlanInv
  <2>4. QED
    BY <2>1, <2>2, <2>3 DEF OldLogsInv
<1>7. CASE CheckFile
  <2>1. /\ UNCHANGED <<dry, pc, outcome, there, aged>> /\ pc = "files" /\ todo' = todo \ {item}
        /\ (item \notin there /\ failures' = failures) \/ failures' # {}
    BY <1>7 DEF CheckFile, Tried, config, tree, PositivelyGone
  <2>2. item \notin there => item \notin OldLogs
    BY DEF OldLogs, TreeInv
  <2>3. outcome # "skipped"
    BY <2>1 DEF PlanInv
  <2>4. QED
    BY <2>1, <2>2, <2>3 DEF OldLogsInv
<1>8. CASE FilesTried
  <2>1. UNCHANGED <<failures, dry, outcome>> /\ pc = "files" /\ pc' = "dirs" /\ todo = {}
    BY <1>8 DEF FilesTried, config, result
  <2>2. outcome # "skipped"
    BY <2>1 DEF PlanInv
  <2>3. QED
    BY <2>1, <2>2 DEF OldLogsInv
<1>9. CASE RemoveDir \/ CheckDir \/ Report
  <2>1. /\ failures \subseteq failures' /\ UNCHANGED dry
        /\ pc = "dirs" /\ pc' \in {"dirs", "done"}
    BY <1>9 DEF RemoveDir, CheckDir, Report, config, result
  <2>2. outcome # "skipped"
    BY <2>1 DEF PlanInv
  <2>3. QED
    BY <2>1, <2>2 DEF OldLogsInv
<1>10. CASE Others
  <2>1. Move
    BY <1>10 DEF Others, Deliver, Terminate, CleanUp
  <2>2. UNCHANGED <<failures, dry, pc, outcome, todo, listed, unread, entries, old>>
    BY <2>1 DEF Move, config, plan, result
  <2>3. Pending' = Pending
    BY <2>2 DEF Pending, Walked
  <2>4. QED
    BY <2>2, <2>3 DEF OldLogsInv
<1>11. CASE Finish \/ UNCHANGED vars
  <2>1. UNCHANGED <<failures, dry, pc, outcome, todo, listed, unread, entries, old>>
    BY <1>11 DEF Finish, vars, config, plan, result
  <2>2. Pending' = Pending
    BY <2>1 DEF Pending, Walked
  <2>3. QED
    BY <2>1, <2>2 DEF OldLogsInv
<1>12. QED
  BY <1>1, <1>2, <1>3, <1>4, <1>5, <1>6, <1>7, <1>8, <1>9, <1>10, <1>11 DEF Next, Run

-----------------------------------------------------------------------------
(* The inductive invariant: what the listings and removals, and what others *)
(* do meanwhile, leave true of the tree, the plan and the old logs.         *)
THEOREM PruneInvariant == Spec => []PruneInv
<1>1. Init => PruneInv
  <2> SUFFICES ASSUME Init
               PROVE  PruneInv
    OBVIOUS
  <2>1. TypeOK
    <3>1. dry \in BOOLEAN /\ notEmpty \in BOOLEAN
      BY Zenon DEF Init
    <3>2. faults \in 0..MaxFaults /\ moves \in 0..MaxMoves
      BY PruneAssumption DEF Init
    <3>3. QED
      BY <3>1, <3>2 DEF Init, TypeOK
  <2>2. TreeInv
    BY DEF Init, TreeInv
  <2>3. PlanInv
    BY DEF Init, PlanInv
  <2>4. OldLogsInv /\ outcome # "green"
    BY DEF Init, OldLogsInv
  <2>5. QED
    BY <2>1, <2>2, <2>3, <2>4 DEF PruneInv
<1>2. PruneInv /\ [Next]_vars => PruneInv'
  <2> SUFFICES ASSUME PruneInv, [Next]_vars
               PROVE  PruneInv'
    OBVIOUS
  <2>1. TypeOK /\ TreeInv /\ PlanInv /\ OldLogsInv /\ (outcome = "green" => failures = {})
    BY DEF PruneInv
  <2>2. TypeOK' /\ TreeInv' /\ PlanInv' /\ OldLogsInv'
    BY <2>1, TypeStep, TreeStep, PlanStep, OldLogsStep
  <2>3. outcome' = "green" => failures' = {}
    <3>1. CASE Skip \/ Report
      BY <3>1 DEF Skip, Report, result
    <3>2. CASE ~(Skip \/ Report)
      <4>1. UNCHANGED outcome
        BY <3>2 DEF Next, Run, Others, ListRoot, ProbeRoot, List, PlanMade, RemoveFile, CheckFile,
           FilesTried, RemoveDir, CheckDir, Finish, Deliver, Terminate, CleanUp, Move, vars
      <4>2. pc = "done" => UNCHANGED failures
        BY <3>2 DEF Next, Run, Others, ListRoot, ProbeRoot, List, PlanMade, RemoveFile, CheckFile,
           FilesTried, RemoveDir, CheckDir, Finish, Deliver, Terminate, CleanUp, Move, vars, result
      <4>3. QED
        BY <2>1, <4>1, <4>2 DEF PlanInv
    <3>3. QED
      BY <3>1, <3>2
  <2>4. QED
    BY <2>2, <2>3 DEF PruneInv
<1>3. QED
  BY <1>1, <1>2, PTL DEF Spec

(* Only files of the layout that were old when listed, and directories of   *)
(* clusters, are ever removed, whatever is delivered meanwhile.             *)
THEOREM OnlyOldLogsAreRemoved == Spec => []OnlyOldLogsGo
<1>1. PruneInv => OnlyOldLogsGo
  <2> SUFFICES ASSUME PruneInv, NEW p \in removed
               PROVE  p[1] \in ClusterIds /\ (p \in Files => InLayout(p) /\ p \in old)
    BY DEF OnlyOldLogsGo
  <2>1. p \in DeleteFiles \/ p \in DeleteDirs
    BY DEF PruneInv, PlanInv
  <2>2. CASE p \in DeleteFiles
    BY <2>2 DEF DeleteFiles, InLayout
  <2>3. CASE p \in DeleteDirs
    <3>1. PICK c \in entries : Len(c) = 1 /\ Walked(c) /\ p \in Within(c) \cap Dirs
      BY <2>3 DEF DeleteDirs
    <3>2. p[1] = c[1]
      <4>1. CASE p = c
        BY <4>1
      <4>2. CASE IsAbove(c, p)
        <5>1. p \in Seq(STRING) /\ c = SubSeq(p, 1, 1)
          BY <3>1, <4>2, PruneAssumption DEF IsAbove, Paths
        <5>2. Len(p) \in Nat /\ 1 < Len(p)
          BY <3>1, <4>2, <5>1 DEF IsAbove
        <5>3. QED
          BY <5>1, <5>2
      <4>3. QED
        BY <3>1, <4>1, <4>2 DEF Within
    <3>3. p \notin Files
      BY <3>1, PruneAssumption
    <3>4. QED
      BY <3>1, <3>2, <3>3 DEF Walked
  <2>4. QED
    BY <2>1, <2>2, <2>3
<1>2. QED
  BY <1>1, PruneInvariant, PTL

(* A green run that was not dry leaves no file of the layout past the       *)
(* cutoff, whichever calls failed.                                          *)
THEOREM GreenPruneIsComplete == Spec => []GreenLeavesNoOldLog
<1>1. PruneInv => GreenLeavesNoOldLog
  BY DEF PruneInv, PlanInv, OldLogsInv, GreenLeavesNoOldLog
<1>2. QED
  BY <1>1, PruneInvariant, PTL

-----------------------------------------------------------------------------
(* What is reported.  The listings: everything above an entry listed.       *)
Reported == failures \cup raced

ListedAbove == \A e \in entries, d \in Dirs : IsAbove(d, e) => d \in listed \ unread

(* A report is the root's, and nothing was listed; an unread directory's;   *)
(* or that of a planned path, with all the directories above it blocked.    *)
ReportShape ==
  /\ Root \in failures => entries = {}
  /\ pc \in {"root", "probe"} => failures = {}
  /\ pc \in {"root", "probe", "walk"} => failures \subseteq {Root} /\ raced = {}
  /\ pc = "files" => Reported \subseteq {Root} \cup unread \cup Files
  /\ \A p \in Reported \ ({Root} \cup unread) :
       p \in DeleteFiles \cup DeleteDirs /\ Upto(p) \ {p} \subseteq blocked

(* The removals go up the tree: nothing to do is below a reported path, or  *)
(* below the directory being looked up, and that one is not blocked.        *)
DeepestFirst ==
  /\ \A p \in Reported, q \in todo : ~IsAbove(p, q)
  /\ pc = "dirs" /\ item # Root => item \notin blocked /\ \A q \in todo : ~IsAbove(item, q)

ReportInv == ListedAbove /\ ReportShape /\ DeepestFirst /\ ReportedOnce

(* A planned directory goes with all the listings showed below it, and they *)
(* left nothing below it unread.                                            *)
LEMMA PlanReachesDown ==
  ASSUME TypeOK, NEW d \in DeleteDirs, NEW p \in entries, p = d \/ IsAbove(d, p)
  PROVE  p \in DeleteFiles \cup DeleteDirs /\ p \notin unread
<1>1. PICK c \in {e \in entries : Len(e) = 1 /\ Walked(e)} :
         d \in IF Finished(c) THEN Within(c) \cap Dirs
              ELSE {x \in (Within(c) \cap Dirs) \ {c} : Emptied(x)}
  BY DEF DeleteDirs
<1>2. c \in Dirs /\ d \in Dirs /\ d \in Within(c) /\ p \in Within(d) /\ p \in Paths
  BY <1>1 DEF Within, Walked, TypeOK
<1>3. \A q \in Within(d) : Within(q) \subseteq Within(d)
  <2> SUFFICES ASSUME NEW q \in Within(d), NEW x \in entries, IsAbove(q, x), IsAbove(d, q)
               PROVE  IsAbove(d, x)
    BY DEF Within
  <2>1. q \in Dirs /\ x \in Paths
    BY NotAbove DEF Within, TypeOK, Paths
  <2>2. QED
    BY <1>2, <2>1, AboveIsTransitive
<1>4. Within(d) \subseteq Within(c)
  <2> SUFFICES ASSUME NEW x \in entries, IsAbove(d, x), IsAbove(c, d)
               PROVE  IsAbove(c, x)
    BY <1>2 DEF Within
  <2>1. QED
    BY <1>2, AboveIsTransitive DEF TypeOK
<1>6. Clean(d)
  BY <1>1, <1>4 DEF Finished, Emptied, Clean
<1>7. CASE InLayout(p) /\ p \in Files \cap old
  BY <1>2, <1>7, PruneAssumption DEF DeleteFiles, Within, TypeOK
<1>8. CASE Walked(p) /\ p \notin unread
  <2>1. p \in Within(c) \cap Dirs
    BY <1>2, <1>4, <1>8 DEF Walked
  <2>2. CASE Finished(c)
    BY <1>1, <1>8, <2>1, <2>2 DEF DeleteDirs
  <2>3. CASE ~Finished(c)
    <3>1. Emptied(d) /\ d # c
      BY <1>1, <2>3
    <3>2. Emptied(p)
      BY <1>2, <1>3, <3>1 DEF Emptied, Clean
    <3>3. p # c
      <4>1. CASE p = d
        BY <3>1, <4>1
      <4>2. CASE IsAbove(d, p)
        <5>1. IsAbove(c, d)
          BY <1>2, <3>1 DEF Within
        <5>2. IsAbove(c, p)
          BY <1>2, <4>2, <5>1, AboveIsTransitive
        <5>3. QED
          BY <1>2, <5>2, NotAbove
      <4>3. QED
        BY <4>1, <4>2
    <3>4. QED
      BY <1>1, <1>8, <2>1, <2>3, <3>2, <3>3 DEF DeleteDirs
  <2>4. QED
    BY <2>2, <2>3
<1>9. QED
  BY <1>2, <1>6, <1>7, <1>8 DEF Clean

(* Only listing the root and listing a directory change the plan. *)
LEMMA PlanChange ==
  ASSUME [Next]_vars
  PROVE  UNCHANGED plan \/ ListRoot \/ \E d \in Dirs : List(d)
BY DEF Next, Run, Others, Skip, ProbeRoot, PlanMade, RemoveFile, CheckFile, FilesTried, RemoveDir,
       CheckDir, Report, Finish, Deliver, Terminate, CleanUp, Move, vars

(* What has been listed was reached by listing every directory above it. *)
LEMMA StepKeepsListedAbove ==
  ASSUME TypeOK, PlanInv, ListedAbove, [Next]_vars
  PROVE  ListedAbove'
<1>1. CASE UNCHANGED plan
  BY <1>1 DEF ListedAbove, plan
<1>2. CASE ListRoot
  <2> SUFFICES ASSUME NEW e \in entries', NEW x \in Dirs, IsAbove(x, e)
               PROVE  FALSE
    BY DEF ListedAbove
  <2>1. e \in Children(Root) /\ e \in Paths
    BY <1>2 DEF ListRoot, PlanInv, Children, TypeOK
  <2>2. Len(x) \in Nat /\ Len(x) > 0 /\ Len(e) = 1
    <3>1. x \in Seq(STRING) /\ Len(x) > 0
      BY PruneAssumption DEF Paths
    <3>2. QED
      BY <2>1, <3>1, RootIsAPath DEF Children, IsIn
  <2>3. QED
    BY <2>2 DEF IsAbove
<1>3. ASSUME NEW d \in Dirs, List(d)
      PROVE  ListedAbove'
  <2>1. d \in entries /\ d \notin listed /\ listed' = listed \cup {d}
    BY <1>3 DEF List, Pending
  <2>2. SUFFICES ASSUME NEW e \in entries', NEW x \in Dirs, IsAbove(x, e)
                 PROVE  x \in listed' \ unread'
    BY DEF ListedAbove
  <2>3. CASE e \in entries
    <3>1. x \in listed \ unread
      BY <2>2, <2>3 DEF ListedAbove
    <3>2. unread' \subseteq unread \cup {d}
      BY <1>3 DEF List
    <3>3. QED
      BY <2>1, <3>1, <3>2
  <2>4. CASE e \notin entries
    <3>1. e \in Children(d) /\ e \in Paths /\ unread' = unread
      BY <1>3, <2>4 DEF List, Children, TypeOK
    <3>2. x = d \/ IsAbove(x, d)
      BY <2>2, <3>1, AboveOnTheWay DEF Children
    <3>3. QED
      BY <2>1, <3>1, <3>2 DEF ListedAbove, TypeOK
  <2>5. QED
    BY <2>3, <2>4
<1>4. QED
  BY <1>1, <1>2, <1>3, PlanChange

(* Nothing the listings showed is below the root's report or below an       *)
(* unread directory, and nothing planned is above it.                       *)
LEMMA ListingReports ==
  ASSUME TypeOK, PlanInv, ListedAbove, ReportShape,
         NEW p \in Reported \cap ({Root} \cup unread), NEW q \in entries
  PROVE  ~IsAbove(p, q) /\ (q \in DeleteFiles \cup DeleteDirs => ~IsAbove(q, p))
<1>1. p \in unread /\ p \in entries /\ p \in Dirs
  BY PruneAssumption DEF ReportShape, Reported, TypeOK, PlanInv, Paths, Root
<1>2. ~IsAbove(p, q)
  BY <1>1 DEF ListedAbove
<1>3. q \in DeleteFiles => ~IsAbove(q, p)
  BY <1>1, NotAbove, PlanIsListed DEF Paths
<1>4. q \in DeleteDirs => ~IsAbove(q, p)
  BY <1>1, PlanReachesDown
<1>5. QED
  BY <1>2, <1>3, <1>4

(* The four parts of ReportInv but the first, for the steps that report     *)
(* nothing and plan nothing.                                                *)
LEMMA QuietStepKeepsReports ==
  ASSUME PlanInv, ReportShape, DeepestFirst, ReportedOnce, UNCHANGED <<plan, result, item>>,
         todo' \subseteq todo, pc' = pc \/ pc' = "done"
  PROVE  ReportShape' /\ DeepestFirst' /\ ReportedOnce'
<1>1. Reported' = Reported
  BY DEF Reported, result
<1>2. DeleteFiles' = DeleteFiles /\ DeleteDirs' = DeleteDirs
  BY PlanIsFixed
<1>3. ReportShape'
  BY <1>1, <1>2 DEF ReportShape, plan, result, Upto, IsAbove
<1>4. DeepestFirst'
  BY <1>1 DEF DeepestFirst, result, IsAbove
<1>5. ReportedOnce'
  BY DEF ReportedOnce, result, IsAbove
<1>6. QED
  BY <1>3, <1>4, <1>5

(* A report of a planned path not tried before: nothing reported is below   *)
(* it, or above it.                                                         *)
LEMMA NewReport ==
  ASSUME TypeOK, PlanInv, ReportInv, item # Root, item \in Files \/ pc = "dirs"
  PROVE  \A p \in Reported : ~IsAbove(p, item) /\ ~IsAbove(item, p)
<1> USE DEF ReportInv
<1> SUFFICES ASSUME NEW p \in Reported
             PROVE  ~IsAbove(p, item) /\ ~IsAbove(item, p)
  OBVIOUS
<1>1. item \in todo /\ item \in Paths /\ item \in DeleteFiles \cup DeleteDirs
  BY DEF PlanInv, TypeOK
<1>2. ~IsAbove(p, item)
  BY <1>1 DEF DeepestFirst
<1>3. ~IsAbove(item, p)
  <2>1. p \in Paths \cup {Root}
    BY DEF Reported, TypeOK, Paths
  <2>2. CASE item \in Files
    BY <2>1, <2>2, NotAbove DEF Paths
  <2>3. CASE item \notin Files /\ p \in {Root} \cup unread
    BY <1>1, <2>3, ListingReports, PlanIsListed
  <2>4. CASE item \notin Files /\ p \notin {Root} \cup unread
    <3>1. item \notin blocked /\ item \in Dirs
      BY <1>1, <2>4 DEF DeepestFirst, Paths
    <3>2. Upto(p) \ {p} \subseteq blocked
      BY <2>4 DEF ReportShape
    <3>3. ~IsAbove(p, p)
      BY <2>1, NotAbove
    <3>4. QED
      BY <3>1, <3>2, <3>3 DEF Upto
  <2>5. QED
    BY <2>2, <2>3, <2>4
<1>4. QED
  BY <1>2, <1>3

(* A look at the cause of a failed removal reports one path, and blocks     *)
(* what is above it from then on.                                           *)
LEMMA CheckKeepsReports ==
  ASSUME TypeOK, PlanInv, ReportInv, CheckFile \/ CheckDir
  PROVE  ReportShape' /\ DeepestFirst' /\ ReportedOnce'
<1> USE DEF ReportInv
<1>1. /\ item \in todo /\ item # Root /\ item' = Root /\ todo' = todo \ {item} /\ UNCHANGED <<plan, pc>>
      /\ pc \in {"files", "dirs"} /\ (pc = "files" => CheckFile)
  BY DEF CheckFile, CheckDir, Tried, PlanInv
<1>2. /\ item \in DeleteFiles \cup DeleteDirs /\ item \in Paths
      /\ item \in Files \/ pc = "dirs"
  BY <1>1, PlanIsListed DEF PlanInv, TypeOK
<1>3. \/ UNCHANGED result
      \/ /\ Reported' = Reported \cup {item} /\ failures' \subseteq failures \cup {item}
         /\ blocked' = blocked \cup (Upto(item) \ {item})
  BY DEF CheckFile, CheckDir, Block, result, Reported
<1>4. CASE UNCHANGED result
  <2>1. Reported' = Reported /\ DeleteFiles' = DeleteFiles /\ DeleteDirs' = DeleteDirs
    BY <1>1, <1>4, PlanIsFixed DEF Reported, result
  <2>2. ReportShape'
    BY <1>1, <1>4, <2>1 DEF ReportShape, plan, result, Upto, IsAbove
  <2>3. DeepestFirst'
    BY <1>1, <2>1 DEF DeepestFirst, IsAbove
  <2>4. ReportedOnce'
    BY <1>4 DEF ReportedOnce, result, IsAbove
  <2>5. QED
    BY <2>2, <2>3, <2>4
<1>5. CASE /\ Reported' = Reported \cup {item} /\ failures' \subseteq failures \cup {item}
           /\ blocked' = blocked \cup (Upto(item) \ {item})
  <2>1. DeleteFiles' = DeleteFiles /\ DeleteDirs' = DeleteDirs
    BY <1>1, PlanIsFixed
  <2>2. ReportShape'
    BY <1>1, <1>2, <1>5, <2>1 DEF ReportShape, plan, Upto, IsAbove
  <2>3. DeepestFirst'
    <3>1. \A q \in todo : ~IsAbove(item, q)
      BY <1>1, <1>2, NotAbove DEF DeepestFirst, TypeOK
    <3>2. QED
      BY <1>1, <1>5, <3>1 DEF DeepestFirst, IsAbove
  <2>4. ReportedOnce'
    <3>1. ~IsAbove(item, item)
      BY <1>2, NotAbove
    <3>2. \A p, q \in Reported' : ~IsAbove(p, q)
      BY <1>1, <1>2, <1>5, <3>1, NewReport DEF ReportedOnce, Reported
    <3>3. QED
      BY <3>2 DEF ReportedOnce, Reported, IsAbove
  <2>5. QED
    BY <2>2, <2>3, <2>4
<1>6. QED
  BY <1>3, <1>4, <1>5

(* Every step keeps ReportInv. *)
LEMMA StepKeepsReports ==
  ASSUME TypeOK, PlanInv, ReportInv, [Next]_vars
  PROVE  ReportInv'
<1> USE DEF ReportInv
<1> SUFFICES ReportShape' /\ DeepestFirst' /\ ReportedOnce'
  BY StepKeepsListedAbove
<1>1. CASE Skip \/ Report \/ Others \/ Finish \/ UNCHANGED vars
  <2>1. UNCHANGED <<plan, result, item, todo>> /\ (pc' = pc \/ pc' = "done")
    BY <1>1 DEF Skip, Report, Others, Deliver, Terminate, CleanUp, Move, Finish, vars
  <2>2. QED
    BY <2>1, QuietStepKeepsReports
<1>2. CASE ListRoot \/ ProbeRoot
  <2>1. /\ failures' \subseteq {Root} /\ raced' = {} /\ todo' = {} /\ item' = Root
        /\ pc' \in {"probe", "walk"} /\ (failures' # {} => pc' = "walk" /\ entries' = {})
    <3>1. failures = {} /\ raced = {} /\ todo = {} /\ item = Root /\ entries = {}
      BY <1>2 DEF ListRoot, ProbeRoot, ReportShape, PlanInv
    <3>2. CASE ListRoot
      BY <3>1, <3>2 DEF ListRoot
    <3>3. CASE ProbeRoot
      BY <3>1, <3>3 DEF ProbeRoot, plan
    <3>4. QED
      BY <1>2, <3>2, <3>3
  <2>2. Reported' \subseteq {Root}
    BY <2>1 DEF Reported
  <2>3. ReportShape'
    BY <2>1, <2>2 DEF ReportShape
  <2>4. DeepestFirst'
    BY <2>1 DEF DeepestFirst
  <2>5. ReportedOnce'
    BY <2>1, NotAbove DEF ReportedOnce, IsAbove
  <2>6. QED
    BY <2>3, <2>4, <2>5
<1>3. ASSUME NEW d \in Dirs, List(d)
      PROVE  ReportShape' /\ DeepestFirst' /\ ReportedOnce'
  <2>1. /\ UNCHANGED <<result, todo, item>> /\ pc = "walk" /\ pc' = "walk" /\ entries # {}
    BY <1>3 DEF List, Pending
  <2>2. failures = {} /\ raced = {} /\ todo = {}
    BY <2>1 DEF ReportShape, PlanInv
  <2>3. QED
    BY <2>1, <2>2 DEF ReportShape, DeepestFirst, ReportedOnce, Reported, result
<1>4. CASE PlanMade
  <2>1. /\ failures \subseteq {Root} /\ failures' = failures \cup unread /\ raced' = {}
        /\ UNCHANGED <<plan, item>> /\ pc' = "files" /\ todo' \subseteq entries
    BY <1>4, PlanIsListed DEF PlanMade, ReportShape, ToRemove
  <2>2. Reported' \subseteq {Root} \cup unread /\ (Root \in failures => entries = {})
    BY <2>1 DEF Reported, ReportShape
  <2>3. Root \notin unread /\ unread \subseteq entries /\ unread \subseteq Dirs
    BY PruneAssumption DEF TypeOK, PlanInv, Paths, Root
  <2>4. ReportShape'
    BY <2>1, <2>2, <2>3 DEF ReportShape, plan
  <2>5. \A p \in Reported', q \in entries \cup Reported' : ~IsAbove(p, q)
    <3>1. \A p \in unread, q \in entries : ~IsAbove(p, q)
      BY <2>3 DEF ListedAbove
    <3>2. CASE Root \in failures
      BY <2>1, <2>2, <2>3, <3>2, NotAbove DEF Reported
    <3>3. CASE Root \notin failures
      BY <2>1, <2>3, <3>1, <3>3 DEF Reported
    <3>4. QED
      BY <3>2, <3>3
  <2>6. DeepestFirst' /\ ReportedOnce'
    BY <2>1, <2>5 DEF DeepestFirst, ReportedOnce, Reported, IsAbove
  <2>7. QED
    BY <2>4, <2>6
<1>5. CASE RemoveFile
  <2>1. UNCHANGED <<plan, result, pc>> /\ pc = "files" /\ todo' \subseteq todo
    BY <1>5 DEF RemoveFile, Tried
  <2>2. Reported' = Reported /\ DeleteFiles' = DeleteFiles /\ DeleteDirs' = DeleteDirs
    BY <2>1, PlanIsFixed DEF Reported, result
  <2>3. ReportShape'
    BY <2>1, <2>2 DEF ReportShape, plan, result, Upto, IsAbove
  <2>4. DeepestFirst'
    BY <2>1, <2>2 DEF DeepestFirst, IsAbove
  <2>5. ReportedOnce'
    BY <2>1 DEF ReportedOnce, result, IsAbove
  <2>6. QED
    BY <2>3, <2>4, <2>5
<1>6. CASE CheckFile \/ CheckDir
  BY <1>6, CheckKeepsReports
<1>7. CASE FilesTried
  <2>1. /\ UNCHANGED <<plan, result, item>> /\ pc = "files" /\ pc' = "dirs" /\ todo = {}
        /\ todo' \subseteq DeleteDirs
    BY <1>7 DEF FilesTried, ToRemove
  <2>2. item = Root
    BY <2>1 DEF PlanInv
  <2>3. Reported' = Reported /\ DeleteFiles' = DeleteFiles /\ DeleteDirs' = DeleteDirs
    BY <2>1, PlanIsFixed DEF Reported, result
  <2>4. ReportShape'
    BY <2>1, <2>3 DEF ReportShape, plan, result, Upto, IsAbove
  <2>5. ASSUME NEW p \in Reported, NEW q \in todo'
        PROVE  ~IsAbove(p, q)
    <3>1. q \in entries /\ q \in Paths
      BY <2>1, PlanIsListed DEF TypeOK
    <3>2. p \in Files \/ p \in {Root} \cup unread
      BY <2>1 DEF ReportShape
    <3>3. QED
      BY <3>1, <3>2, NotAbove, ListingReports
  <2>6. DeepestFirst'
    BY <2>1, <2>2, <2>3, <2>5 DEF DeepestFirst, IsAbove
  <2>7. ReportedOnce'
    BY <2>1 DEF ReportedOnce, result, IsAbove
  <2>8. QED
    BY <2>4, <2>6, <2>7
<1>8. CASE RemoveDir
  <2>1. /\ UNCHANGED <<plan, result, pc>> /\ pc = "dirs"
        /\ \E p \in todo : /\ \A q \in todo : ~IsAbove(p, q)
                           /\ \/ item' = Root /\ todo' = todo \ {p}
                              \/ item' = p /\ todo' = todo /\ p \notin blocked
    BY <1>8 DEF RemoveDir, Tried
  <2>2. Reported' = Reported /\ DeleteFiles' = DeleteFiles /\ DeleteDirs' = DeleteDirs
    BY <2>1, PlanIsFixed DEF Reported, result
  <2>3. ReportShape'
    BY <2>1, <2>2 DEF ReportShape, plan, result, Upto, IsAbove
  <2>4. DeepestFirst'
    BY <2>1, <2>2 DEF DeepestFirst, result, IsAbove
  <2>5. ReportedOnce'
    BY <2>1 DEF ReportedOnce, result, IsAbove
  <2>6. QED
    BY <2>3, <2>4, <2>5
<1>9. QED
  BY <1>1, <1>2, <1>3, <1>4, <1>5, <1>6, <1>7, <1>8 DEF Next, Run

(* A run begins with nothing listed and nothing reported. *)
LEMMA InitReportInv == Init => ReportInv
BY DEF Init, ReportInv, ListedAbove, ReportShape, DeepestFirst, Reported, ReportedOnce

(* What fails or is refused is reported once, for the path itself, and not  *)
(* again for every directory above it.                                      *)
THEOREM ProblemsAreReportedOnce == Spec => []ReportedOnce
<1>1. Init => ReportInv
  BY InitReportInv
<1>2. PruneInv /\ ReportInv /\ [Next]_vars => ReportInv'
  <2>1. PruneInv => TypeOK /\ PlanInv
    BY DEF PruneInv
  <2>2. QED
    BY <2>1, StepKeepsReports
<1>3. ReportInv => ReportedOnce
  BY DEF ReportInv
<1>4. QED
  BY <1>1, <1>2, <1>3, PruneInvariant, PTL DEF Spec

-----------------------------------------------------------------------------
(* A run whose calls work, with no other clean-up in the tree.              *)
Undisturbed == site = "dir" /\ faults = 0 /\ cleaned = {}

(* Everything planned is removed, in turn, unless something below it stays. *)
InTurn ==
  /\ todo \cap removed = {}
  /\ pc = "files" => DeleteFiles \subseteq todo \cup removed
  /\ pc = "dirs" => /\ DeleteFiles \subseteq removed
                    /\ DeleteDirs \subseteq todo \cup removed \cup raced \cup blocked

(* A removal fails only on a directory that has something below it.         *)
OnlyRaces ==
  /\ unread = {} /\ failures = {}
  /\ entries \subseteq there \cup removed
  /\ item # Root => pc = "dirs" /\ item \in there /\ Children(item) # {} /\ notEmpty
  /\ \A d \in raced : \E p \in there : IsAbove(d, p) /\ (p \notin entries \/ p \in removed)

RaceInv ==
  /\ pc = "files" => removed \subseteq Files
  /\ \A d \in Dirs, p \in blocked : IsAbove(d, p) => d \in blocked
  /\ Undisturbed => OnlyRaces /\ (dry \/ InTurn)

(* A run that is undisturbed now was undisturbed a step ago, and nothing    *)
(* failed or was removed by others in between.                              *)
LEMMA StillUndisturbed ==
  ASSUME TypeOK, [Next]_vars, Undisturbed'
  PROVE  Undisturbed /\ ~Fault /\ ~CleanUp
<1>1. site' = site
  BY DEF Next, Run, Others, Skip, ListRoot, ProbeRoot, List, PlanMade, RemoveFile, CheckFile,
         FilesTried, RemoveDir, CheckDir, Report, Finish, Deliver, Terminate, CleanUp, Move, vars, config
<1>2. cleaned \subseteq cleaned'
  BY DEF Next, Run, Others, Skip, ListRoot, ProbeRoot, List, PlanMade, RemoveFile, CheckFile,
         FilesTried, RemoveDir, CheckDir, Report, Finish, Deliver, Terminate, CleanUp, Delivers, vars
<1>3. ~CleanUp
  BY DEF CleanUp, Undisturbed
<1>4. faults \in Nat /\ faults' = 0
  BY PruneAssumption DEF TypeOK, Undisturbed
<1>5. ~Fault
  BY <1>4 DEF Fault
<1>6. faults' = faults
  <2>1. Fault \/ UNCHANGED faults
    BY DEF Next, Run, Others, Skip, ListRoot, ProbeRoot, List, PlanMade, RemoveFile, CheckFile,
           FilesTried, RemoveDir, CheckDir, Report, Finish, Deliver, Terminate, CleanUp, Move, vars,
           NoFault, RmFails, PositivelyGone
  <2>2. QED
    BY <1>5, <2>1
<1>7. QED
  BY <1>1, <1>2, <1>3, <1>4, <1>5, <1>6 DEF Undisturbed

(* What a step does that neither changes the plan nor removes or reports    *)
(* anything: others may deliver.                                            *)
LEMMA QuietStepKeepsRaces ==
  ASSUME OnlyRaces, dry \/ InTurn, UNCHANGED <<dry, plan, todo, item, notEmpty, result, removed>>,
         there \subseteq there', pc' = pc \/ (pc' = "done" /\ item = Root)
  PROVE  OnlyRaces' /\ (dry' \/ InTurn')
<1>1. DeleteFiles' = DeleteFiles /\ DeleteDirs' = DeleteDirs
  BY PlanIsFixed
<1>2. item # Root => Children(item)' # {}
  BY DEF OnlyRaces, Children, IsIn, IsAbove
<1>3. OnlyRaces'
  BY <1>2 DEF OnlyRaces, plan, result, IsAbove
<1>4. InTurn => InTurn'
  BY <1>1 DEF InTurn, result
<1>5. QED
  BY <1>3, <1>4

(* Undisturbed, the root and every directory list. *)
LEMMA ListingKeepsRaces ==
  ASSUME TypeOK, PlanInv, ReportShape, OnlyRaces, site = "dir", ~Fault,
         ListRoot \/ \E d \in Dirs : List(d)
  PROVE  OnlyRaces' /\ InTurn'
<1>1. /\ UNCHANGED <<there, raced, todo, item, removed>>
      /\ pc \in {"root", "walk"} /\ pc' \in {"walk", "probe"}
  BY DEF ListRoot, List, tree, result
<1>2. todo = {} /\ item = Root /\ removed = {} /\ raced = {}
  BY <1>1 DEF PlanInv, ReportShape
<1>3. unread' = {} /\ failures' = {} /\ entries' \subseteq there
  <2>1. CASE ListRoot
    BY <2>1 DEF ListRoot, OnlyRaces, Children
  <2>2. ASSUME NEW d \in Dirs, List(d)
        PROVE  unread' = {} /\ failures' = {} /\ entries' \subseteq there
    <3>1. d \in there
      BY <1>2, <2>2 DEF List, Pending, OnlyRaces
    <3>2. QED
      BY <1>2, <2>2, <3>1 DEF List, OnlyRaces, Children, result
  <2>3. QED
    BY <2>1, <2>2
<1>4. QED
  BY <1>1, <1>2, <1>3 DEF OnlyRaces, InTurn

(* Undisturbed, every planned file is there and goes. *)
LEMMA FilesGo ==
  ASSUME TypeOK, PlanInv, DeepestFirst, OnlyRaces, dry \/ InTurn, ~Fault, RemoveFile
  PROVE  OnlyRaces' /\ (dry' \/ InTurn')
<1>1. /\ pc = "files" /\ pc' = "files" /\ item = Root
      /\ UNCHANGED <<dry, plan, notEmpty, result>>
  BY DEF RemoveFile, config
<1>2. PICK p \in todo : (Rm(p) /\ Tried(p)) \/ RmFails(p)
  BY DEF RemoveFile
<1>3. ~dry /\ InTurn /\ p \in Files /\ p \in entries /\ p \notin removed
  BY <1>1, PlanIsListed DEF PlanInv, InTurn
<1>4. p \in there /\ Children(p) = {}
  <2>1. p \in there
    BY <1>3 DEF OnlyRaces
  <2>2. Children(p) \subseteq Paths
    BY DEF Children, TypeOK
  <2>3. QED
    BY <1>3, <2>1, <2>2, NotAbove DEF Children, IsIn
<1>5. there' = there \ {p} /\ removed' = removed \cup {p} /\ todo' = todo \ {p} /\ item' = Root
  BY <1>2, <1>4 DEF RmFails, Rm, Tried
<1>6. OnlyRaces'
  <2>1. \A d \in raced : ~IsAbove(d, p)
    BY <1>2 DEF DeepestFirst, Reported
  <2>2. QED
    BY <1>1, <1>5, <2>1 DEF OnlyRaces, plan, result, IsAbove
<1>7. InTurn'
  BY <1>1, <1>3, <1>5, PlanIsFixed DEF InTurn
<1>8. QED
  BY <1>6, <1>7

(* Undisturbed, a planned directory goes, or is blocked, or has something   *)
(* below it.                                                                *)
LEMMA DirsGo ==
  ASSUME TypeOK, PlanInv, DeepestFirst, OnlyRaces, dry \/ InTurn, ~Fault, RemoveDir
  PROVE  OnlyRaces' /\ (dry' \/ InTurn')
<1>1. /\ pc = "dirs" /\ pc' = "dirs" /\ item = Root
      /\ UNCHANGED <<dry, plan, result>>
  BY DEF RemoveDir, config
<1>2. PICK p \in todo :
        \/ p \in blocked /\ Tried(p) /\ UNCHANGED <<there, removed>>
        \/ Rm(p) /\ Tried(p)
        \/ RmFails(p) /\ item' = p /\ UNCHANGED todo /\ (NoFault => notEmpty' = (p \in there))
  BY DEF RemoveDir, NoFault
<1>3. ~dry /\ InTurn /\ p \in entries /\ p \notin removed /\ p \in there
  BY <1>1, PlanIsListed DEF PlanInv, InTurn, OnlyRaces
<1>4. \A d \in raced : ~IsAbove(d, p)
  BY <1>2 DEF DeepestFirst, Reported
<1>5. DeleteFiles' = DeleteFiles /\ DeleteDirs' = DeleteDirs
  BY <1>1, PlanIsFixed
<1>6. CASE p \in blocked /\ Tried(p) /\ UNCHANGED <<there, removed>>
  <2>1. OnlyRaces'
    BY <1>1, <1>6 DEF OnlyRaces, Tried, plan, result, IsAbove
  <2>2. InTurn'
    BY <1>1, <1>3, <1>5, <1>6 DEF InTurn, Tried, result
  <2>3. QED
    BY <2>1, <2>2
<1>7. CASE Rm(p) /\ Tried(p)
  <2>1. OnlyRaces'
    BY <1>1, <1>4, <1>7 DEF OnlyRaces, Rm, Tried, plan, result, IsAbove
  <2>2. InTurn'
    BY <1>1, <1>3, <1>5, <1>7 DEF InTurn, Rm, Tried, result
  <2>3. QED
    BY <2>1, <2>2
<1>8. CASE RmFails(p) /\ item' = p /\ UNCHANGED todo /\ (NoFault => notEmpty' = (p \in there))
  <2>1. NoFault /\ Children(p) # {} /\ UNCHANGED <<there, removed>>
    BY <1>3, <1>8 DEF RmFails
  <2>2. notEmpty'
    BY <1>3, <1>8, <2>1
  <2>3. Children(p)' = Children(p)
    BY <2>1 DEF Children, IsIn, IsAbove
  <2>4. OnlyRaces'
    BY <1>1, <1>3, <1>8, <2>1, <2>2, <2>3 DEF OnlyRaces, plan, result, IsAbove
  <2>5. InTurn'
    BY <1>1, <1>3, <1>5, <1>8, <2>1 DEF InTurn, result
  <2>6. QED
    BY <2>4, <2>5
<1>9. QED
  BY <1>2, <1>6, <1>7, <1>8

(* A planned directory that is looked up has below it something the plan    *)
(* did not cover: what was planned there is gone.                           *)
LEMMA RefusalsAreRaces ==
  ASSUME TypeOK, PlanInv, ReportShape, DeepestFirst, OnlyRaces, InTurn, pc = "dirs", item # Root,
         \A d \in Dirs, p \in blocked : IsAbove(d, p) => d \in blocked
  PROVE  \E p \in there : IsAbove(item, p) /\ (p \notin entries \/ p \in removed)
<1>1. item \in DeleteDirs /\ item \in todo /\ item \in Dirs /\ item \notin blocked
  BY PlanIsListed DEF PlanInv, DeepestFirst
<1>2. PICK c \in there : IsAbove(item, c)
  BY DEF OnlyRaces, Children, IsIn
<1>3. CASE c \in entries /\ c \notin removed
  <2>1. c \in DeleteDirs
    BY <1>1, <1>2, <1>3, PlanReachesDown DEF InTurn
  <2>2. c \notin todo
    BY <1>2 DEF DeepestFirst
  <2>3. c \notin blocked
    BY <1>1, <1>2
  <2>4. c \notin raced
    <3>1. c \in raced => c \in Reported /\ c \notin {Root} \cup unread
      BY PruneAssumption DEF Reported, OnlyRaces, TypeOK, Root, Paths
    <3>2. c \in raced => item \in Upto(c) \ {c}
      <4>1. item # c
        BY <1>1, <2>2
      <4>2. QED
        BY <1>1, <1>2, <4>1 DEF Upto
    <3>3. QED
      BY <1>1, <3>1, <3>2 DEF ReportShape
  <2>5. QED
    BY <1>3, <2>1, <2>2, <2>3, <2>4 DEF InTurn
<1>4. QED
  BY <1>2, <1>3

(* Where nothing failed and only deliveries came in between, a removal that *)
(* failed did so because a delivery refilled the directory.                 *)
LEMMA ChecksAreRaces ==
  ASSUME TypeOK, PlanInv, ReportShape, DeepestFirst, OnlyRaces, dry \/ InTurn, ~Fault,
         \A d \in Dirs, p \in blocked : IsAbove(d, p) => d \in blocked,
         CheckFile \/ CheckDir
  PROVE  OnlyRaces' /\ (dry' \/ InTurn')
<1>1. CheckDir /\ item \in todo /\ ~dry /\ InTurn /\ pc = "dirs" /\ item # Root
  BY DEF CheckFile, CheckDir, OnlyRaces, PlanInv
<1>2. /\ pc' = "dirs" /\ item' = Root /\ todo' = todo \ {item} /\ raced' = raced \cup {item}
      /\ UNCHANGED <<there, dry, plan, failures, removed>> /\ blocked \subseteq blocked'
  <2>1. item \in there /\ Children(item) # {} /\ notEmpty
    BY <1>1 DEF OnlyRaces
  <2>2. QED
    BY <1>1, <2>1 DEF CheckDir, Tried, PositivelyGone, Block, tree, config
<1>3. OnlyRaces'
  BY <1>1, <1>2, RefusalsAreRaces DEF OnlyRaces, plan, IsAbove
<1>4. InTurn'
  BY <1>1, <1>2, PlanIsFixed DEF InTurn
<1>5. QED
  BY <1>3, <1>4

(* Every step keeps RaceInv. *)
LEMMA StepKeepsRaces ==
  ASSUME TypeOK, PlanInv, ReportInv, RaceInv, [Next]_vars
  PROVE  RaceInv'
<1> USE DEF RaceInv
<1>1. pc' = "files" => removed' \subseteq Files
  <2>1. CASE PlanMade
    BY <2>1 DEF PlanMade, PlanInv
  <2>2. CASE RemoveFile
    <3>1. PICK p \in todo : Rm(p) \/ RmFails(p)
      BY <2>2 DEF RemoveFile
    <3>2. p \in Files /\ pc = "files"
      BY <2>2, PlanIsListed DEF RemoveFile, PlanInv
    <3>3. QED
      BY <3>1, <3>2, RemovedIsTried
  <2>3. CASE ~(PlanMade \/ RemoveFile)
    <3>1. pc' = "files" => pc = "files" /\ UNCHANGED removed
      BY <2>3 DEF Next, Run, Others, Skip, ListRoot, ProbeRoot, List, CheckFile, FilesTried, RemoveDir,
             CheckDir, Report, Finish, Deliver, Terminate, CleanUp, Move, vars
    <3>2. QED
      BY <3>1
  <2>4. QED
    BY <2>1, <2>2, <2>3
<1>2. \A d \in Dirs, p \in blocked' : IsAbove(d, p) => d \in blocked'
  <2>1. CASE UNCHANGED blocked
    BY <2>1
  <2>2. CASE item \in Paths /\ blocked' = blocked \cup (Upto(item) \ {item})
    <3>1. \A d \in Dirs, p \in Upto(item) \ {item} : IsAbove(d, p) => d \in Upto(item) \ {item}
      BY <2>2, AboveIsTransitive, NotAbove DEF Upto
    <3>2. QED
      BY <2>2, <3>1
  <2>3. QED
    <3>1. UNCHANGED blocked \/ ((CheckFile \/ CheckDir) /\ Block(item))
      BY DEF Next, Run, Others, Skip, ListRoot, ProbeRoot, List, PlanMade, RemoveFile, CheckFile,
             FilesTried, RemoveDir, CheckDir, Report, Finish, Deliver, Terminate, CleanUp, Move, vars, result
    <3>2. CheckFile \/ CheckDir => item \in Paths
      BY DEF CheckFile, CheckDir, TypeOK
    <3>3. QED
      BY <2>1, <2>2, <3>1, <3>2 DEF Block
<1>3. ASSUME Undisturbed'
      PROVE  OnlyRaces' /\ (dry' \/ InTurn')
  <2>1. Undisturbed /\ ~Fault /\ ~CleanUp
    BY <1>3, StillUndisturbed
  <2>2. OnlyRaces /\ (dry \/ InTurn) /\ site = "dir"
    BY <2>1 DEF Undisturbed
  <2>3. CASE Skip \/ ProbeRoot
    BY <2>2, <2>3 DEF Skip, ProbeRoot, PlanInv
  <2>4. CASE ListRoot \/ \E d \in Dirs : List(d)
    BY <2>1, <2>2, <2>4, ListingKeepsRaces DEF ReportInv
  <2>5. CASE PlanMade
    <3>1. /\ UNCHANGED <<there, dry, plan, item, notEmpty, raced, removed>> /\ pc = "walk" /\ pc' = "files"
          /\ todo' = ToRemove(DeleteFiles) /\ failures' = {}
      BY <2>2, <2>5 DEF PlanMade, OnlyRaces, tree, config
    <3>2. removed = {} /\ item = Root
      BY <3>1 DEF PlanInv
    <3>3. OnlyRaces'
      BY <2>2, <3>1, <3>2 DEF OnlyRaces, plan, IsAbove
    <3>4. dry \/ InTurn'
      BY <3>1, <3>2, PlanIsFixed DEF InTurn, ToRemove
    <3>5. QED
      BY <3>1, <3>3, <3>4
  <2>6. CASE RemoveFile
    BY <2>1, <2>2, <2>6, FilesGo DEF ReportInv
  <2>7. CASE CheckFile \/ CheckDir
    BY <2>1, <2>2, <2>7, ChecksAreRaces DEF ReportInv
  <2>8. CASE FilesTried
    <3>1. /\ UNCHANGED <<there, dry, plan, item, notEmpty, result, removed>> /\ pc = "files" /\ pc' = "dirs"
          /\ todo = {} /\ todo' = ToRemove(DeleteDirs)
      BY <2>8 DEF FilesTried, tree, config
    <3>2. item = Root
      BY <3>1 DEF PlanInv
    <3>3. OnlyRaces'
      BY <2>2, <3>1, <3>2 DEF OnlyRaces, plan, result, IsAbove
    <3>4. dry \/ InTurn'
      <4>1. DeleteDirs \cap Files = {}
        BY PlanIsListed, PruneAssumption
      <4>2. QED
        BY <2>2, <3>1, <4>1, PlanIsFixed DEF InTurn, ToRemove
    <3>5. QED
      BY <3>1, <3>3, <3>4
  <2>9. CASE RemoveDir
    BY <2>1, <2>2, <2>9, DirsGo DEF ReportInv
  <2>10. CASE Report \/ Deliver \/ Terminate \/ Finish \/ UNCHANGED vars
    <3>1. /\ UNCHANGED <<dry, plan, todo, item, notEmpty, result, removed>> /\ there \subseteq there'
          /\ pc' = pc \/ (pc' = "done" /\ todo = {})
      BY <2>10 DEF Report, Deliver, Terminate, Delivers, Move, Finish, vars, tree, config
    <3>2. todo = {} => item = Root
      BY DEF PlanInv
    <3>3. QED
      BY <2>2, <3>1, <3>2, QuietStepKeepsRaces
  <2>11. QED
    BY <2>1, <2>3, <2>4, <2>5, <2>6, <2>7, <2>8, <2>9, <2>10 DEF Next, Run, Others
<1>4. QED
  BY <1>1, <1>2, <1>3

(* When the calls work and nobody else removes anything, a live cluster     *)
(* fails no run: a directory is only left because something was delivered   *)
(* below it since it was listed.                                            *)
THEOREM DeliveriesFailNothing == Spec => []RaceIsNotAFailure
<1>1. Init => ReportInv /\ RaceInv
  <2>1. Init => ReportInv
    BY InitReportInv
  <2>2. Init => RaceInv
    BY DEF Init, RaceInv, OnlyRaces, InTurn
  <2>3. QED
    BY <2>1, <2>2
<1>2. PruneInv /\ ReportInv /\ RaceInv /\ [Next]_vars => ReportInv' /\ RaceInv'
  <2>1. PruneInv => TypeOK /\ PlanInv
    BY DEF PruneInv
  <2>2. QED
    BY <2>1, StepKeepsReports, StepKeepsRaces
<1>3. RaceInv => RaceIsNotAFailure
  BY DEF RaceInv, Undisturbed, OnlyRaces, RaceIsNotAFailure
<1>4. QED
  BY <1>1, <1>2, <1>3, PruneInvariant, PTL DEF Spec
=============================================================================
