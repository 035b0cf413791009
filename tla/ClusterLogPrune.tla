--------------------------- MODULE ClusterLogPrune ---------------------------
(***************************************************************************)
(* One run of the cluster log prune (pipeline_lib/cluster_log_prune.py):   *)
(* run_prune walks <root>/<cluster id>/<log kind>/..., plans which files   *)
(* and directories go, and removes them one call at a time, while the      *)
(* clusters go on delivering logs, other clean-ups remove some, and any    *)
(* listing or removal may fail.                                            *)
(*                                                                         *)
(* A path is the sequence of its names below the log root.                 *)
(***************************************************************************)
EXTENDS Naturals, Sequences

CONSTANTS
  Dirs,        \* the directories there may be, the root not among them
  Files,       \* the files there may be
  ClusterIds,  \* the names CLUSTER_ID matches
  LOG_KINDS,
  EventLog,    \* the log kind delivered only when a cluster terminates
  MaxFaults,   \* bound: calls of dbutils.fs that fail without a cause in the tree
  MaxMoves     \* bound: changes others make during the run

Root == <<>>
Paths == Dirs \cup Files
IsAbove(d, p) == Len(d) < Len(p) /\ SubSeq(p, 1, Len(d)) = d
Upto(p) == {d \in Dirs : IsAbove(d, p)} \cup {p}

ASSUME PruneAssumption ==
  /\ Dirs \cap Files = {}
  /\ \A p \in Paths : p \in Seq(STRING) /\ Len(p) > 0
  /\ \A p \in Paths : \A n \in 1..(Len(p) - 1) : SubSeq(p, 1, n) \in Dirs
  /\ ClusterIds \subseteq STRING
  /\ LOG_KINDS \subseteq STRING /\ EventLog \in LOG_KINDS
  /\ MaxFaults \in Nat /\ MaxMoves \in Nat

VARIABLES
  there,     \* the paths that exist below the root
  aged,      \* those whose modificationTime is known and before the cutoff
  running,   \* the clusters that have not terminated
  site,      \* what the configured path names when the run starts
  dry,       \* dry_run
  pc,        \* "root", "probe", "walk", "files", "dirs", "done"
  listed,    \* the directories whose listing was tried
  unread,    \* of these, the ones that did not list
  entries,   \* everything the listings returned
  old,       \* the entries that were aged when listed
  todo,      \* the planned paths not tried yet
  item,      \* the path whose removal failed, being looked up; Root if none
  notEmpty,  \* that failure was a "directory not empty" refusal
  blocked,   \* directories above something that is still there
  raced,     \* raced_dirs
  failures,
  outcome,   \* "none", "skipped", "green" (a summary line), "red" (it raised)
  faults, moves,
  \* history
  removed,   \* what this run's calls removed
  cleaned    \* what other clean-ups removed

tree == <<there, aged, running>>
config == <<site, dry>>
plan == <<listed, unread, entries, old>>
result == <<blocked, raced, failures>>
vars == <<tree, config, pc, plan, todo, item, notEmpty, result, outcome, faults, moves,
          removed, cleaned>>

TypeOK ==
  /\ there \subseteq Paths /\ aged \subseteq Paths /\ running \subseteq ClusterIds
  /\ site \in {"unset", "dir", "absent", "file", "volume"}
  /\ dry \in BOOLEAN
  /\ pc \in {"root", "probe", "walk", "files", "dirs", "done"}
  /\ listed \subseteq Dirs /\ unread \subseteq listed
  /\ entries \subseteq Paths /\ old \subseteq entries
  /\ todo \subseteq Paths
  /\ item \in Paths \cup {Root}
  /\ notEmpty \in BOOLEAN
  /\ blocked \subseteq Dirs /\ raced \subseteq Dirs
  /\ failures \subseteq Paths \cup {Root}
  /\ outcome \in {"none", "skipped", "green", "red"}
  /\ faults \in 0..MaxFaults /\ moves \in 0..MaxMoves
  /\ removed \subseteq Paths /\ cleaned \subseteq Paths

-----------------------------------------------------------------------------
(* The delivery layout, and the plan as a function of the listings.         *)
InLayout(p) == Len(p) >= 3 /\ p[1] \in ClusterIds /\ p[2] \in LOG_KINDS

(* Directories the walk enters, or reports as skipped. *)
Walked(p) ==
  /\ p \in Dirs
  /\ p[1] \in ClusterIds
  /\ Len(p) >= 2 => p[2] \in LOG_KINDS

IsIn(p, d) == Len(p) = Len(d) + 1 /\ IsAbove(d, p)
Children(d) == {p \in there : IsIn(p, d)}
Pending == {d \in entries \ listed : Walked(d)}

Within(d) == {p \in entries : p = d \/ IsAbove(d, p)}
Clean(d) == \A p \in Within(d) :
  \/ Walked(p) /\ p \notin unread
  \/ InLayout(p) /\ p \in Files \cap old
HasOld(d) == \E p \in Within(d) : p \in Files \cap old

DeleteFiles == {p \in entries \cap Files \cap old : InLayout(p)}

(* A finished cluster goes whole. *)
Finished(c) ==
  /\ Clean(c)
  /\ HasOld(c) \/ c \in old \/ (\E k \in Within(c) \cap Dirs : Len(k) = 2 /\ k[2] = EventLog)

(* The mutant: a directory whose empty, ageless child stays. *)
MutEmptied(d) == Clean(d) /\ (HasOld(d) \/ d \in old)

(* Otherwise a directory goes if the deletes empty it and all below it. *)
Emptied(d) == Clean(d) /\ \A x \in Within(d) \cap Dirs : HasOld(x) \/ x \in old

DeleteDirs == UNION {
  IF Finished(c) THEN Within(c) \cap Dirs ELSE {d \in (Within(c) \cap Dirs) \ {c} : Emptied(d)}
  : c \in {e \in entries : Len(e) = 1 /\ Walked(e)}}

(* A dry run plans all this and removes nothing. *)
ToRemove(planned) == IF dry THEN {} ELSE planned

-----------------------------------------------------------------------------
(* The trees a run can meet. *)
Init ==
  /\ site \in {"unset", "dir", "absent", "file", "volume"}
  /\ there \in SUBSET Paths
  /\ \A p \in there : Upto(p) \subseteq there
  /\ site # "dir" => there = {}
  /\ aged \in SUBSET there
  /\ running \in SUBSET ClusterIds
  /\ dry \in BOOLEAN
  /\ pc = "root"
  /\ listed = {} /\ unread = {} /\ entries = {} /\ old = {}
  /\ todo = {} /\ item = Root /\ notEmpty = FALSE
  /\ blocked = {} /\ raced = {} /\ failures = {}
  /\ outcome = "none"
  /\ faults = 0 /\ moves = 0
  /\ removed = {} /\ cleaned = {}

-----------------------------------------------------------------------------
(* Others.  A running cluster delivers a file, new or one it rewrites.      *)
Move ==
  /\ pc # "done"
  /\ site \in {"dir", "absent"}
  /\ moves < MaxMoves
  /\ moves' = moves + 1
  /\ UNCHANGED <<config, pc, plan, todo, item, notEmpty, result, outcome, faults, removed>>

Delivers(c, p) ==
  /\ p[1] = c
  /\ there' = there \cup Upto(p)
  /\ aged' = aged \ {p}
  /\ UNCHANGED cleaned

Deliver ==
  /\ Move
  /\ \E c \in running, p \in Files : InLayout(p) /\ p[2] # EventLog /\ Delivers(c, p)
  /\ UNCHANGED running

(* It terminates, and its event log is delivered. *)
Terminate ==
  /\ Move
  /\ \E c \in running :
       /\ running' = running \ {c}
       /\ \E p \in Paths : (p = <<c, EventLog>> \/ IsAbove(<<c, EventLog>>, p)) /\ Delivers(c, p)

(* Another clean-up removes a file, or an empty directory. *)
CleanUp ==
  /\ Move
  /\ site = "dir"
  /\ \E p \in there :
       /\ Children(p) = {}
       /\ there' = there \ {p}
       /\ aged' = aged \ {p}
       /\ cleaned' = cleaned \cup {p}
  /\ UNCHANGED running

Others == Deliver \/ Terminate \/ CleanUp

-----------------------------------------------------------------------------
(* A call of dbutils.fs fails without a cause in the tree, or does not.     *)
Fault == faults < MaxFaults /\ faults' = faults + 1
NoFault == UNCHANGED faults

(* run_prune: path unset, or retention off. *)
Skip ==
  /\ pc = "root" /\ site = "unset"
  /\ pc' = "done" /\ outcome' = "skipped"
  /\ UNCHANGED <<tree, config, plan, todo, item, notEmpty, result, faults, moves, removed, cleaned>>

(* plan_prune lists the root, ... *)
ListRoot ==
  /\ pc = "root" /\ site # "unset"
  /\ \/ /\ NoFault
        /\ site = "dir" \/ there # {}
        /\ entries' = Children(Root) /\ old' = Children(Root) \cap aged
        /\ pc' = "walk"
        /\ UNCHANGED failures
     \/ /\ NoFault
        /\ site \in {"absent", "file"} /\ there = {}
        /\ pc' = "probe"
        /\ UNCHANGED <<entries, old, failures>>
     \/ /\ IF site = "volume" THEN NoFault ELSE Fault
        /\ pc' = "walk"
        /\ failures' = {Root}
        /\ UNCHANGED <<entries, old>>
  /\ UNCHANGED <<tree, config, listed, unread, todo, item, notEmpty, blocked, raced, outcome, moves,
                 removed, cleaned>>

(* ... asks the parent whether a root that is not a directory is absent or  *)
(* a file; an unreadable parent proves neither, ...                         *)
ProbeRoot ==
  /\ pc = "probe"
  /\ pc' = "walk"
  /\ \/ NoFault /\ failures' = IF site = "absent" /\ there = {} THEN {} ELSE {Root}
     \/ Fault /\ failures' = IF site = "absent" THEN {Root} ELSE {}
  /\ UNCHANGED <<tree, config, plan, todo, item, notEmpty, blocked, raced, outcome, moves, removed,
                 cleaned>>

(* ... and walks depth first. *)
List(d) ==
  /\ pc = "walk"
  /\ d \in Pending
  /\ \A e \in Pending : Len(e) <= Len(d)
  /\ listed' = listed \cup {d}
  /\ \/ /\ NoFault /\ d \in there
        /\ entries' = entries \cup Children(d)
        /\ old' = old \cup (Children(d) \cap aged)
        /\ UNCHANGED unread
     \/ /\ IF d \in there THEN Fault ELSE NoFault
        /\ unread' = unread \cup {d}
        /\ UNCHANGED <<entries, old>>
  /\ UNCHANGED <<tree, config, pc, todo, item, notEmpty, result, outcome, moves, removed, cleaned>>

(* execute_plan takes the listing errors along. *)
PlanMade ==
  /\ pc = "walk" /\ Pending = {}
  /\ pc' = "files"
  /\ todo' = ToRemove(DeleteFiles)
  /\ failures' = failures \cup unread
  /\ UNCHANGED <<tree, config, plan, item, notEmpty, blocked, raced, outcome, faults, moves, removed,
                 cleaned>>

-----------------------------------------------------------------------------
(* rm(path, recurse=False); the mutant recurses. *)
MutRm(p) ==
  /\ p \in there
  /\ there' = {q \in there : q # p /\ ~IsAbove(p, q)}
  /\ aged' = aged \cap there'
  /\ removed' = removed \cup (there \ there')

Rm(p) ==
  /\ p \in there /\ Children(p) = {}
  /\ there' = there \ {p}
  /\ aged' = aged \ {p}
  /\ removed' = removed \cup {p}

(* The call fails; after a fault the path may be gone all the same. *)
RmFails(p) ==
  \/ NoFault /\ (p \notin there \/ Children(p) # {}) /\ UNCHANGED <<there, aged, removed>>
  \/ Fault /\ (Rm(p) \/ UNCHANGED <<there, aged, removed>>)

Tried(p) == todo' = todo \ {p} /\ item' = Root

(* Gone on positive evidence: an ancestor lists without it; the mutant      *)
(* takes the error alone for evidence.                                      *)
MutPositivelyGone(p) == NoFault
PositivelyGone(p) == NoFault /\ p \notin there

(* Every directory above a path that is still there; the mutant stops at    *)
(* the nearest.                                                             *)
MutBlock(p) == blocked' = blocked \cup {d \in Dirs : p \in Children(d)}
Block(p) == blocked' = blocked \cup (Upto(p) \ {p})

RemoveFile ==
  /\ pc = "files" /\ item = Root
  /\ \E p \in todo :
       \/ NoFault /\ Rm(p) /\ Tried(p)
       \/ RmFails(p) /\ item' = p /\ UNCHANGED todo
  /\ UNCHANGED <<running, config, pc, plan, notEmpty, result, outcome, moves, cleaned>>

(* A file that is positively gone counts as deleted; else it failed. *)
CheckFile ==
  /\ pc = "files" /\ item # Root
  /\ Tried(item)
  /\ \/ PositivelyGone(item) /\ UNCHANGED <<blocked, failures>>
     \/ /\ IF item \in there THEN NoFault ELSE Fault
        /\ failures' = failures \cup {item}
        /\ Block(item)
  /\ UNCHANGED <<tree, config, pc, plan, notEmpty, raced, outcome, moves, removed, cleaned>>

FilesTried ==
  /\ pc = "files" /\ todo = {}
  /\ pc' = "dirs"
  /\ todo' = ToRemove(DeleteDirs)
  /\ UNCHANGED <<tree, config, plan, item, notEmpty, result, outcome, faults, moves, removed, cleaned>>

(* Directories, deepest first, skipping those above something still there. *)
RemoveDir ==
  /\ pc = "dirs" /\ item = Root
  /\ \E p \in todo :
       /\ \A q \in todo : ~IsAbove(p, q)
       /\ \/ p \in blocked /\ Tried(p) /\ NoFault /\ UNCHANGED <<there, aged, removed, notEmpty>>
          \/ p \notin blocked /\ NoFault /\ Rm(p) /\ Tried(p) /\ UNCHANGED notEmpty
          \/ /\ p \notin blocked /\ RmFails(p)
             /\ item' = p
             /\ notEmpty' \in IF faults' = faults THEN {p \in there} ELSE BOOLEAN
             /\ UNCHANGED todo
  /\ UNCHANGED <<running, config, pc, plan, result, outcome, moves, cleaned>>

(* Gone is fine; a "not empty" refusal of a directory that lists non-empty  *)
(* is a race with a delivery; the rest are failures.                        *)
CheckDir ==
  /\ pc = "dirs" /\ item # Root
  /\ Tried(item)
  /\ \/ PositivelyGone(item) /\ UNCHANGED result
     \/ /\ NoFault /\ item \in there /\ Children(item) # {} /\ notEmpty
        /\ raced' = raced \cup {item}
        /\ Block(item)
        /\ UNCHANGED failures
     \/ /\ IF item \in there /\ (Children(item) = {} \/ ~notEmpty) THEN NoFault ELSE Fault
        /\ failures' = failures \cup {item}
        /\ Block(item)
        /\ UNCHANGED raced
  /\ UNCHANGED <<tree, config, pc, plan, notEmpty, outcome, moves, removed, cleaned>>

(* run_prune returns its summary, or raises. *)
Report ==
  /\ pc = "dirs" /\ todo = {}
  /\ pc' = "done"
  /\ outcome' = IF failures = {} THEN "green" ELSE "red"
  /\ UNCHANGED <<tree, config, plan, todo, item, notEmpty, result, faults, moves, removed, cleaned>>

Finish == pc = "done" /\ UNCHANGED vars

Run ==
  \/ Skip \/ ListRoot \/ ProbeRoot \/ (\E d \in Dirs : List(d)) \/ PlanMade
  \/ RemoveFile \/ CheckFile \/ FilesTried \/ RemoveDir \/ CheckDir \/ Report

Next == Run \/ Others \/ Finish

Spec == Init /\ [][Next]_vars

-----------------------------------------------------------------------------
(* The tree: a path exists with every directory above it. *)
TreeInv ==
  /\ aged \subseteq there
  /\ \A p \in there : Upto(p) \subseteq there
  /\ site # "dir" => aged = {}

(* The walk goes down from listed directories, the plan is about listed     *)
(* paths only, and nothing else was removed; nothing at all in a dry run.   *)
PlanInv ==
  /\ pc \in {"root", "probe"} => entries = {}
  /\ pc = "probe" => site # "dir"
  /\ listed \subseteq entries
  /\ \A e \in entries, d \in Dirs : IsIn(e, d) => d \in listed
  /\ removed \cup todo \subseteq DeleteFiles \cup DeleteDirs
  /\ todo # {} => pc \in {"files", "dirs"} /\ ~dry
  /\ pc = "files" => todo \subseteq DeleteFiles
  /\ pc = "dirs" => todo \subseteq DeleteDirs
  /\ item # Root => item \in todo
  /\ removed # {} => pc \in {"files", "dirs", "done"} /\ ~dry
  /\ outcome # "none" => pc = "done"

(* Where the old logs still there are accounted for: below a directory the  *)
(* walk will list or could not, in the plan, or behind a failure.           *)
OldLogs == {p \in aged \cap Files : InLayout(p)}

OldLogsInv ==
  \/ failures # {}
  \/ pc \in {"root", "probe"}
  \/ pc = "walk" /\ \A p \in OldLogs \ old : \E d \in Dirs : IsAbove(d, p) /\ d \in unread \cup Pending
  \/ pc = "files" /\ (dry \/ OldLogs \subseteq todo)
  \/ pc \in {"dirs", "done"} /\ (dry \/ OldLogs = {})
  \/ outcome = "skipped"

PruneInv ==
  /\ TypeOK
  /\ TreeInv
  /\ PlanInv
  /\ OldLogsInv
  /\ outcome = "green" => failures = {}

(* "an ALLOW-LIST over the delivery layout": the run removes a file only in *)
(* the layout and only if it was past the cutoff when listed, and no        *)
(* directory outside a cluster's.  In particular a log delivered since the  *)
(* listing is never taken along with its directory.                         *)
OnlyOldLogsGo ==
  \A p \in removed :
    /\ p[1] \in ClusterIds
    /\ p \in Files => InLayout(p) /\ p \in old

(* "a partial prune never reports green": after a green run that was not    *)
(* dry, no file of the layout that is past the cutoff is left.              *)
GreenLeavesNoOldLog ==
  outcome = "green" /\ ~dry => OldLogs = {}

(* "a live cluster doesn't page support": when the listings and removals    *)
(* work and nobody else removes anything, nothing fails, and a directory    *)
(* counted as raced holds something delivered since its listing.            *)
RaceIsNotAFailure ==
  site = "dir" /\ faults = 0 /\ cleaned = {} =>
    /\ failures = {}
    /\ \A d \in raced : \E p \in there : IsAbove(d, p) /\ (p \notin entries \/ p \in removed)

(* "one problem is reported once rather than once per ancestor directory".  *)
ReportedOnce == \A p, q \in failures \cup raced : ~IsAbove(p, q)
=============================================================================
