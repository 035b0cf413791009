------------------------------ MODULE BuildWheel ------------------------------
(***************************************************************************)
(* notebooks/build_wheel.py: builds a connector wheel and publishes it in  *)
(* the volume that index jobs install from, under the name of its version. *)
(* One run at a time; a run may be killed at any step; the volume's rename *)
(* may be a copy and a delete.                                             *)
(***************************************************************************)
EXTENDS Naturals

CONSTANTS WheelVersions, MaxBuilds

File(build, holds) == [build |-> build, holds |-> holds]

VARIABLES shelf,     \* version -> the published file, as a set of at most one
          partials,  \* the staging files .build_wheel.*.whl.partial
          build,     \* the run: its step, its version and its number
          copying,   \* the volume's rename is a copy and a delete
          verified,  \* history: version -> the build a green run published
          torn       \* history: versions whose publishing rename broke half-way

wheelVars == <<shelf, partials, build, copying, verified, torn>>

WheelInit ==
    /\ shelf = [v \in WheelVersions |-> {}] /\ verified = [v \in WheelVersions |-> {}]
    /\ partials = {} /\ torn = {} /\ copying \in BOOLEAN
    /\ build = [pc |-> "idle", version |-> CHOOSE v \in WheelVersions : TRUE, n |-> 0]

Version == build.version
Wheel(holds) == File(build.n, holds)
Goto(pc) == build' = [build EXCEPT !.pc = pc]
Mine == {f \in partials : f.build = build.n}

(* Cells 2 to 4: the parameters, the repository, and the immutable publish. *)
StartBuild(v) ==
    /\ build.pc = "idle" /\ build.n < MaxBuilds
    /\ build' = [pc |-> IF shelf[v] = {} THEN "build" ELSE "idle", version |-> v, n |-> build.n + 1]
    /\ UNCHANGED <<shelf, partials, copying, verified, torn>>
(* Cells 5 and 6: a build may fail, or make another wheel than expected.   *)
Build ==
    /\ build.pc = "build" /\ (Goto("stage") \/ Goto("idle"))
    /\ UNCHANGED <<shelf, partials, copying, verified, torn>>
(* Cell 7: what killed runs left is swept, as far as it can be removed.    *)
Stage ==
    /\ build.pc = "stage" /\ Goto("copy")
    /\ \E left \in SUBSET partials : partials' = left \cup {Wheel("part")}
    /\ UNCHANGED <<shelf, copying, verified, torn>>
CopyWheel ==
    /\ build.pc = "copy"
    /\ \/ partials' = (partials \ Mine) \cup {Wheel("all")} /\ Goto("check")
       \/ partials' = partials /\ (Goto("check") \/ Goto("clean"))
    /\ UNCHANGED <<shelf, copying, verified, torn>>
MutCheckStaged ==
    /\ build.pc = "check" /\ Goto(IF shelf[Version] = {} THEN "rename" ELSE "clean")
    /\ UNCHANGED <<shelf, partials, copying, verified, torn>>
CheckStaged ==
    /\ build.pc = "check"
    /\ Goto(IF Wheel("all") \in partials /\ shelf[Version] = {} THEN "rename" ELSE "clean")
    /\ UNCHANGED <<shelf, partials, copying, verified, torn>>
Rename ==
    /\ build.pc = "rename" /\ ~copying /\ Goto("verify")
    /\ shelf' = [shelf EXCEPT ![Version] = Mine] /\ partials' = partials \ Mine
    /\ UNCHANGED <<copying, verified, torn>>
RenameBegins ==
    /\ build.pc = "rename" /\ copying /\ Goto("renaming")
    /\ shelf' = [shelf EXCEPT ![Version] = {Wheel("part")}]
    /\ UNCHANGED <<partials, copying, verified, torn>>
RenameEnds ==
    /\ build.pc = "renaming" /\ Goto("verify")
    /\ shelf' = [shelf EXCEPT ![Version] = Mine] /\ partials' = partials \ Mine
    /\ UNCHANGED <<copying, verified, torn>>
RenameFails ==
    /\ build.pc \in {"rename", "renaming"} /\ Goto("clean")
    /\ torn' = IF build.pc = "renaming" THEN torn \cup {Version} ELSE torn
    /\ UNCHANGED <<shelf, partials, copying, verified>>
(* finally: the staging file goes if it can; the error is what is raised.  *)
CleanStaged ==
    /\ build.pc = "clean" /\ Goto("idle") /\ partials' \in {partials, partials \ Mine}
    /\ UNCHANGED <<shelf, copying, verified, torn>>
VerifyWheel ==
    /\ build.pc = "verify" /\ Goto("idle")
    /\ verified' \in {verified} \cup IF Wheel("all") \in shelf[Version]
                                     THEN {[verified EXCEPT ![Version] = {build.n}]} ELSE {}
    /\ UNCHANGED <<shelf, partials, copying, torn>>

KillBuild ==
    /\ build.pc # "idle" /\ Goto("idle")
    /\ torn' = IF build.pc = "renaming" THEN torn \cup {Version} ELSE torn
    /\ UNCHANGED <<shelf, partials, copying, verified>>
(* An operator removes a file, to publish that version again.              *)
RemoveWheel(v) ==
    /\ build.pc = "idle" /\ shelf[v] # {}
    /\ shelf' = [shelf EXCEPT ![v] = {}] /\ verified' = [verified EXCEPT ![v] = {}]
    /\ torn' = torn \ {v} /\ UNCHANGED <<partials, build, copying>>

WheelNext ==
    \/ \E v \in WheelVersions : StartBuild(v) \/ RemoveWheel(v)
    \/ Build \/ Stage \/ CopyWheel \/ CheckStaged \/ Rename \/ RenameBegins \/ RenameEnds
    \/ RenameFails \/ CleanStaged \/ VerifyWheel \/ KillBuild

-----------------------------------------------------------------------------
(* A wheel that a green run published keeps its bytes until an operator    *)
(* removes it, and no published name ever holds a part of a wheel, unless  *)
(* the volume's rename itself broke half-way; short copies, kills and      *)
(* their leftovers stay in staging.                                        *)
PublishedWheelIsWhole ==
    \A v \in WheelVersions :
        /\ verified[v] # {} => shelf[v] = {File(n, "all") : n \in verified[v]}
        /\ \A f \in shelf[v] : f.holds = "all" \/ v \in torn \/ (build.pc = "renaming" /\ Version = v)
=============================================================================
