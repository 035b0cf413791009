-------------------------- MODULE OneShotJobsProofs ---------------------------
(***************************************************************************)
(* What the jobs that run once keep, each whatever the others do, for      *)
(* every number of runs, builds, rows and attempts and every failure and   *)
(* kill.                                                                   *)
(***************************************************************************)
EXTENDS OneShotJobs, DeployViewsProofs

-----------------------------------------------------------------------------
ClearFields == {"pc", "existed", "error", "gone", "outcome"}

(* What a run knows of the checkpoint at each of its steps.                *)
ClearInv ==
    /\ DOMAIN clear = Clears
    /\ \A r \in Clears :
         /\ DOMAIN clear[r] = ClearFields
         /\ \/ clear[r].pc = "recheck"
            \/ clear[r].pc \in {"report", "green", "red"} /\ ~clear[r].error
            => (r \notin written => dir = "absent")
         /\ clear[r].pc \in {"report", "green", "red"} /\ ~clear[r].error
              /\ clear[r].existed /\ ~clear[r].gone => r \in written
         /\ clear[r].outcome = IF clear[r].pc \in {"green", "red"} THEN Outcome(clear[r]) ELSE "none"
         /\ (clear[r].pc = "green") = (clear[r].outcome \in {"DELETED", "NOT_PRESENT"})

(* Before the first clear nothing is known of the checkpoint. *)
LEMMA ClearInvInit == ClearInit => ClearInv
BY DEF ClearInit, ClearInv, ClearFields

(* Every step of a clear, and of the stream beside it, keeps ClearInv. *)
LEMMA ClearInvNext == ClearInv /\ [ClearNext]_clearVars => ClearInv'
<1> SUFFICES ASSUME ClearInv, [ClearNext]_clearVars
             PROVE  ClearInv'
  OBVIOUS
<1> USE DEF ClearInv, ClearFields, At, Becomes, ClearError
<1>1. ASSUME NEW r \in Clears, ListBefore(r)
      PROVE  ClearInv'
  BY <1>1 DEF ListBefore
<1>2. ASSUME NEW r \in Clears, Probe(r)
      PROVE  ClearInv'
  <2>1. CASE ClearError(r, "report") /\ written' = written
    BY <1>2, <2>1 DEF Probe
  <2>2. CASE dir # "absent" /\ clear[r].pc = "probe" /\ Becomes(r, [clear[r] EXCEPT !.pc = "remove", !.existed = dir # "absent"])
    BY <1>2, <2>2 DEF Probe
  <2>3. CASE dir = "absent" /\ clear[r].pc = "probe" /\ Becomes(r, [clear[r] EXCEPT !.pc = "recheck", !.existed = dir # "absent"])
    BY <1>2, <2>3 DEF Probe
  <2> QED
    BY <1>2, <2>1, <2>2, <2>3 DEF Probe
<1>3. ASSUME NEW r \in Clears, RemoveSome(r)
      PROVE  ClearInv'
  BY <1>3 DEF RemoveSome
<1>4. ASSUME NEW r \in Clears, RemoveEnds(r)
      PROVE  ClearInv'
  <2>1. CASE ClearError(r, "report") /\ UNCHANGED <<dir, written>>
    BY <1>4, <2>1 DEF RemoveEnds
  <2>2. CASE dir' = "absent" /\ written' = written \ {r} /\ Becomes(r, [clear[r] EXCEPT !.pc = "recheck"])
    BY <1>4, <2>2 DEF RemoveEnds
  <2> QED
    BY <1>4, <2>1, <2>2 DEF RemoveEnds
<1>5. ASSUME NEW r \in Clears, Recheck(r)
      PROVE  ClearInv'
  <2>1. CASE ClearError(r, "report") /\ written' = written
    BY <1>5, <2>1 DEF Recheck
  <2>2. CASE /\ dir = "absent" /\ written' \subseteq written /\ written \ {r} \subseteq written'
             /\ Becomes(r, [clear[r] EXCEPT !.pc = "report", !.gone = dir = "absent"])
    BY <1>5, <2>2 DEF Recheck, Outcome
  <2>3. CASE /\ dir # "absent" /\ written' = written
             /\ Becomes(r, [clear[r] EXCEPT !.pc = "report", !.gone = dir = "absent"])
    BY <1>5, <2>3 DEF Recheck
  <2> QED
    BY <1>5, <2>1, <2>2, <2>3 DEF Recheck
<1>6. ASSUME NEW r \in Clears, Report(r)
      PROVE  ClearInv'
  BY <1>6 DEF Report, Outcome
<1>7. CASE StreamWrites
  BY <1>7 DEF StreamWrites
<1>8. CASE UNCHANGED clearVars
  BY <1>8 DEF clearVars
<1> QED
  BY <1>1, <1>2, <1>3, <1>4, <1>5, <1>6, <1>7, <1>8 DEF ClearNext

(* What a run knows of the checkpoint makes its report true. *)
LEMMA ClearInvShows == ClearInv => ClearVerdictIsTrue
BY DEF ClearInv, ClearVerdictIsTrue, Outcome

-----------------------------------------------------------------------------
(* A file of the volume tells its build and how much of it there is. *)
LEMMA FileFields ==
    \A n : /\ File(n, "all").build = n /\ File(n, "part").build = n
           /\ File(n, "all").holds = "all" /\ File(n, "part").holds = "part"
BY DEF File

(* What of this run is in staging at each of its steps, and that the name  *)
(* it publishes under is free until its rename.                            *)
StagingInv ==
    /\ build.pc \in {"build", "stage"} => Mine = {}
    /\ build.pc = "copy" => Mine = {Wheel("part")}
    /\ build.pc = "check" => Mine = {Wheel("part")} \/ Mine = {Wheel("all")}
    /\ build.pc \in {"rename", "renaming"} => Mine = {Wheel("all")}
    /\ build.pc \in {"build", "stage", "copy", "check", "rename"} => shelf[Version] = {}
    /\ build.pc \in {"renaming", "verify"} => verified[Version] = {}
    /\ build.pc = "verify" => shelf[Version] = {Wheel("all")}

WheelTypes ==
    /\ DOMAIN build = {"pc", "version", "n"} /\ build.n \in Nat
    /\ build.pc # "idle" => Version \in WheelVersions
    /\ DOMAIN shelf = WheelVersions /\ DOMAIN verified = WheelVersions
    /\ \A f \in partials : f.build \in 0..build.n

WheelInv ==
    /\ WheelTypes
    /\ StagingInv
    /\ PublishedWheelIsWhole

(* An empty volume has nothing staged and nothing published. *)
LEMMA WheelInvInit == WheelInit => WheelInv
BY DEF WheelInit, WheelInv, WheelTypes, StagingInv, PublishedWheelIsWhole

(* A step of the build's own control changes neither its version nor its    *)
(* name in the volume.                                                      *)
LEMMA GotoSame ==
    ASSUME WheelTypes, NEW pc, Goto(pc)
    PROVE  /\ DOMAIN build' = DOMAIN build /\ build'.pc = pc /\ build'.n = build.n /\ build'.version = build.version
           /\ Version' = Version /\ Wheel("all")' = Wheel("all") /\ Wheel("part")' = Wheel("part")
           /\ partials' = partials => Mine' = Mine
           /\ \A f : partials' = (partials \ Mine) \cup {f} /\ f.build = build.n => Mine' = {f}
           /\ \A f : \A left \in SUBSET partials :
                partials' = left \cup {f} /\ f.build = build.n /\ Mine = {} => Mine' = {f}
BY DEF Goto, Version, Wheel, Mine

(* The wheel of a build carries the build's number. *)
LEMMA WheelFields ==
    /\ Wheel("all").build = build.n /\ Wheel("part").build = build.n
    /\ Wheel("all").holds = "all" /\ Wheel("part").holds = "part"
    /\ Wheel("all") = File(build.n, "all")
BY FileFields DEF Wheel

(* A build's staging files are those of its number. *)
LEMMA MineIn ==
    /\ Mine \subseteq partials /\ \A f \in Mine : f.build = build.n
    /\ \A f \in partials : f.build = build.n => f \in Mine
BY DEF Mine

(* Every step of a build, and every kill, keeps WheelInv. *)
LEMMA WheelInvNext == WheelInv /\ [WheelNext]_wheelVars => WheelInv'
<1> SUFFICES ASSUME WheelInv, [WheelNext]_wheelVars
             PROVE  WheelInv'
  OBVIOUS
<1> USE DEF WheelInv
<1>1. ASSUME NEW v \in WheelVersions, StartBuild(v)
      PROVE  WheelInv'
  <2>1. WheelTypes'
    BY <1>1 DEF StartBuild, WheelTypes, Version
  <2>2. StagingInv'
    BY <1>1 DEF StartBuild, WheelTypes, StagingInv, Version, Mine
  <2>3. PublishedWheelIsWhole'
    BY <1>1 DEF StartBuild, PublishedWheelIsWhole
  <2> QED
    BY <2>1, <2>2, <2>3
<1>2. ASSUME NEW v \in WheelVersions, RemoveWheel(v)
      PROVE  WheelInv'
  <2>1. WheelTypes'
    BY <1>2 DEF RemoveWheel, WheelTypes
  <2>2. StagingInv'
    BY <1>2 DEF RemoveWheel, StagingInv
  <2>3. PublishedWheelIsWhole'
    BY <1>2 DEF RemoveWheel, WheelTypes, PublishedWheelIsWhole
  <2> QED
    BY <2>1, <2>2, <2>3
<1>3. CASE Build
  <2>1. WheelTypes'
    BY <1>3, GotoSame DEF Build, WheelTypes
  <2>2. StagingInv'
    BY <1>3, GotoSame DEF Build, StagingInv
  <2>3. PublishedWheelIsWhole'
    BY <1>3 DEF Build, PublishedWheelIsWhole
  <2> QED
    BY <2>1, <2>2, <2>3
<1>4. CASE Stage
  <2>1. WheelTypes'
    BY <1>4, GotoSame, WheelFields DEF Stage, WheelTypes
  <2>2. StagingInv'
    <3>1. Mine' = {Wheel("part")}
      BY <1>4, GotoSame, WheelFields DEF Stage, StagingInv
    <3> QED
      BY <1>4, <3>1, GotoSame DEF Stage, StagingInv
  <2>3. PublishedWheelIsWhole'
    BY <1>4 DEF Stage, PublishedWheelIsWhole
  <2> QED
    BY <2>1, <2>2, <2>3
<1>5. CASE CopyWheel
  <2>1. WheelTypes'
    BY <1>5, GotoSame, WheelFields DEF CopyWheel, WheelTypes
  <2>2. StagingInv'
    BY <1>5, GotoSame, WheelFields DEF CopyWheel, StagingInv
  <2>3. PublishedWheelIsWhole'
    BY <1>5 DEF CopyWheel, PublishedWheelIsWhole
  <2> QED
    BY <2>1, <2>2, <2>3
<1>6. CASE CheckStaged
  <2>1. WheelTypes'
    BY <1>6, GotoSame DEF CheckStaged, WheelTypes
  <2>2. StagingInv'
    BY <1>6, GotoSame, WheelFields, MineIn DEF CheckStaged, StagingInv
  <2>3. PublishedWheelIsWhole'
    BY <1>6 DEF CheckStaged, PublishedWheelIsWhole
  <2> QED
    BY <2>1, <2>2, <2>3
<1>7. CASE Rename
  <2>1. WheelTypes'
    BY <1>7, GotoSame DEF Rename, WheelTypes
  <2>2. StagingInv'
    BY <1>7, GotoSame DEF Rename, WheelTypes, StagingInv, PublishedWheelIsWhole
  <2>3. PublishedWheelIsWhole'
    BY <1>7, WheelFields DEF Rename, StagingInv, PublishedWheelIsWhole
  <2> QED
    BY <2>1, <2>2, <2>3
<1>8. CASE RenameBegins
  <2>1. WheelTypes'
    BY <1>8, GotoSame DEF RenameBegins, WheelTypes
  <2>2. StagingInv'
    BY <1>8, GotoSame DEF RenameBegins, WheelTypes, StagingInv, PublishedWheelIsWhole
  <2>3. PublishedWheelIsWhole'
    BY <1>8, GotoSame DEF RenameBegins, StagingInv, PublishedWheelIsWhole
  <2> QED
    BY <2>1, <2>2, <2>3
<1>9. CASE RenameEnds
  <2>1. WheelTypes'
    BY <1>9, GotoSame DEF RenameEnds, WheelTypes
  <2>2. StagingInv'
    BY <1>9, GotoSame DEF RenameEnds, WheelTypes, StagingInv
  <2>3. PublishedWheelIsWhole'
    BY <1>9, WheelFields DEF RenameEnds, WheelTypes, StagingInv, PublishedWheelIsWhole
  <2> QED
    BY <2>1, <2>2, <2>3
<1>10. CASE RenameFails
  <2>1. WheelTypes'
    BY <1>10, GotoSame DEF RenameFails, WheelTypes
  <2>2. StagingInv'
    BY <1>10, GotoSame DEF RenameFails, StagingInv
  <2>3. PublishedWheelIsWhole'
    BY <1>10 DEF RenameFails, PublishedWheelIsWhole
  <2> QED
    BY <2>1, <2>2, <2>3
<1>11. CASE CleanStaged
  <2>1. WheelTypes'
    BY <1>11, GotoSame DEF CleanStaged, WheelTypes
  <2>2. StagingInv'
    BY <1>11, GotoSame DEF CleanStaged, StagingInv
  <2>3. PublishedWheelIsWhole'
    BY <1>11 DEF CleanStaged, PublishedWheelIsWhole
  <2> QED
    BY <2>1, <2>2, <2>3
<1>12. CASE VerifyWheel
  <2>1. WheelTypes'
    BY <1>12, GotoSame DEF VerifyWheel, WheelTypes
  <2>2. StagingInv'
    BY <1>12, GotoSame DEF VerifyWheel, StagingInv
  <2>3. PublishedWheelIsWhole'
    BY <1>12, WheelFields DEF VerifyWheel, WheelTypes, StagingInv, PublishedWheelIsWhole
  <2> QED
    BY <2>1, <2>2, <2>3
<1>13. CASE KillBuild
  <2>1. WheelTypes'
    BY <1>13, GotoSame DEF KillBuild, WheelTypes
  <2>2. StagingInv'
    BY <1>13, GotoSame DEF KillBuild, StagingInv
  <2>3. PublishedWheelIsWhole'
    BY <1>13 DEF KillBuild, PublishedWheelIsWhole
  <2> QED
    BY <2>1, <2>2, <2>3
<1>14. CASE UNCHANGED wheelVars
  <2>1. WheelTypes'
    BY <1>14 DEF wheelVars, WheelTypes, Version
  <2>2. StagingInv'
    BY <1>14 DEF wheelVars, StagingInv, Version, Mine, Wheel
  <2>3. PublishedWheelIsWhole'
    BY <1>14 DEF wheelVars, PublishedWheelIsWhole, Version
  <2> QED
    BY <2>1, <2>2, <2>3
<1> QED
  BY <1>1, <1>2, <1>3, <1>4, <1>5, <1>6, <1>7, <1>8, <1>9, <1>10, <1>11, <1>12, <1>13, <1>14
     DEF WheelNext

-----------------------------------------------------------------------------
IsOfBuild(have) == \A c \in DOMAIN Expected : c \in DOMAIN have /\ have[c] = Expected[c]

(* How far the create job has come, as long as nobody else alters the      *)
(* table: what is still wrong is what it is still going to put right.      *)
CreatorInv ==
    ~touched =>
      /\ creator.pc = "create new" => columns = {}
      /\ creator.pc = "add" => columns = {creator.fields}
      /\ creator.pc = "comment" =>
           \E have \in columns : \A c \in DOMAIN Expected :
             c \in DOMAIN have /\ (have[c] # Expected[c] => c \in changed_comments(creator.fields))
      /\ creator.pc = "green" => \E have \in columns : IsOfBuild(have)

RowsInv == appended \in Nat /\ (1..appended) \ old \subseteq rows

LogInv ==
    /\ DOMAIN creator = {"pc", "build", "fields"}
    /\ \A x, y \in columns : x = y
    /\ CreatorInv
    /\ RowsInv

(* Before the first create job there is no table. *)
LEMMA LogInvInit == LogInit => LogInv
BY DEF LogInit, LogInv, CreatorInv, RowsInv

(* A step of another job that leaves the table's columns alone leaves the   *)
(* create job's account alone.                                              *)
LEMMA OtherJobsKeep ==
    ASSUME LogInv, columns' = columns, creator' = creator, touched' = touched
    PROVE  /\ DOMAIN creator' = {"pc", "build", "fields"}
           /\ \A x, y \in columns' : x = y
           /\ CreatorInv'
<1>1. Expected' = Expected
  BY DEF Expected
<1>2. changed_comments(creator.fields)' = changed_comments(creator.fields)
  BY <1>1 DEF changed_comments
<1>3. \A have : IsOfBuild(have)' <=> IsOfBuild(have)
  BY <1>1 DEF IsOfBuild
<1>4. CreatorInv
  BY DEF LogInv
<1>5. ~touched /\ creator.pc = "comment" =>
        \E have \in columns' : \A c \in DOMAIN Expected' :
          c \in DOMAIN have /\ (have[c] # Expected'[c] => c \in changed_comments(creator.fields)')
  BY <1>1, <1>2, <1>4 DEF CreatorInv
<1>6. ~touched /\ creator.pc = "green" => \E have \in columns' : IsOfBuild(have)'
  BY <1>3, <1>4 DEF CreatorInv
<1>7. ~touched => /\ creator.pc = "create new" => columns' = {}
                  /\ creator.pc = "add" => columns' = {creator'.fields}
  BY <1>4 DEF CreatorInv
<1>8. CreatorInv'
  BY <1>5, <1>6, <1>7 DEF CreatorInv
<1> QED
  BY <1>8 DEF LogInv

(* Every step on the log table keeps LogInv. *)
LEMMA LogInvNext == LogInv /\ [LogNext]_logVars => LogInv'
<1> SUFFICES ASSUME LogInv, [LogNext]_logVars
             PROVE  LogInv'
  OBVIOUS
<1> USE DEF LogInv, Creator
<1>1. CASE StartCreate
  <2>1. DOMAIN creator' = {"pc", "build", "fields"} /\ \A x, y \in columns' : x = y
    BY <1>1 DEF StartCreate, TableSame
  <2>2. CreatorInv'
    BY <1>1 DEF StartCreate, TableSame, TableExists, CreatorInv
  <2>3. RowsInv'
    BY <1>1 DEF StartCreate, TableSame, RowsInv
  <2> QED
    BY <2>1, <2>2, <2>3
<1>2. CASE CreateTable
  <2>1. DOMAIN creator' = {"pc", "build", "fields"} /\ \A x, y \in columns' : x = y
    BY <1>2 DEF CreateTable
  <2>2. CreatorInv'
    BY <1>2 DEF CreateTable, TableExists, CreatorInv, Expected, IsOfBuild
  <2>3. RowsInv'
    BY <1>2 DEF CreateTable, RowsInv
  <2> QED
    BY <2>1, <2>2, <2>3
<1>3. CASE ReadFields
  <2>1. DOMAIN creator' = {"pc", "build", "fields"} /\ \A x, y \in columns' : x = y
    BY <1>3 DEF ReadFields, TableSame
  <2>2. CreatorInv'
    BY <1>3 DEF ReadFields, TableSame, CreatorInv
  <2>3. RowsInv'
    BY <1>3 DEF ReadFields, TableSame, RowsInv
  <2> QED
    BY <2>1, <2>2, <2>3
<1>4. CASE AddColumns
  <2>1. DOMAIN creator' = {"pc", "build", "fields"} /\ \A x, y \in columns' : x = y
    BY <1>4 DEF AddColumns
  <2>2. CreatorInv'
    BY <1>4 DEF AddColumns, CreatorInv, Expected, changed_comments, missing_columns
  <2>3. RowsInv'
    BY <1>4 DEF AddColumns, RowsInv
  <2> QED
    BY <2>1, <2>2, <2>3
<1>5. CASE EndCreate
  <2>1. DOMAIN creator' = {"pc", "build", "fields"} /\ \A x, y \in columns' : x = y
    BY <1>5 DEF EndCreate, TableSame
  <2>2. CreatorInv'
    BY <1>5 DEF EndCreate, TableSame, CreatorInv, Expected, IsOfBuild
  <2>3. RowsInv'
    BY <1>5 DEF EndCreate, TableSame, RowsInv
  <2> QED
    BY <2>1, <2>2, <2>3
<1>6. CASE FailCreate
  <2>1. DOMAIN creator' = {"pc", "build", "fields"} /\ \A x, y \in columns' : x = y
    BY <1>6 DEF FailCreate, TableSame
  <2>2. CreatorInv'
    BY <1>6 DEF FailCreate, CreatorInv
  <2>3. RowsInv'
    BY <1>6 DEF FailCreate, TableSame, RowsInv
  <2> QED
    BY <2>1, <2>2, <2>3
<1>7. CASE OthersAlter
  <2>1. DOMAIN creator' = {"pc", "build", "fields"} /\ \A x, y \in columns' : x = y
    BY <1>7 DEF OthersAlter
  <2>2. CreatorInv'
    BY <1>7 DEF OthersAlter, CreatorInv
  <2>3. RowsInv'
    BY <1>7 DEF OthersAlter, RowsInv
  <2> QED
    BY <2>1, <2>2, <2>3
<1>8. CASE StartPrune
  <2>1. RowsInv'
    BY <1>8 DEF StartPrune, RowsInv
  <2> QED
    BY <1>8, <2>1, OtherJobsKeep DEF StartPrune
<1>9. CASE DeleteOld
  <2>1. RowsInv'
    BY <1>9 DEF DeleteOld, RowsInv
  <2> QED
    BY <1>9, <2>1, OtherJobsKeep DEF DeleteOld
<1>10. CASE Maintain
  <2>1. RowsInv'
    BY <1>10 DEF Maintain, RowsInv
  <2> QED
    BY <1>10, <2>1, OtherJobsKeep DEF Maintain
<1>11. CASE FailPrune
  <2>1. RowsInv'
    BY <1>11 DEF FailPrune, RowsInv
  <2> QED
    BY <1>11, <2>1, OtherJobsKeep DEF FailPrune
<1>12. CASE AppendRow
  <2>1. RowsInv'
    BY <1>12 DEF AppendRow, RowsInv
  <2> QED
    BY <1>12, <2>1, OtherJobsKeep DEF AppendRow
<1>13. CASE DeployBuild
  <2>1. RowsInv'
    BY <1>13 DEF DeployBuild, RowsInv
  <2> QED
    BY <1>13, <2>1, OtherJobsKeep DEF DeployBuild
<1>14. ASSUME NEW n, AgeRow(n)
      PROVE  LogInv'
  <2>1. RowsInv'
    BY <1>14 DEF AgeRow, RowsInv
  <2> QED
    BY <1>14, <2>1, OtherJobsKeep DEF AgeRow
<1>15. ASSUME NEW c, UpdateComment(c)
      PROVE  LogInv'
  <2>1. DOMAIN creator' = {"pc", "build", "fields"} /\ (\A x, y \in columns' : x = y) /\ RowsInv'
    BY <1>15 DEF UpdateComment, RowsInv
  <2>2. CreatorInv'
    <3>1. PICK have \in columns : c \in DOMAIN have /\ columns' = {[have EXCEPT ![c] = Expected[c]]}
      BY <1>15 DEF UpdateComment
    <3>2. /\ creator.pc = "comment" /\ creator' = [creator EXCEPT !.fields[c] = Expected[c]]
          /\ touched' = touched /\ c \in changed_comments(creator.fields)
      BY <1>15 DEF UpdateComment
    <3>3. Expected' = Expected /\ creator'.pc = "comment" /\ creator'.fields = [creator.fields EXCEPT ![c] = Expected[c]]
      BY <3>2 DEF Expected
    <3>4. \A x : x \in changed_comments(creator.fields) /\ x # c => x \in changed_comments(creator.fields)'
      BY <3>3 DEF changed_comments
    <3>5. SUFFICES ASSUME ~touched
                   PROVE  \A x \in DOMAIN Expected :
                            /\ x \in DOMAIN [have EXCEPT ![c] = Expected[c]]
                            /\ [have EXCEPT ![c] = Expected[c]][x] # Expected[x] =>
                                 x \in changed_comments(creator.fields)'
      BY <3>1, <3>2, <3>3 DEF CreatorInv
    <3>6. \A x \in DOMAIN Expected : x \in DOMAIN have /\ (have[x] # Expected[x] => x \in changed_comments(creator.fields))
      BY <3>2, <3>5 DEF CreatorInv
    <3> QED
      BY <3>4, <3>6
  <2> QED
    BY <2>1, <2>2
<1>16. CASE UNCHANGED logVars
  <2>1. RowsInv'
    BY <1>16 DEF logVars, RowsInv
  <2> QED
    BY <1>16, <2>1, OtherJobsKeep DEF logVars
<1> QED
  BY <1>1, <1>2, <1>3, <1>4, <1>5, <1>6, <1>7, <1>8, <1>9, <1>10, <1>11, <1>12, <1>13, <1>14, <1>15, <1>16 DEF LogNext

(* What is still wrong with the table is what a create job under way is     *)
(* still going to put right.                                                *)
LEMMA LogInvShows == LogInv => LogTableIsSound
BY DEF LogInv, CreatorInv, RowsInv, LogTableIsSound, IsOfBuild

-----------------------------------------------------------------------------
(* A log call leaves the rows as they are, or adds its own.                *)
LEMMA LogCall ==
    ASSUME NEW type, NEW t, NEW status,
           Appends(LogRow(type, t, status)) \/ AppendFails(LogRow(type, t, status))
    PROVE  /\ \A ty, u, st : HasRow(u, ty, st) => HasRow(u, ty, st)'
           /\ \A ty, u, st : HasRow(u, ty, st)' => HasRow(u, ty, st) \/ (logOn /\ ty = type /\ u = t /\ st = status)
           /\ Appends(LogRow(type, t, status)) /\ logOn => HasRow(t, type, status)'
<1> DEFINE row == LogRow(type, t, status)
<1>1. row.type = type /\ row.try = t /\ row.status = status
  BY DEF LogRow
<1>2. logged' = logged \/ (logOn /\ logged' = logged \cup {row})
  BY DEF Appends, AppendFails
<1>3. Appends(row) /\ logOn => row \in logged'
  BY DEF Appends
<1> HIDE DEF row
<1>4. \A ty, u, st : HasRow(u, ty, st) => HasRow(u, ty, st)'
  BY <1>2 DEF HasRow
<1>5. ASSUME NEW ty, NEW u, NEW st, HasRow(u, ty, st)', ~HasRow(u, ty, st)
      PROVE  logOn /\ ty = type /\ u = t /\ st = status
  BY <1>1, <1>2, <1>5 DEF HasRow
<1>6. Appends(row) /\ logOn => HasRow(t, type, status)'
  BY <1>1, <1>3 DEF HasRow
<1> QED
  BY <1>4, <1>5, <1>6 DEF row

(* Without a call of the log no row comes or goes. *)
LEMMA NoLogCall ==
    ASSUME logged' = logged
    PROVE  \A ty, u, st : HasRow(u, ty, st)' <=> HasRow(u, ty, st)
BY DEF HasRow

Under == {"prepare", "announce", "write", "reconcile", "success", "error", "end", "done"}
(* What the log and the index know of the attempt at each of its steps.    *)
StepInv ==
    /\ logOn /\ step \in Under => HasRow(try, "run_start", "started")
    /\ logOn /\ step \in {"write", "reconcile", "success", "error", "end", "done"}
         => HasRow(try, "batch_start", "started")
    /\ step \in {"start", "prepare", "announce"} => sentIn[try] = "nothing"
    /\ step = "reconcile" /\ returned = "exact" => sentIn[try] = "all"
    /\ step \in {"success", "end", "done"} => sentIn[try] = "all"
    /\ step \in {"start"} \cup Under => ~HasRow(try, "batch_end", "error")
         /\ ~HasRow(try, "run_end", "error")
    /\ step \in {"start"} \cup (Under \ {"end", "done"}) => ~HasRow(try, "batch_end", "success")
    /\ logOn /\ step \in {"end", "done"} => HasRow(try, "batch_end", "success")
    /\ logOn /\ step = "done" => HasRow(try, "run_end", "success")

(* Nothing is known of attempts that are still to come.                    *)
FutureInv ==
    \A u \in Nat : u > try =>
        /\ u \in Tries => sentIn[u] = "nothing"
        /\ \A ty, st : ~HasRow(u, ty, st)

BatchTypes ==
    /\ try \in 0..MaxTries /\ DOMAIN sentIn = Tries
    /\ step # "idle" => try \in Tries

BatchInv == BatchTypes /\ FutureInv /\ StepInv /\ BatchLogIsTrue

(* Before the first attempt log and index are empty. *)
LEMMA BatchInvInit == BatchInit => BatchInv
BY MaxTriesAssumption
   DEF BatchInit, BatchInv, BatchTypes, FutureInv, StepInv, BatchLogIsTrue, HasRow, Tries, Under

(* Every step of a batch run keeps BatchInv. *)
LEMMA BatchInvNext == BatchInv /\ [BatchNext]_batchVars => BatchInv'
<1> SUFFICES ASSUME BatchInv, [BatchNext]_batchVars
             PROVE  BatchInv'
  OBVIOUS
<1> USE MaxTriesAssumption DEF BatchInv, Then
<1>1. CASE NextTry
  <2>1. BatchTypes'
    BY <1>1 DEF NextTry, BatchTypes, Tries
  <2>2. FutureInv'
    BY <1>1, NoLogCall DEF NextTry, BatchTypes, FutureInv
  <2>3. StepInv'
    BY <1>1, NoLogCall DEF NextTry, BatchTypes, FutureInv, StepInv, Under, Tries
  <2>4. BatchLogIsTrue'
    BY <1>1, NoLogCall DEF NextTry, BatchLogIsTrue
  <2> QED
    BY <2>1, <2>2, <2>3, <2>4
<1>2. CASE StartRun
  <2>1. BatchTypes'
    BY <1>2 DEF StartRun, BatchTypes
  <2>2. FutureInv'
    BY <1>2, LogCall DEF StartRun, FutureInv
  <2>3. StepInv'
    BY <1>2, LogCall DEF StartRun, StepInv, Under
  <2>4. BatchLogIsTrue'
    BY <1>2, LogCall DEF StartRun, BatchLogIsTrue
  <2> QED
    BY <2>1, <2>2, <2>3, <2>4
<1>3. CASE PrepareBatch
  <2>1. BatchTypes'
    BY <1>3 DEF PrepareBatch, BatchTypes
  <2>2. FutureInv'
    BY <1>3, NoLogCall DEF PrepareBatch, FutureInv
  <2>3. StepInv'
    BY <1>3, NoLogCall DEF PrepareBatch, StepInv, Under
  <2>4. BatchLogIsTrue'
    BY <1>3, NoLogCall DEF PrepareBatch, BatchLogIsTrue
  <2> QED
    BY <2>1, <2>2, <2>3, <2>4
<1>4. CASE Announce
  <2>1. BatchTypes'
    BY <1>4 DEF Announce, BatchTypes
  <2>2. FutureInv'
    BY <1>4, LogCall DEF Announce, FutureInv
  <2>3. StepInv'
    BY <1>4, LogCall DEF Announce, StepInv, Under
  <2>4. BatchLogIsTrue'
    BY <1>4, LogCall DEF Announce, BatchLogIsTrue
  <2> QED
    BY <2>1, <2>2, <2>3, <2>4
<1>5. CASE SendSome
  <2>1. BatchTypes'
    BY <1>5 DEF SendSome, BatchTypes
  <2>2. FutureInv'
    BY <1>5, NoLogCall DEF SendSome, FutureInv
  <2>3. StepInv'
    BY <1>5, NoLogCall DEF SendSome, StepInv
  <2>4. BatchLogIsTrue'
    <3>1. \A t \in Tries : t # try => sentIn'[t] = sentIn[t]
      BY <1>5 DEF SendSome
    <3>2. logOn => HasRow(try, "run_start", "started") /\ HasRow(try, "batch_start", "started")
      BY <1>5 DEF SendSome, StepInv, Under
    <3>3. ~HasRow(try, "batch_end", "success")
      BY <1>5 DEF SendSome, StepInv, Under
    <3>4. step' # "done" /\ UNCHANGED <<try, logged, logOn>>
      BY <1>5 DEF SendSome
    <3> QED
      BY <3>1, <3>2, <3>3, <3>4, NoLogCall DEF BatchLogIsTrue
  <2> QED
    BY <2>1, <2>2, <2>3, <2>4
<1>6. CASE WriteReturns
  <2>1. BatchTypes'
    BY <1>6 DEF WriteReturns, BatchTypes
  <2>2. FutureInv'
    BY <1>6, NoLogCall DEF WriteReturns, BatchTypes, FutureInv
  <2>3. StepInv'
    BY <1>6, NoLogCall DEF WriteReturns, BatchTypes, StepInv, Under
  <2>4. BatchLogIsTrue'
    <3>1. \A t \in Tries : t # try => sentIn'[t] = sentIn[t]
      BY <1>6 DEF WriteReturns, BatchTypes
    <3>2. logOn => HasRow(try, "run_start", "started") /\ HasRow(try, "batch_start", "started")
      BY <1>6 DEF WriteReturns, StepInv, Under
    <3>3. ~HasRow(try, "batch_end", "success")
      BY <1>6 DEF WriteReturns, StepInv, Under
    <3>4. step' # "done" /\ UNCHANGED <<try, logged, logOn>>
      BY <1>6 DEF WriteReturns
    <3> QED
      BY <3>1, <3>2, <3>3, <3>4, NoLogCall DEF BatchLogIsTrue
  <2> QED
    BY <2>1, <2>2, <2>3, <2>4
<1>7. CASE WriteRaises
  <2>1. BatchTypes'
    BY <1>7 DEF WriteRaises, BatchTypes
  <2>2. FutureInv'
    BY <1>7, NoLogCall DEF WriteRaises, FutureInv
  <2>3. StepInv'
    BY <1>7, NoLogCall DEF WriteRaises, StepInv, Under
  <2>4. BatchLogIsTrue'
    BY <1>7, NoLogCall DEF WriteRaises, BatchLogIsTrue
  <2> QED
    BY <2>1, <2>2, <2>3, <2>4
<1>8. CASE Reconcile
  <2>1. BatchTypes'
    BY <1>8 DEF Reconcile, BatchTypes
  <2>2. FutureInv'
    BY <1>8, NoLogCall DEF Reconcile, FutureInv
  <2>3. StepInv'
    BY <1>8, NoLogCall DEF Reconcile, StepInv, Under
  <2>4. BatchLogIsTrue'
    BY <1>8, NoLogCall DEF Reconcile, BatchLogIsTrue
  <2> QED
    BY <2>1, <2>2, <2>3, <2>4
<1>9. CASE BatchError
  <2>1. BatchTypes'
    BY <1>9 DEF BatchError, BatchTypes
  <2>2. FutureInv'
    BY <1>9, LogCall DEF BatchError, FutureInv
  <2>3. StepInv'
    BY <1>9 DEF BatchError, StepInv, Under
  <2>4. BatchLogIsTrue'
    BY <1>9, LogCall DEF BatchError, StepInv, BatchLogIsTrue, Under
  <2> QED
    BY <2>1, <2>2, <2>3, <2>4
<1>10. CASE BatchSuccess
  <2>1. BatchTypes'
    BY <1>10 DEF BatchSuccess, BatchTypes
  <2>2. FutureInv'
    BY <1>10, LogCall DEF BatchSuccess, FutureInv
  <2>3. StepInv'
    BY <1>10, LogCall DEF BatchSuccess, StepInv, Under
  <2>4. BatchLogIsTrue'
    BY <1>10, LogCall DEF BatchSuccess, StepInv, BatchLogIsTrue, Under
  <2> QED
    BY <2>1, <2>2, <2>3, <2>4
<1>11. CASE EndRun
  <2>1. BatchTypes'
    BY <1>11 DEF EndRun, BatchTypes
  <2>2. FutureInv'
    BY <1>11, LogCall DEF EndRun, FutureInv
  <2>3. StepInv'
    BY <1>11, LogCall DEF EndRun, StepInv, Under
  <2>4. BatchLogIsTrue'
    BY <1>11, LogCall DEF EndRun, StepInv, BatchLogIsTrue, Under
  <2> QED
    BY <2>1, <2>2, <2>3, <2>4
<1>12. CASE GuardRun
  <2>1. BatchTypes'
    BY <1>12 DEF GuardRun, BatchTypes
  <2>2. FutureInv'
    BY <1>12, LogCall DEF GuardRun, FutureInv
  <2>3. StepInv'
    BY <1>12 DEF GuardRun, StepInv, Under
  <2>4. BatchLogIsTrue'
    BY <1>12, LogCall DEF GuardRun, BatchLogIsTrue
  <2> QED
    BY <2>1, <2>2, <2>3, <2>4
<1>13. CASE KillRun
  <2>1. BatchTypes'
    BY <1>13 DEF KillRun, BatchTypes
  <2>2. FutureInv'
    BY <1>13, NoLogCall DEF KillRun, FutureInv
  <2>3. StepInv'
    BY <1>13 DEF KillRun, StepInv, Under
  <2>4. BatchLogIsTrue'
    BY <1>13, NoLogCall DEF KillRun, BatchLogIsTrue
  <2> QED
    BY <2>1, <2>2, <2>3, <2>4
<1>14. CASE UNCHANGED batchVars
  BY <1>14, NoLogCall DEF batchVars, BatchTypes, FutureInv, StepInv, BatchLogIsTrue
<1> QED
  BY <1>1, <1>2, <1>3, <1>4, <1>5, <1>6, <1>7, <1>8, <1>9, <1>10, <1>11, <1>12, <1>13, <1>14 DEF BatchNext

-----------------------------------------------------------------------------
(* Every step of the composition is a step of one job and leaves the others *)
(* alone.                                                                   *)
LEMMA EachJobAlone ==
    [Next]_allVars => /\ [ViewsNext]_viewVars /\ [ClearNext]_clearVars /\ [WheelNext]_wheelVars
                      /\ [LogNext]_logVars /\ [BatchNext]_batchVars
<1> SUFFICES ASSUME [Next]_allVars
             PROVE  /\ [ViewsNext]_viewVars /\ [ClearNext]_clearVars /\ [WheelNext]_wheelVars
                    /\ [LogNext]_logVars /\ [BatchNext]_batchVars
  OBVIOUS
<1>1. CASE UNCHANGED allVars
  BY <1>1 DEF allVars
<1>2. CASE Next
  BY <1>2 DEF Next
<1> QED
  BY <1>1, <1>2

(* The composition starts where each of its jobs starts. *)
LEMMA EachJobStarts ==
    Init => ViewsInit /\ ClearInit /\ WheelInit /\ LogInit /\ BatchInit
BY DEF Init

-----------------------------------------------------------------------------
(* A per-user deploy never puts a view into a schema that is not its own   *)
(* or that a config names, whoever creates schemas in between and however  *)
(* suffixed names meet (ensure_per_user_schema, per_user_preflight_problem). *)
THEOREM ViewsKeepHome == Spec => []ViewsStayHome
<1>1. Init => CompleteInv
  BY EachJobStarts, CompleteInvInit
<1>2. CompleteInv /\ [Next]_allVars => CompleteInv'
  BY EachJobAlone, CompleteInvNext
<1>3. CompleteInv => ViewsStayHome
  BY CompleteInvShows
<1> QED
  BY <1>1, <1>2, <1>3, PTL DEF Spec

(* A deploy accounts for every view it was asked for, and a green one left *)
(* each in place as its sharers define it (the per-view loop of the        *)
(* deploy_views notebook).                                                 *)
THEOREM GreenDeployIsComplete == Spec => []ViewRunIsComplete
<1>1. Init => CompleteInv
  BY EachJobStarts, CompleteInvInit
<1>2. CompleteInv /\ [Next]_allVars => CompleteInv'
  BY EachJobAlone, CompleteInvNext
<1>3. CompleteInv => ViewRunIsComplete
  BY CompleteInvShows
<1> QED
  BY <1>1, <1>2, <1>3, PTL DEF Spec

(* Every number of concurrent clears reports what happened to the          *)
(* checkpoint (the probe, the removal and the recheck of checkpoint_clear). *)
THEOREM ClearsReportTruly == Spec => []ClearVerdictIsTrue
<1>1. Init => ClearInv
  BY EachJobStarts, ClearInvInit
<1>2. ClearInv /\ [Next]_allVars => ClearInv'
  BY EachJobAlone, ClearInvNext
<1>3. ClearInv => ClearVerdictIsTrue
  BY ClearInvShows
<1> QED
  BY <1>1, <1>2, <1>3, PTL DEF Spec

(* A published wheel is the whole one its build verified, over any number  *)
(* of builds, kills and short copies (build_wheel, the publish cell).      *)
THEOREM PublishedWheelsAreWhole == Spec => []PublishedWheelIsWhole
<1>1. Init => WheelInv
  BY EachJobStarts, WheelInvInit
<1>2. WheelInv /\ [Next]_allVars => WheelInv'
  BY EachJobAlone, WheelInvNext
<1>3. WheelInv => PublishedWheelIsWhole
  BY DEF WheelInv
<1> QED
  BY <1>1, <1>2, <1>3, PTL DEF Spec

(* The create job leaves the table of its build and no maintenance takes a *)
(* row that is not past the retention, for every sequence of builds and    *)
(* wherever the job stops (create_or_migrate, log_table_prune).            *)
THEOREM LogTableStaysSound == Spec => []LogTableIsSound
<1>1. Init => LogInv
  BY EachJobStarts, LogInvInit
<1>2. LogInv /\ [Next]_allVars => LogInv'
  BY EachJobAlone, LogInvNext
<1>3. LogInv => LogTableIsSound
  BY LogInvShows
<1> QED
  BY <1>1, <1>2, <1>3, PTL DEF Spec

(* No batch attempt sends rows that no batch_start announces, and none     *)
(* that did not send everything has a success row, for every number of     *)
(* attempts (run_batch_export and the run record around it).               *)
THEOREM BatchLogStaysTrue == Spec => []BatchLogIsTrue
<1>1. Init => BatchInv
  BY EachJobStarts, BatchInvInit
<1>2. BatchInv /\ [Next]_allVars => BatchInv'
  BY EachJobAlone, BatchInvNext
<1>3. BatchInv => BatchLogIsTrue
  BY DEF BatchInv
<1> QED
  BY <1>1, <1>2, <1>3, PTL DEF Spec
=============================================================================
