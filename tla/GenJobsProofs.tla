---------------------------- MODULE GenJobsProofs ----------------------------
(***************************************************************************)
(* What the generator keeps, for every set of configs, groups and bundles  *)
(* and every number of edits, killed passes, releases and runs: files it   *)
(* did not write are left alone (PassInv); a finished pass is clean and a  *)
(* verdict of --check is true of the repository it was given on            *)
(* (ProgressInv, VerdictInv); from these, that a release has every         *)
(* pipeline once, that its runs have the settings of the repository        *)
(* (RunInv), and that every job written is sound.                          *)
(***************************************************************************)
EXTENDS GenJobs, FiniteSetTheorems, TLAPS

(* The contents of a path that carry no marker of their own never equal a  *)
(* hand-authored file.                                                     *)
LEMMA KindsDiffer ==
    /\ Emptied # Hand /\ NoFile # Hand /\ Cut # Hand
    /\ \A job : Generated(job) # Hand
BY DEF Emptied, Hand, NoFile, Cut, Generated

(* What a pass plans to write or to remove is a path of the resources      *)
(* folder that holds no hand-authored file.                                *)
LEMMA PlansSpareHandFiles ==
    ASSUME ~Refuses
    PROVE  /\ Intended \cup Orphans \subseteq Paths
           /\ \A p \in Intended \cup Orphans : files[p] # Hand
<1>1. Intended \subseteq Paths
  BY DEF Intended, Paths, Stems, Singletons, LiveGroups, Live
<1>2. \A p \in Intended : files[p] # Hand
  <2>1. HandAuthored = {}
    BY DEF Refuses
  <2>2. Hand.kind = "hand"
    BY DEF Hand
  <2> QED
    BY <2>1, <2>2 DEF HandAuthored
<1>3. \A p \in Orphans : files[p] # Hand
  BY DEF Orphans, IsGenerated, Hand
<1> QED
  BY <1>1, <1>2, <1>3 DEF Orphans

(* No pass is under way at first. *)
LEMMA PassInvInit == Init => PassInv
BY KindsDiffer DEF Init, PassInv

(* Every step keeps PassInv. *)
LEMMA PassInvNext == PassInv /\ [Next]_vars => PassInv'
<1> SUFFICES ASSUME PassInv, [Next]_vars
             PROVE  PassInv'
  OBVIOUS
<1> USE DEF PassInv
<1>1. ASSUME NEW f \in ConfigFiles, EditConfig(f)
      PROVE  PassInv'
  BY <1>1 DEF EditConfig, Edit, pass
<1>2. ASSUME EditBundle
      PROVE  PassInv'
  BY <1>2 DEF EditBundle, Edit, pass
<1>3. ASSUME NEW p \in Paths, EditFile(p)
      PROVE  PassInv'
  BY <1>3 DEF EditFile, Edit, pass
<1>4. ASSUME NEW p \in Paths, OpenFile(p)
      PROVE  PassInv'
  <2>1. \A q : files'[q] = files[q] \/ files'[q] = Emptied \/ q \notin DOMAIN files
    BY <1>4 DEF OpenFile
  <2> QED
    BY <1>4, <2>1, KindsDiffer DEF OpenFile
<1>5. ASSUME NEW p \in Paths, WriteFile(p)
      PROVE  PassInv'
  BY <1>5, KindsDiffer DEF WriteFile
<1>6. ASSUME NEW p \in Paths, RemoveOrphan(p)
      PROVE  PassInv'
  BY <1>6, KindsDiffer DEF RemoveOrphan
<1>7. CASE PassRefuses
  BY <1>7 DEF PassRefuses, repo, pass
<1>8. CASE PassStarts
  BY <1>8, PlansSpareHandFiles DEF PassStarts, repo
<1>9. CASE PassEnds
  BY <1>9 DEF PassEnds, Idle, repo
<1>10. CASE Kill
  BY <1>10 DEF Kill, Idle
<1>11. CASE Check
  BY <1>11 DEF Check, repo, pass
<1>12. CASE Deploy
  BY <1>12 DEF Deploy, repo, pass
<1>13. ASSUME NEW p \in Paths, NEW s \in Stems, Run(p, s)
       PROVE  PassInv'
  BY <1>13 DEF Run, repo, pass
<1>14. CASE UNCHANGED vars
  BY <1>14 DEF vars, repo, pass
<1> QED
  BY <1>1, <1>2, <1>3, <1>4, <1>5, <1>6, <1>7, <1>8, <1>9, <1>10, <1>11, <1>12, <1>13, <1>14 DEF Next

(* A pass never holds a hand-authored file among what it has still to      *)
(* write or to remove (main, from the refusal up front to its last step).  *)
THEOREM PassInvariant == Spec => []PassInv
BY PassInvInit, PassInvNext, PTL DEF Spec

(* Only three steps of a pass touch a file, each of them one of its own.   *)
LEMMA StepSparesHandFiles ==
    ASSUME PassInv, [Next]_vars, phase # "idle",
           NEW q \in Paths, files[q] = Hand
    PROVE  files'[q] = Hand
<1> USE DEF PassInv
<1>1. ASSUME NEW p \in Paths, OpenFile(p)
      PROVE  files'[q] = Hand
  <2>1. p # q
    BY <1>1 DEF OpenFile
  <2> QED
    BY <1>1, <2>1 DEF OpenFile
<1>2. ASSUME NEW p \in Paths, WriteFile(p)
      PROVE  files'[q] = Hand
  <2>1. p # q
    BY <1>2 DEF WriteFile
  <2> QED
    BY <1>2, <2>1 DEF WriteFile
<1>3. ASSUME NEW p \in Paths, RemoveOrphan(p)
      PROVE  files'[q] = Hand
  <2>1. p # q
    BY <1>3 DEF RemoveOrphan
  <2> QED
    BY <1>3, <2>1 DEF RemoveOrphan
<1>4. CASE Kill
  <2>1. files' = files \/ \E p \in opened : files' = [files EXCEPT ![p] = Cut]
    BY <1>4 DEF Kill
  <2>2. ASSUME NEW p \in opened, files' = [files EXCEPT ![p] = Cut]
        PROVE  files'[q] = Hand
    <3>1. p # q
      OBVIOUS
    <3> QED
      BY <2>2, <3>1
  <2> QED
    BY <2>1, <2>2
<1>5. CASE PassEnds
  BY <1>5 DEF PassEnds, repo
<1>6. CASE UNCHANGED vars
  BY <1>6 DEF vars, repo
<1>7. ASSUME \/ \E f \in ConfigFiles : EditConfig(f)
             \/ EditBundle \/ PassRefuses \/ PassStarts \/ Check \/ Deploy
             \/ \E p \in Paths : EditFile(p)
             \/ \E p \in Paths, s \in Stems : Run(p, s)
      PROVE  FALSE
  BY <1>7 DEF EditConfig, EditBundle, EditFile, Edit, PassRefuses, PassStarts, Check, Deploy, Run
<1> QED
  BY <1>1, <1>2, <1>3, <1>4, <1>5, <1>6, <1>7 DEF Next

(* No pass changes or removes a job file somebody wrote by hand, however   *)
(* it is killed and whatever is asked of it.                               *)
THEOREM HandFilesAreKept == Spec => HandWrittenKept
<1>1. PassInv /\ [Next]_vars =>
        [phase # "idle" => \A p \in Paths : files[p] = Hand => files'[p] = Hand]_vars
  BY StepSparesHandFiles
<1> QED
  BY <1>1, PassInvariant, PTL DEF Spec, HandWrittenKept

-----------------------------------------------------------------------------
(* What a pass reads is accepted. *)
Accepted ==
    /\ BundleSound(bundle)
    /\ \A f \in Live : ConfigAccepted(f)
    /\ ~OutputsCollide
    /\ \A g \in LiveGroups : GroupSound(g)

(* What a pass has done so far: what is not left to write is written, what *)
(* is not left to remove is gone.                                          *)
ProgressInv ==
    /\ DOMAIN files = Paths
    /\ phase = "writing" =>
         /\ Accepted /\ plan = Rendered /\ todo \subseteq Intended
         /\ \A p \in Intended \ todo : files[p] = Generated(plan[p])
         /\ Orphans \subseteq orphans /\ orphans \cap Intended = {}

(* A verdict, and a release that went by it, holds until the next edit or  *)
(* pass.                                                                   *)
VerdictInv ==
    /\ last = "done" => phase = "idle" /\ (Live # {} => CheckIsGreen)
    /\ last = "green" => phase = "idle" /\ CheckIsGreen
    /\ deployed.vetted =>
         /\ phase = "idle" /\ CheckIsGreen
         /\ deployed.jobs = [p \in {q \in Paths : IsGenerated(q)} |-> files[p].job]
         /\ deployed.own => deployed.globals = bundle.globals

(* What is read and rendered depends on the configs and databricks.yml only. *)
LEMMA ReadsAreFixed ==
    ASSUME UNCHANGED <<configs, bundle>>
    PROVE  /\ Live' = Live /\ Intended' = Intended /\ Rendered' = Rendered
           /\ Accepted' = Accepted
<1>1. Live' = Live
  BY DEF Live
<1>2. Intended' = Intended
  BY DEF Intended, Singletons, Members, LiveGroups, Live, ConfigOf
<1>3. Rendered' = Rendered
  BY DEF Rendered, Singletons, Members, LiveGroups, Live, Job, Task, Trigger, Intervals, Crons, Pauses,
         Postfixes, Declared, ConfigOf
<1>4. Accepted' = Accepted
  BY DEF Accepted, OutputsCollide, Singletons, Members, LiveGroups, Live, ConfigOf, ConfigAccepted,
         GroupSound, BackoffPairSound, BackoffSide, ReferencesDeclared, Intervals, Crons, Pauses,
         Postfixes, Declared
<1> QED
  BY <1>1, <1>2, <1>3, <1>4

(* The files of an accepted repository with configs are up to date, and a  *)
(* second pass refuses nothing, when each job is written and no other is   *)
(* left.                                                                   *)
LEMMA GreenMeans ==
    CheckIsGreen <=> /\ Accepted /\ Live # {} /\ Orphans = {}
                     /\ \A p \in Intended : files[p] = Generated(Rendered[p])
<1>1. Stale = {} <=> \A p \in Intended : files[p] = Generated(Rendered[p])
  BY DEF Stale
<1>2. Stale = {} => HandAuthored = {}
  <2>1. \A job : Generated(job).kind = "generated"
    BY DEF Generated
  <2> QED
    BY <1>1, <2>1 DEF HandAuthored
<1> QED
  BY <1>1, <1>2 DEF CheckIsGreen, Refuses, Accepted

(* What --check answers depends on the repository alone. *)
LEMMA GreenIsFixed ==
    ASSUME UNCHANGED repo
    PROVE  CheckIsGreen' = CheckIsGreen
<1>1. Orphans' = Orphans /\ HandAuthored' = HandAuthored /\ Stale' = Stale /\ Live' = Live
  BY ReadsAreFixed DEF Orphans, HandAuthored, Stale, IsGenerated, repo
<1>2. Refuses' = Refuses
  BY <1>1 DEF Refuses, OutputsCollide, Singletons, Members, LiveGroups, Live, ConfigOf, ConfigAccepted,
              GroupSound, BackoffPairSound, BackoffSide, ReferencesDeclared, Intervals, Crons, Pauses,
              Postfixes, Declared, repo
<1> QED
  BY <1>1, <1>2 DEF CheckIsGreen

(* At first no pass is under way and nothing is deployed. *)
LEMMA InitVerdicts == Init => ProgressInv /\ VerdictInv
BY DEF Init, ProgressInv, VerdictInv, NoDeploy

(* Every step keeps ProgressInv: a pass under way still has to do exactly   *)
(* what it has not done.                                                    *)
LEMMA StepKeepsProgress ==
    ASSUME PassInv, ProgressInv, [Next]_vars
    PROVE  ProgressInv'
<1> USE DEF ProgressInv
<1>1. CASE UNCHANGED <<configs, bundle, files, phase, plan, todo, orphans>>
  BY <1>1, ReadsAreFixed DEF Orphans, IsGenerated
<1>2. CASE PassRefuses \/ Check \/ Deploy \/ (\E p \in Paths, s \in Stems : Run(p, s)) \/ UNCHANGED vars
  BY <1>1, <1>2 DEF PassRefuses, Check, Deploy, Run, vars, repo, pass
<1>3. CASE phase' = "idle" /\ (files' = files \/ \E p, what : files' = [files EXCEPT ![p] = what])
  BY <1>3
<1>4. CASE \/ \E f \in ConfigFiles : EditConfig(f)
           \/ EditBundle \/ PassEnds \/ Kill
           \/ \E p \in Paths : EditFile(p)
  BY <1>3, <1>4 DEF EditConfig, EditBundle, EditFile, Edit, PassEnds, Kill, Idle, repo, pass
<1>5. CASE PassStarts
  <2>1. UNCHANGED <<configs, bundle, files>> /\ plan' = Rendered /\ todo' = Intended /\ orphans' = Orphans
    BY <1>5 DEF PassStarts, repo
  <2>2. Accepted /\ Orphans' = Orphans
    BY <1>5, <2>1, ReadsAreFixed DEF PassStarts, Refuses, Accepted, Orphans, IsGenerated
  <2>3. Orphans \cap Intended = {}
    BY DEF Orphans
  <2> QED
    BY <2>1, <2>2, <2>3, ReadsAreFixed
<1>6. ASSUME NEW p \in Paths, OpenFile(p)
      PROVE  ProgressInv'
  <2>1. /\ files' = [files EXCEPT ![p] = Emptied] /\ p \in todo
        /\ UNCHANGED <<configs, bundle, phase, plan, todo, orphans>> /\ phase = "writing"
    BY <1>6 DEF OpenFile
  <2>2. Orphans' \subseteq Orphans
    BY <2>1, ReadsAreFixed DEF Orphans, IsGenerated, Emptied
  <2> QED
    BY <2>1, <2>2, ReadsAreFixed
<1>7. ASSUME NEW p \in Paths, WriteFile(p)
      PROVE  ProgressInv'
  <2>1. /\ files' = [files EXCEPT ![p] = Generated(plan[p])] /\ p \in todo /\ todo' = todo \ {p}
        /\ UNCHANGED <<configs, bundle, phase, plan, orphans>> /\ phase = "writing"
    BY <1>7 DEF WriteFile, PassInv
  <2>2. Orphans' \subseteq Orphans
    BY <2>1, ReadsAreFixed DEF Orphans, IsGenerated
  <2> QED
    BY <2>1, <2>2, ReadsAreFixed
<1>8. ASSUME NEW p \in Paths, RemoveOrphan(p)
      PROVE  ProgressInv'
  <2>1. /\ files' = [files EXCEPT ![p] = NoFile] /\ p \in orphans /\ orphans' = orphans \ {p}
        /\ UNCHANGED <<configs, bundle, phase, plan, todo>> /\ phase = "writing"
    BY <1>8 DEF RemoveOrphan
  <2>2. Orphans' \subseteq Orphans \ {p}
    BY <2>1, ReadsAreFixed DEF Orphans, IsGenerated, NoFile
  <2> QED
    BY <2>1, <2>2, ReadsAreFixed
<1> QED
  BY <1>2, <1>4, <1>5, <1>6, <1>7, <1>8 DEF Next

(* Every step keeps VerdictInv: a verdict is that of the repository it was  *)
(* made on.                                                                 *)
LEMMA StepKeepsVerdicts ==
    ASSUME PassInv, ProgressInv, VerdictInv, [Next]_vars
    PROVE  VerdictInv'
<1> USE DEF VerdictInv
<1>1. ~NoDeploy.vetted
  BY DEF NoDeploy
<1>2. CASE \/ \E f \in ConfigFiles : EditConfig(f)
           \/ EditBundle
           \/ \E p \in Paths : EditFile(p)
  BY <1>1, <1>2 DEF EditConfig, EditBundle, EditFile, Edit, Forget
<1>3. CASE PassRefuses \/ PassStarts
  BY <1>1, <1>3 DEF PassRefuses, PassStarts, Forget
<1>4. CASE Check
  <2>1. /\ UNCHANGED repo /\ phase = "idle" /\ phase' = "idle" /\ deployed' = NoDeploy
        /\ last' = IF CheckIsGreen THEN "green" ELSE "red"
    BY <1>4 DEF Check, Forget, pass
  <2> QED
    BY <1>1, <2>1, GreenIsFixed
<1>5. CASE PassEnds
  <2>1. /\ UNCHANGED repo /\ UNCHANGED deployed /\ phase = "writing" /\ phase' = "idle"
        /\ todo = {} /\ orphans = {} /\ last' = "done"
    BY <1>5 DEF PassEnds, Idle
  <2>2. Live # {} => CheckIsGreen
    BY <2>1, GreenMeans DEF ProgressInv
  <2> QED
    BY <2>1, <2>2, GreenIsFixed, ReadsAreFixed DEF repo
<1>6. CASE Kill \/ \E p \in Paths : OpenFile(p) \/ WriteFile(p) \/ RemoveOrphan(p)
  BY <1>6 DEF Kill, OpenFile, WriteFile, RemoveOrphan, PassInv
<1>7. CASE Deploy
  <2>1. UNCHANGED <<repo, phase, last>> /\ phase = "idle"
    BY <1>7 DEF Deploy, pass
  <2>2. /\ deployed'.vetted = (last = "green")
        /\ deployed'.jobs = [p \in {q \in Paths : IsGenerated(q)} |-> files[p].job]
        /\ deployed'.own => deployed'.globals = bundle.globals
    <3>1. PICK globals \in GlobalChoices \cup {bundle.globals}, w \in Wheels :
            deployed' = [jobs |-> [p \in {q \in Paths : IsGenerated(q)} |-> files[p].job],
                         vetted |-> last = "green", own |-> globals = bundle.globals,
                         globals |-> globals, wheel |-> w]
      BY <1>7 DEF Deploy
    <3>2. deployed'.own = (globals = bundle.globals) /\ deployed'.globals = globals
      BY <3>1
    <3>3. /\ deployed'.vetted = (last = "green")
          /\ deployed'.jobs = [p \in {q \in Paths : IsGenerated(q)} |-> files[p].job]
      BY <3>1
    <3> QED
      BY <3>2, <3>3
  <2> QED
    BY <2>1, <2>2, GreenIsFixed, ReadsAreFixed DEF repo, IsGenerated
<1>8. CASE (\E p \in Paths, s \in Stems : Run(p, s)) \/ UNCHANGED vars
  <2>1. UNCHANGED <<repo, phase, last, deployed>>
    BY <1>8 DEF Run, vars, pass
  <2> QED
    BY <2>1, GreenIsFixed, ReadsAreFixed DEF repo, IsGenerated
<1> QED
  BY <1>2, <1>3, <1>4, <1>5, <1>6, <1>7, <1>8 DEF Next

(* Every verdict that stands is true of the repository as it is, however   *)
(* many passes were killed before.                                         *)
THEOREM VerdictInvariant == Spec => [](ProgressInv /\ VerdictInv)
<1>1. PassInv /\ ProgressInv /\ VerdictInv /\ [Next]_vars => ProgressInv' /\ VerdictInv'
  BY StepKeepsProgress, StepKeepsVerdicts
<1> QED
  BY <1>1, InitVerdicts, PassInvariant, PTL DEF Spec

(* One pass that ran to its end is enough: --check is green after it.      *)
THEOREM OnePassIsEnough == Spec => []FinishedPassIsClean
<1>1. VerdictInv => FinishedPassIsClean
  BY DEF VerdictInv, FinishedPassIsClean
<1> QED
  BY <1>1, VerdictInvariant, PTL

-----------------------------------------------------------------------------
(* A file holds a config or none, one it may hold, and so does             *)
(* databricks.yml.                                                         *)
ConfigsInv ==
    /\ DOMAIN configs = ConfigFiles /\ \A f \in ConfigFiles : configs[f] \in ConfigChoices[f]
    /\ bundle \in Bundles

(* The configs and the bundle are always among those a developer may write. *)
LEMMA ConfigsInvariant == Spec => []ConfigsInv
<1>1. Init => ConfigsInv
  BY DEF Init, ConfigsInv
<1>2. ConfigsInv /\ [Next]_vars => ConfigsInv'
  <2> SUFFICES ASSUME ConfigsInv, [Next]_vars
               PROVE  ConfigsInv'
    OBVIOUS
  <2>1. /\ \/ UNCHANGED configs
           \/ \E f \in ConfigFiles : \E c \in ConfigChoices[f] : configs' = [configs EXCEPT ![f] = c]
        /\ UNCHANGED bundle \/ bundle' \in Bundles
    BY DEF Next, EditConfig, EditBundle, EditFile, OpenFile, WriteFile, RemoveOrphan, PassRefuses, PassStarts,
           PassEnds, Kill, Check, Deploy, Run, vars, repo
  <2> QED
    BY <2>1 DEF ConfigsInv
<1> QED
  BY <1>1, <1>2, PTL DEF Spec

(* A config is one of those its file may hold; it has a job of its own, or *)
(* is a task of one group's.                                               *)
LEMMA ConfigShape ==
    ASSUME ConfigsInv, NEW f \in Live
    PROVE  /\ \E C \in ConfigChoices[f] : ConfigOf(f) \in C
           /\ f \in Singletons \/ \E g \in LiveGroups : f \in Members(g)
<1>1. ConfigOf(f) \in configs[f] /\ configs[f] \in ConfigChoices[f] /\ f \in ConfigFiles
  BY DEF ConfigOf, Live, ConfigsInv
<1>2. ConfigOf(f).group \subseteq Groups /\ AtMostOne(ConfigOf(f).group)
  BY <1>1, GenJobsAssumption DEF OptionalFields
<1>3. ASSUME NEW g \in ConfigOf(f).group
      PROVE  g \in LiveGroups /\ f \in Members(g)
  <2>1. ConfigOf(f).group = {g} /\ g \in Groups
    BY <1>2 DEF AtMostOne
  <2> QED
    BY <2>1 DEF Members, LiveGroups
<1> QED
  BY <1>1, <1>3 DEF Singletons

(* Two files of one stem are never both accepted. *)
LEMMA StemsDiffer ==
    ASSUME Accepted, NEW f \in Live, NEW h \in Live, Stem[f] = Stem[h]
    PROVE  f = h
BY DEF Accepted, ConfigAccepted

(* What is rendered for a config's own job, and for a group's. *)
LEMMA RenderedJobs ==
    ASSUME Accepted
    PROVE  /\ \A f \in Singletons : Rendered[StemPath[Stem[f]]] = Job({f}, FALSE)
           /\ \A g \in LiveGroups : Rendered[GroupPath[g]] = Job(Members(g), TRUE)
<1>1. \A f \in Singletons : Stem[f] \in Stems /\ f \in Live
  BY DEF Singletons, Stems, Live
<1>2. ASSUME NEW f \in Singletons
      PROVE  Rendered[StemPath[Stem[f]]] = Job({f}, FALSE)
  <2>1. \A h \in Singletons : StemPath[Stem[h]] = StemPath[Stem[f]] <=> h = f
    BY <1>1, StemsDiffer, GenJobsAssumption
  <2>2. (CHOOSE h \in Singletons : StemPath[Stem[h]] = StemPath[Stem[f]]) = f
    BY <2>1
  <2> QED
    BY <2>2 DEF Rendered
<1>3. ASSUME NEW g \in LiveGroups
      PROVE  Rendered[GroupPath[g]] = Job(Members(g), TRUE)
  <2>1. \A h \in LiveGroups : GroupPath[h] = GroupPath[g] <=> h = g
    BY GenJobsAssumption DEF LiveGroups
  <2>2. (CHOOSE h \in LiveGroups : GroupPath[h] = GroupPath[g]) = g
    BY <2>1
  <2>3. ~\E f \in Singletons : StemPath[Stem[f]] = GroupPath[g]
    BY DEF Accepted, OutputsCollide
  <2> QED
    BY <2>2, <2>3 DEF Rendered
<1> QED
  BY <1>2, <1>3

(* Every rendered job is that of one config or of one group. *)
LEMMA TasksAreConfigs ==
    ASSUME Accepted, NEW q \in Intended
    PROVE  \E fs \in SUBSET Live : \E grouped \in BOOLEAN :
             /\ Rendered[q] = Job(fs, grouped) /\ fs # {}
             /\ \/ \E f \in Singletons : fs = {f} /\ q = StemPath[Stem[f]]
                \/ \E g \in LiveGroups : fs = Members(g) /\ q = GroupPath[g]
<1>1. CASE \E f \in Singletons : q = StemPath[Stem[f]]
  BY <1>1, RenderedJobs DEF Singletons
<1>2. CASE \E g \in LiveGroups : q = GroupPath[g]
  BY <1>2, RenderedJobs DEF Members, LiveGroups
<1> QED
  BY <1>1, <1>2 DEF Intended

(* A job has one task for each config it is made of, named by its stem. *)
LEMMA JobTasks ==
    ASSUME NEW fs, NEW grouped
    PROVE  DOMAIN Job(fs, grouped).tasks = {Stem[f] : f \in fs}
BY DEF Job

(* Each config is a task of exactly one rendered job. *)
LEMMA OneJobEach ==
    ASSUME ConfigsInv, Accepted, NEW f \in Live
    PROVE  \E p \in Intended : \A q \in Intended : Stem[f] \in DOMAIN Rendered[q].tasks <=> q = p
<1>1. ASSUME NEW q \in Intended, NEW fs \in SUBSET Live, NEW grouped, Rendered[q] = Job(fs, grouped)
      PROVE  Stem[f] \in DOMAIN Rendered[q].tasks <=> f \in fs
  <2>1. DOMAIN Rendered[q].tasks = {Stem[h] : h \in fs}
    BY <1>1, JobTasks
  <2> QED
    BY <2>1, StemsDiffer
<1>2. CASE f \in Singletons
  <2>1. \A g : f \notin Members(g)
    BY <1>2 DEF Singletons, Members
  <2>2. ASSUME NEW q \in Intended, Stem[f] \in DOMAIN Rendered[q].tasks
        PROVE  q = StemPath[Stem[f]]
    <3>1. PICK fs \in SUBSET Live, grouped \in BOOLEAN :
            /\ Rendered[q] = Job(fs, grouped)
            /\ \/ \E h \in Singletons : fs = {h} /\ q = StemPath[Stem[h]]
               \/ \E h \in LiveGroups : fs = Members(h) /\ q = GroupPath[h]
      BY TasksAreConfigs
    <3>2. f \in fs
      BY <1>1, <2>2, <3>1
    <3> QED
      BY <2>1, <3>1, <3>2
  <2>3. StemPath[Stem[f]] \in Intended /\ Rendered[StemPath[Stem[f]]] = Job({f}, FALSE)
    BY <1>2, RenderedJobs DEF Intended
  <2>4. Stem[f] \in DOMAIN Rendered[StemPath[Stem[f]]].tasks
    BY <1>1, <2>3
  <2> QED
    BY <2>2, <2>3, <2>4
<1>3. ASSUME NEW g \in LiveGroups, f \in Members(g)
      PROVE  \E p \in Intended : \A q \in Intended : Stem[f] \in DOMAIN Rendered[q].tasks <=> q = p
  <2>1. f \notin Singletons /\ \A h : f \in Members(h) => h = g
    BY <1>3 DEF Singletons, Members
  <2>2. ASSUME NEW q \in Intended, Stem[f] \in DOMAIN Rendered[q].tasks
        PROVE  q = GroupPath[g]
    <3>1. PICK fs \in SUBSET Live, grouped \in BOOLEAN :
            /\ Rendered[q] = Job(fs, grouped)
            /\ \/ \E h \in Singletons : fs = {h} /\ q = StemPath[Stem[h]]
               \/ \E h \in LiveGroups : fs = Members(h) /\ q = GroupPath[h]
      BY TasksAreConfigs
    <3>2. f \in fs
      BY <1>1, <2>2, <3>1
    <3> QED
      BY <2>1, <3>1, <3>2
  <2>3. GroupPath[g] \in Intended /\ Rendered[GroupPath[g]] = Job(Members(g), TRUE)
    BY RenderedJobs DEF Intended
  <2>4. Stem[f] \in DOMAIN Rendered[GroupPath[g]].tasks
    BY <1>1, <1>3, <2>3 DEF Members
  <2> QED
    BY <2>2, <2>3, <2>4
<1> QED
  BY <1>2, <1>3, ConfigShape

(* A release that went by a green check: the rendered jobs. *)
LEMMA VettedJobs ==
    ASSUME ProgressInv, VerdictInv, deployed.vetted
    PROVE  Accepted /\ DOMAIN deployed.jobs = Intended /\ \A p \in Intended : deployed.jobs[p] = Rendered[p]
<1>1. Accepted /\ Orphans = {} /\ \A p \in Intended : files[p] = Generated(Rendered[p])
  BY GreenMeans DEF VerdictInv
<1>2. Intended \subseteq Paths
  BY DEF Intended, Paths, Stems, Singletons, LiveGroups, Live
<1>3. \A job : Generated(job).kind = "generated" /\ Generated(job).job = job
  BY DEF Generated
<1>4. {q \in Paths : IsGenerated(q)} = Intended
  BY <1>1, <1>2, <1>3 DEF Orphans, IsGenerated
<1>5. deployed.jobs = [p \in Intended |-> files[p].job]
  BY <1>4 DEF VerdictInv
<1> QED
  BY <1>1, <1>3, <1>5

(* A vetted release has each live config as a task of exactly one job, and *)
(* no other task, whatever killed passes left in the resources folder.     *)
THEOREM VettedReleasesAreWhole == Spec => []VettedReleaseIsWhole
<1>1. ConfigsInv /\ ProgressInv /\ VerdictInv => VettedReleaseIsWhole
  <2> SUFFICES ASSUME ConfigsInv, ProgressInv, VerdictInv, deployed.vetted
               PROVE  /\ \A f \in Live : Cardinality(TasksFor(Stem[f])) = 1
                      /\ UNION {DOMAIN deployed.jobs[p].tasks : p \in DOMAIN deployed.jobs}
                           = {Stem[f] : f \in Live}
    BY DEF VettedReleaseIsWhole
  <2>1. /\ Accepted /\ DOMAIN deployed.jobs = Intended
        /\ \A p \in Intended : deployed.jobs[p] = Rendered[p]
    BY VettedJobs
  <2>2. ASSUME NEW f \in Live
        PROVE  /\ Cardinality(TasksFor(Stem[f])) = 1
               /\ \E p \in Intended : Stem[f] \in DOMAIN Rendered[p].tasks
    <3>1. PICK p \in Intended : \A q \in Intended : Stem[f] \in DOMAIN Rendered[q].tasks <=> q = p
      BY <2>1, OneJobEach
    <3>2. TasksFor(Stem[f]) = {p}
      BY <2>1, <3>1 DEF TasksFor
    <3> QED
      BY <3>1, <3>2, FS_Singleton
  <2>3. \A p \in Intended : DOMAIN Rendered[p].tasks \subseteq {Stem[f] : f \in Live}
    <3> SUFFICES ASSUME NEW p \in Intended
                 PROVE  DOMAIN Rendered[p].tasks \subseteq {Stem[f] : f \in Live}
      OBVIOUS
    <3>1. PICK fs \in SUBSET Live, grouped \in BOOLEAN : Rendered[p] = Job(fs, grouped)
      BY <2>1, TasksAreConfigs
    <3> QED
      BY <3>1, JobTasks
  <2> QED
    BY <2>1, <2>2, <2>3
<1> QED
  BY <1>1, ConfigsInvariant, VerdictInvariant, PTL

-----------------------------------------------------------------------------
(* A value that is canonical stays what it is when it is read again: a     *)
(* config's value is read by the generator and once more by the run.       *)
LEMMA RulesAreTame ==
    ASSUME NEW k \in Knobs
    PROVE  Validator[k].empty = {} \/ (Validator[k].unset = {} /\ \E n : Validator[k].empty = {Whole(n)})
<1> USE DEF Rule
<1>1. /\ require_pipeline_mode.empty = {} /\ require_streaming_start.empty = {}
      /\ require_filter_condition.empty = {} /\ require_chunk_size.empty = {}
      /\ require_max_retries_per_request.empty = {} /\ require_retry_backoff_seconds.empty = {}
      /\ require_es_flag.empty = {} /\ require_op_type.empty = {}
      /\ require_max_files_per_trigger.empty = {} /\ require_max_bytes_per_trigger.empty = {}
  BY DEF require_pipeline_mode, require_streaming_start, require_filter_condition, require_chunk_size,
         require_max_retries_per_request, require_retry_backoff_seconds, require_es_flag, require_op_type,
         require_max_files_per_trigger, require_max_bytes_per_trigger
<1>2. /\ require_write_repartition.empty = {Whole(0)} /\ require_write_repartition.unset = {}
      /\ require_max_partition_bytes.empty = {Whole(2097152)} /\ require_max_partition_bytes.unset = {}
      /\ require_lookback_seconds.empty = {Whole(60)} /\ require_lookback_seconds.unset = {}
      /\ require_history_rows.empty = {Whole(100)} /\ require_history_rows.unset = {}
  BY DEF require_write_repartition, require_max_partition_bytes, require_lookback_seconds, require_history_rows
<1>3. Validator[k] \in
        {require_pipeline_mode, require_streaming_start, require_filter_condition, require_chunk_size,
         require_max_retries_per_request, require_retry_backoff_seconds, require_es_flag, require_op_type,
         require_max_files_per_trigger, require_max_bytes_per_trigger, require_write_repartition,
         require_max_partition_bytes, require_lookback_seconds, require_history_rows}
  BY DEF Knobs, Validator
<1> QED
  BY <1>1, <1>2, <1>3

(* What a rule makes of a value that it accepts, it accepts and leaves as   *)
(* it is: a value resolved by the generator means the same to the run.      *)
LEMMA CanonicalStays ==
    ASSUME NEW k \in Knobs, NEW v, Canonical(Validator[k], v) # {}
    PROVE  \E w : /\ Canonical(Validator[k], v) = {w}
                  /\ Canonical(Validator[k], w) = {w}
<1>1. CASE v.kind = "blank"
  <2>1. Canonical(Validator[k], v) = Validator[k].empty
    BY <1>1 DEF Canonical
  <2>2. PICK n : Validator[k].unset = {} /\ Validator[k].empty = {Whole(n)}
    BY <2>1, RulesAreTame
  <2>3. Whole(n).kind # "blank"
    BY DEF Whole
  <2> QED
    BY <2>1, <2>2, <2>3 DEF Canonical
<1>2. CASE v.kind # "blank"
  BY <1>2 DEF Canonical
<1> QED
  BY <1>1, <1>2

(* The values of a task are its config's. *)
LEMMA TaskOfConfig ==
    ASSUME Accepted, NEW p \in Intended, NEW s \in DOMAIN Rendered[p].tasks
    PROVE  \E f \in Live : Stem[f] = s /\ Rendered[p].tasks[s].knobs = Baked(ConfigOf(f))
<1>1. PICK fs \in SUBSET Live, grouped \in BOOLEAN : Rendered[p] = Job(fs, grouped)
  BY TasksAreConfigs
<1>2. s \in {Stem[f] : f \in fs}
  BY <1>1, JobTasks
<1> DEFINE f == CHOOSE h \in fs : Stem[h] = s
<1>3. f \in fs /\ Stem[f] = s
  BY <1>2
<1>4. Rendered[p].tasks[s] = Task(f, fs)
  BY <1>1, <1>2 DEF Job
<1>5. Task(f, fs).knobs = Baked(ConfigOf(f))
  BY DEF Task
<1> QED
  BY <1>3, <1>4, <1>5

(* The latest run, while its release is vetted: of a live config's task,   *)
(* with what the parameter cells make of it.                               *)
RunInv ==
    run # NoRun /\ deployed.vetted =>
        /\ \E f \in Live : Stem[f] = run.stem /\ run.task.knobs = Baked(ConfigOf(f))
        /\ run.result = Result(run.stem, run.task, run.params)
        /\ run.chosen = [k \in Knobs |-> Chosen(k, run.task, run.params)]

(* A run's outcome is that of the release it began on. *)
LEMMA StepKeepsRun ==
    ASSUME ProgressInv, VerdictInv, PassInv, RunInv, [Next]_vars
    PROVE  RunInv'
<1>1. ~NoDeploy.vetted
  BY DEF NoDeploy
<1>2. CASE run' = NoRun \/ deployed' = NoDeploy
  BY <1>1, <1>2 DEF RunInv
<1>3. CASE phase = "writing" /\ UNCHANGED deployed
  BY <1>3 DEF RunInv, VerdictInv
<1>4. ASSUME UNCHANGED <<configs, deployed>>
      PROVE  /\ Live' = Live /\ \A f : Baked(ConfigOf(f))' = Baked(ConfigOf(f))
             /\ \A s, task, params : Result(s, task, params)' = Result(s, task, params)
             /\ \A k, task, params : Chosen(k, task, params)' = Chosen(k, task, params)
  <2>1. Live' = Live /\ \A f : ConfigOf(f)' = ConfigOf(f)
    BY <1>4 DEF Live, ConfigOf
  <2>2. \A k, task, params : Chosen(k, task, params)' = Chosen(k, task, params)
    BY <1>4 DEF Chosen, Setting, Widget
  <2>3. \A s, task, params : Result(s, task, params)' = Result(s, task, params)
    BY <1>4 DEF Result, WheelRefused, ValueRefused, ModeRefused, ConfigRefused, OpTypeRefused, PairRefused,
             HasId, ConfigFound, Applied, Chosen, Setting, Widget, Live, ConfigOf
  <2> QED
    BY <2>1, <2>2, <2>3
<1>5. ASSUME NEW p \in Paths, NEW s \in Stems, Run(p, s)
      PROVE  RunInv'
  <2>1. UNCHANGED <<configs, deployed>> /\ p \in DOMAIN deployed.jobs /\ s \in DOMAIN deployed.jobs[p].tasks
    BY <1>5 DEF Run, repo
  <2> DEFINE task == deployed.jobs[p].tasks[s]
  <2>2. PICK params : run' = [result |-> Result(s, task, params), stem |-> s, params |-> params,
                              task |-> task, chosen |-> [k \in Knobs |-> Chosen(k, task, params)]]
    BY <1>5 DEF Run
  <2>3. /\ run'.stem = s /\ run'.task = task /\ run'.params = params
        /\ run'.result = Result(s, task, params) /\ run'.chosen = [k \in Knobs |-> Chosen(k, task, params)]
    BY <2>2
  <2>4. deployed.vetted => \E f \in Live : Stem[f] = s /\ task.knobs = Baked(ConfigOf(f))
    BY <2>1, TaskOfConfig, VettedJobs
  <2> HIDE DEF task
  <2> QED
    BY <1>4, <2>1, <2>3, <2>4 DEF RunInv
<1>6. CASE UNCHANGED vars
  BY <1>4, <1>6 DEF vars, repo, RunInv
<1>7. CASE \/ PassRefuses \/ PassStarts \/ Check \/ EditBundle \/ Deploy
           \/ \E f \in ConfigFiles : EditConfig(f)
           \/ \E p \in Paths : EditFile(p)
  BY <1>2, <1>7 DEF PassRefuses, PassStarts, Check, EditBundle, EditConfig, EditFile, Edit, Forget, Deploy
<1>8. CASE PassEnds \/ Kill \/ \E p \in Paths : OpenFile(p) \/ WriteFile(p) \/ RemoveOrphan(p)
  BY <1>3, <1>8 DEF PassEnds, Kill, OpenFile, WriteFile, RemoveOrphan, PassInv
<1> QED
  BY <1>5, <1>6, <1>7, <1>8 DEF Next

(* What a run uses for a knob: --params, else its config, else the target. *)
LEMMA ChosenIsLayered ==
    ASSUME Accepted, NEW f \in Live, Stem[f] = run.stem, run.task.knobs = Baked(ConfigOf(f)),
           NEW k \in Knobs
    PROVE  /\ k # "streaming_start" =>
                Chosen(k, run.task, run.params) = UNION {Canonical(Validator[k], v) : v \in Layered(k)}
           /\ k # "streaming_start" /\ run.params = <<>> =>
                Chosen(k, run.task, run.params)
                  = OrElse(FromConfig(ConfigOf(f), k), Canonical(Validator[k], deployed.globals[k]))
<1> DEFINE c == ConfigOf(f)
           own == IF k \in DOMAIN c.knobs THEN {c.knobs[k]} ELSE {}
<1>1. {x \in Live : Stem[x] = run.stem} = {f}
  BY StemsDiffer
<1>2. Layered(k) = IF k \in DOMAIN run.params THEN {run.params[k]}
                   ELSE IF \E v \in own : Canonical(Validator[k], v) # {} THEN own
                   ELSE {deployed.globals[k]}
  BY <1>1 DEF Layered
<1>3. SUFFICES ASSUME k # "streaming_start"
               PROVE  /\ Chosen(k, run.task, run.params) = UNION {Canonical(Validator[k], v) : v \in Layered(k)}
                      /\ run.params = <<>> =>
                           Chosen(k, run.task, run.params)
                             = OrElse(FromConfig(c, k), Canonical(Validator[k], deployed.globals[k]))
  OBVIOUS
<1>4. Chosen(k, run.task, run.params) = Canonical(Validator[k], Widget(k, run.task, run.params))
  BY <1>3 DEF Chosen, Setting
<1>5. k \in DOMAIN run.task.knobs <=> FromConfig(c, k) # {}
  BY DEF Baked, FromConfig
<1>6. CASE k \in DOMAIN run.params
  <2>1. run.params # <<>>
    BY <1>6
  <2> QED
    BY <1>2, <1>4, <1>6, <2>1 DEF Widget
<1>7. CASE k \notin DOMAIN run.params /\ FromConfig(c, k) # {}
  <2>1. k \in DOMAIN c.knobs /\ own = {c.knobs[k]} /\ FromConfig(c, k) = Canonical(Validator[k], c.knobs[k])
    BY <1>7 DEF FromConfig
  <2>2. PICK w : FromConfig(c, k) = {w} /\ Canonical(Validator[k], w) = {w}
    <3>1. Canonical(Validator[k], c.knobs[k]) # {}
      BY <1>7, <2>1
    <3>2. \E w : Canonical(Validator[k], c.knobs[k]) = {w} /\ Canonical(Validator[k], w) = {w}
      BY <3>1, CanonicalStays
    <3> QED
      BY <2>1, <3>2
  <2>3. run.task.knobs[k] = {w}
    BY <1>5, <1>7, <2>2 DEF Baked
  <2>4. Widget(k, run.task, run.params) = w
    BY <1>5, <1>7, <2>3 DEF Widget
  <2>5. Layered(k) = {c.knobs[k]}
    BY <1>2, <1>7, <2>1
  <2> QED
    BY <1>4, <2>1, <2>2, <2>4, <2>5 DEF OrElse
<1>8. CASE k \notin DOMAIN run.params /\ FromConfig(c, k) = {}
  <2>1. Widget(k, run.task, run.params) = deployed.globals[k]
    BY <1>5, <1>8 DEF Widget
  <2>2. Layered(k) = {deployed.globals[k]}
    BY <1>2, <1>8 DEF FromConfig
  <2> QED
    BY <1>4, <1>8, <2>1, <2>2 DEF OrElse
<1> QED
  BY <1>6, <1>7, <1>8

(* The pair of backoffs a run applies under the globals of databricks.yml  *)
(* is the pair the generator checked.                                      *)
LEMMA PairIsChecked ==
    ASSUME Accepted, NEW f \in Live, Stem[f] = run.stem, run.task.knobs = Baked(ConfigOf(f)),
           run.params = <<>>, deployed.globals = bundle.globals, ~WheelRefused
    PROVE  ~PairRefused(run.task, run.params)
<1>1. deployed.wheel.defaults = CONNECTOR_RETRY_BACKOFF_DEFAULTS
  BY DEF WheelRefused, DriftedWheel
<1>2. "retry_backoff_initial" \in Knobs /\ "retry_backoff_max" \in Knobs
  BY DEF Knobs, Validator
<1>3. ASSUME NEW side \in {"retry_backoff_initial", "retry_backoff_max"}
      PROVE  Applied(side, run.task, run.params) = BackoffSide(ConfigOf(f), bundle, side)
  BY <1>1, <1>2, ChosenIsLayered DEF Applied, BackoffSide, Shared
<1>4. BackoffPairSound(ConfigOf(f), bundle)
  BY DEF Accepted, ConfigAccepted
<1> QED
  BY <1>3, <1>4 DEF PairRefused, BackoffPairSound

(* A run of a vetted release uses what the repository says, 0 and false    *)
(* included; under an always-on trigger it exports only as a stream, and   *)
(* it is never refused over a pair of backoffs that the generator checked. *)
THEOREM VettedRunsFollowTheRepository == Spec => []RunsFollowTheRepository
<1>1. Init => RunInv
  BY DEF Init, RunInv
<1>2. PassInv /\ ProgressInv /\ VerdictInv /\ RunInv /\ [Next]_vars => RunInv'
  BY StepKeepsRun
<1>3. ProgressInv /\ VerdictInv /\ RunInv => RunsFollowTheRepository
  <2> SUFFICES ASSUME ProgressInv, VerdictInv, RunInv, run # NoRun, deployed.vetted
               PROVE  /\ run.result = "exported" =>
                           /\ run.task.interval # {} => run.chosen["pipeline_mode"] = {Streaming}
                           /\ \A k \in Knobs \ {"streaming_start"} :
                                run.chosen[k] = UNION {Canonical(Validator[k], v) : v \in Layered(k)}
                      /\ deployed.own /\ run.params = <<>> => run.result # "pair refused"
    BY DEF RunsFollowTheRepository
  <2>1. PICK f \in Live : Stem[f] = run.stem /\ run.task.knobs = Baked(ConfigOf(f))
    BY DEF RunInv
  <2>2. Accepted /\ (deployed.own => deployed.globals = bundle.globals)
    BY VettedJobs DEF VerdictInv
  <2>3. \A k \in Knobs : run.chosen[k] = Chosen(k, run.task, run.params)
    BY DEF RunInv
  <2>4. run.result = Result(run.stem, run.task, run.params)
    BY DEF RunInv
  <2>5. run.result = "exported" /\ run.task.interval # {} => run.chosen["pipeline_mode"] = {Streaming}
    <3>1. "pipeline_mode" \in Knobs
      BY DEF Knobs, Validator
    <3> QED
      BY <2>3, <2>4, <3>1 DEF Result, ModeRefused
  <2>6. \A k \in Knobs \ {"streaming_start"} :
          run.chosen[k] = UNION {Canonical(Validator[k], v) : v \in Layered(k)}
    BY <2>1, <2>2, <2>3, ChosenIsLayered
  <2>7. deployed.own /\ run.params = <<>> => run.result # "pair refused"
    BY <2>1, <2>2, <2>4, PairIsChecked DEF Result
  <2> QED
    BY <2>5, <2>6, <2>7
<1> QED
  BY <1>1, <1>2, <1>3, PassInvariant, VerdictInvariant, PTL DEF Spec

-----------------------------------------------------------------------------
(* The values the configs of a job declare for a field are finitely many. *)
LEMMA DeclaredIsFinite ==
    ASSUME ConfigsInv, NEW fs \in SUBSET Live
    PROVE  IsFiniteSet(Intervals(fs)) /\ IsFiniteSet(Crons(fs))
<1>1. IsFiniteSet(fs)
  <2>1. fs \in SUBSET ConfigFiles /\ IsFiniteSet(ConfigFiles)
    BY GenJobsAssumption DEF Live
  <2> QED
    BY <2>1, FS_Subset
<1>2. \A f \in fs : IsFiniteSet(ConfigOf(f).every) /\ IsFiniteSet(ConfigOf(f).cron)
  <2>1. ASSUME NEW S, AtMostOne(S)
        PROVE  IsFiniteSet(S)
    <3>1. CASE S = {}
      BY <3>1, FS_EmptySet
    <3>2. CASE S # {}
      <4>1. PICK x : S = {x}
        BY <2>1, <3>2 DEF AtMostOne
      <4> QED
        BY <4>1, FS_Singleton
    <3> QED
      BY <3>1, <3>2
  <2>2. \A f \in fs : AtMostOne(ConfigOf(f).every) /\ AtMostOne(ConfigOf(f).cron)
    BY ConfigShape, GenJobsAssumption DEF OptionalFields, Live
  <2> QED
    BY <2>1, <2>2
<1>3. ASSUME NEW g, DOMAIN g = fs, \A f \in fs : IsFiniteSet(g[f]), g = [f \in fs |-> g[f]]
      PROVE  IsFiniteSet(UNION {g[f] : f \in fs})
  <2> DEFINE T == {g[f] : f \in fs}
  <2>1. g \in Surjection(fs, T)
    BY <1>3 DEF Surjection
  <2>2. IsFiniteSet(T)
    BY <1>1, <2>1, FS_Surjection DEF ExistsSurjection
  <2> QED
    BY <1>3, <2>2, FS_UNION
<1>4. IsFiniteSet(UNION {ConfigOf(f).every : f \in fs})
  <2> DEFINE g == [f \in fs |-> ConfigOf(f).every]
  <2>1. IsFiniteSet(UNION {g[f] : f \in fs})
    BY <1>2, <1>3
  <2>2. {g[f] : f \in fs} = {ConfigOf(f).every : f \in fs}
    OBVIOUS
  <2> QED
    BY <2>1, <2>2
<1>5. IsFiniteSet(UNION {ConfigOf(f).cron : f \in fs})
  <2> DEFINE g == [f \in fs |-> ConfigOf(f).cron]
  <2>1. IsFiniteSet(UNION {g[f] : f \in fs})
    BY <1>2, <1>3
  <2>2. {g[f] : f \in fs} = {ConfigOf(f).cron : f \in fs}
    OBVIOUS
  <2> QED
    BY <2>1, <2>2
<1> QED
  BY <1>4, <1>5 DEF Intervals, Crons, Declared

(* The configs that may be the tasks of a job: one without a group, or the *)
(* members of one that is sound.                                           *)
MakesJob(fs) ==
    \/ \E f \in Singletons : fs = {f}
    \/ \E g \in LiveGroups : fs = Members(g)

(* An always-on job has its interval once and no cron, and its tasks       *)
(* stream, on classic compute, without retries of their own.               *)
LEMMA AlwaysOnIsSound ==
    ASSUME ConfigsInv, Accepted, NEW fs \in SUBSET Live, MakesJob(fs), Intervals(fs) # {}
    PROVE  /\ Crons(fs) = {} /\ Cardinality(Intervals(fs)) = 1
           /\ \A f \in fs : IsStreaming(ConfigOf(f)) /\ IsClassic(ConfigOf(f))
<1>1. ASSUME NEW f \in Singletons, fs = {f}
      PROVE  /\ Crons(fs) = {} /\ Cardinality(Intervals(fs)) = 1
             /\ IsStreaming(ConfigOf(f)) /\ IsClassic(ConfigOf(f))
  <2>1. Intervals(fs) = ConfigOf(f).every /\ Crons(fs) = ConfigOf(f).cron
    BY <1>1 DEF Intervals, Crons, Declared
  <2>2. AlwaysOnSound(ConfigOf(f)) /\ f \in Live /\ f \in ConfigFiles
    BY DEF Accepted, ConfigAccepted, ValidConfig, Singletons, Live
  <2>3. AtMostOne(ConfigOf(f).every)
    BY <2>2, ConfigShape, GenJobsAssumption DEF OptionalFields
  <2>4. \E x : Intervals(fs) = {x}
    BY <2>1, <2>3 DEF AtMostOne
  <2>5. Cardinality(Intervals(fs)) = 1
    BY <2>4, FS_Singleton
  <2> QED
    BY <2>1, <2>2, <2>5 DEF AlwaysOnSound
<1>2. ASSUME NEW g \in LiveGroups, fs = Members(g)
      PROVE  /\ Crons(fs) = {} /\ Cardinality(Intervals(fs)) = 1
             /\ \A f \in fs : IsStreaming(ConfigOf(f)) /\ IsClassic(ConfigOf(f))
  <2>1. GroupSound(g)
    BY DEF Accepted
  <2>2. IsFiniteSet(Intervals(fs)) /\ IsFiniteSet(Crons(fs))
    BY DeclaredIsFinite
  <2>3. Cardinality(Intervals(fs)) + Cardinality(Crons(fs)) <= 1
    BY <1>2, <2>1 DEF GroupSound
  <2>4. Cardinality(Intervals(fs)) \in Nat /\ Cardinality(Crons(fs)) \in Nat /\ Cardinality(Intervals(fs)) # 0
    BY <2>2, FS_CardinalityType, FS_EmptySet
  <2>5. Cardinality(Intervals(fs)) = 1 /\ Cardinality(Crons(fs)) = 0
    BY <2>3, <2>4
  <2>6. Crons(fs) = {}
    BY <2>2, <2>5, FS_EmptySet
  <2> QED
    BY <1>2, <2>1, <2>5, <2>6 DEF GroupSound
<1> QED
  BY <1>1, <1>2 DEF MakesJob

(* A pause needs a trigger to pause. *)
LEMMA PauseHasATrigger ==
    ASSUME Accepted, NEW fs \in SUBSET Live, MakesJob(fs), Pauses(fs) # {}
    PROVE  Intervals(fs) \cup Crons(fs) # {}
<1>1. ASSUME NEW f \in Singletons, fs = {f}
      PROVE  Intervals(fs) \cup Crons(fs) # {}
  <2>1. PauseSound(ConfigOf(f)) /\ ConfigOf(f).group = {}
    BY DEF Accepted, ConfigAccepted, ValidConfig, Singletons
  <2> QED
    BY <1>1, <2>1 DEF PauseSound, Pauses, Intervals, Crons, Declared
<1>2. ASSUME NEW g \in LiveGroups, fs = Members(g)
      PROVE  Intervals(fs) \cup Crons(fs) # {}
  BY <1>2 DEF Accepted, GroupSound
<1> QED
  BY <1>1, <1>2 DEF MakesJob

(* The retries of a triggered task: the config's, else the global's. *)
LEMMA RetriesAreOne ==
    ASSUME ConfigsInv, NEW f \in Live
    PROVE  Cardinality(OrElse(Retries(ConfigOf(f)), {bundle.retries})) = 1
<1>1. AtMostOne(ConfigOf(f).retries)
  BY ConfigShape, GenJobsAssumption DEF OptionalFields, Live
<1>2. \A v : Canonical(require_task_max_retries, v) \subseteq {v}
  BY DEF Canonical, require_task_max_retries, Rule
<1>3. Retries(ConfigOf(f)) = {} \/ \E v : Retries(ConfigOf(f)) = {v}
  BY <1>1, <1>2 DEF Retries, AtMostOne
<1> QED
  BY <1>3, FS_Singleton DEF OrElse

(* Every job an accepted repository renders is sound. *)
LEMMA RenderedJobIsSound ==
    ASSUME ConfigsInv, Accepted, NEW q \in Intended
    PROVE  JobSound(Rendered[q])
<1>1. PICK fs \in SUBSET Live, grouped \in BOOLEAN : Rendered[q] = Job(fs, grouped) /\ MakesJob(fs)
  BY TasksAreConfigs DEF MakesJob
<1> DEFINE job == Job(fs, grouped)
<1>2. /\ job.trigger = Trigger(fs) /\ job.at = Intervals(fs) \cup Crons(fs) /\ job.pause = Pauses(fs)
      /\ job.tags = bundle.tags + 1
      /\ job.clusters = {ConfigOf(f).cluster : f \in {x \in fs : ConfigOf(x).compute = "job_cluster"}}
  BY DEF Job
<1>3. ASSUME NEW s \in DOMAIN job.tasks
      PROVE  \E f \in fs : job.tasks[s] = Task(f, fs)
  <2>1. s \in {Stem[f] : f \in fs}
    BY JobTasks
  <2>2. (CHOOSE f \in fs : Stem[f] = s) \in fs
    BY <2>1
  <2> QED
    BY <2>1, <2>2 DEF Job
<1>4. ASSUME NEW f \in fs
      PROVE  LET task == Task(f, fs)
             IN  /\ task.interval = Intervals(fs)
                 /\ task.compute = ConfigOf(f).compute /\ task.cluster = ConfigOf(f).cluster
                 /\ task.knobs = Baked(ConfigOf(f))
                 /\ task.retries = IF Trigger(fs) = "continuous" THEN {}
                                   ELSE OrElse(Retries(ConfigOf(f)), {bundle.retries})
  BY DEF Task
<1>5. /\ \A s \in DOMAIN job.tasks :
           job.tasks[s].compute = "job_cluster" => job.tasks[s].cluster \in job.clusters
      /\ job.pause # {} => job.trigger # "none"
      /\ job.tags <= 25
  <2>1. \A s \in DOMAIN job.tasks :
          job.tasks[s].compute = "job_cluster" => job.tasks[s].cluster \in job.clusters
    BY <1>2, <1>3, <1>4
  <2>2. job.pause # {} => job.trigger # "none"
    BY <1>1, <1>2, PauseHasATrigger DEF Trigger
  <2>3. bundle.tags \in Nat /\ bundle.tags <= 24
    BY GenJobsAssumption DEF ConfigsInv, Accepted, BundleSound, TagsLeaveRoom
  <2>4. job.tags <= 25
    BY <1>2, <2>3
  <2> QED
    BY <2>1, <2>2, <2>4
<1>6. ASSUME NEW s \in DOMAIN job.tasks
      PROVE  LET task == job.tasks[s] IN
             IF job.trigger = "continuous"
             THEN /\ task.interval = job.at /\ Cardinality(job.at) = 1
                  /\ task.compute # "serverless" /\ task.knobs["pipeline_mode"] = {Streaming}
                  /\ task.retries = {}
             ELSE task.interval = {} /\ Cardinality(task.retries) = 1
  <2>1. PICK f \in fs : job.tasks[s] = Task(f, fs)
    BY <1>3
  <2>2. CASE Intervals(fs) # {}
    <3>1. job.trigger = "continuous" /\ Trigger(fs) = "continuous"
      BY <1>2, <2>2 DEF Trigger
    <3>2. /\ Crons(fs) = {} /\ Cardinality(Intervals(fs)) = 1
          /\ IsStreaming(ConfigOf(f)) /\ IsClassic(ConfigOf(f))
      BY <1>1, <2>2, AlwaysOnIsSound
    <3>3. Baked(ConfigOf(f))["pipeline_mode"] = {Streaming} /\ ConfigOf(f).compute # "serverless"
      BY <3>2 DEF IsStreaming, IsClassic, Baked, FromConfig
    <3>4. job.at = Intervals(fs)
      BY <1>2, <3>2
    <3> HIDE DEF job
    <3> QED
      BY <1>4, <2>1, <3>1, <3>2, <3>3, <3>4
  <2>3. CASE Intervals(fs) = {}
    <3>1. job.trigger # "continuous" /\ Trigger(fs) # "continuous"
      BY <1>2, <2>3 DEF Trigger
    <3>2. Cardinality(OrElse(Retries(ConfigOf(f)), {bundle.retries})) = 1
      BY RetriesAreOne
    <3> HIDE DEF job
    <3> QED
      BY <1>4, <2>1, <2>3, <3>1, <3>2
  <2> QED
    BY <2>2, <2>3
<1> HIDE DEF job
<1>7. JobSound(job)
  BY <1>5, <1>6 DEF JobSound
<1> QED
  BY <1>1, <1>7 DEF job

(* No step leaves an unsound job at a path. *)
LEMMA StepKeepsJobsSound ==
    ASSUME ConfigsInv, PassInv, ProgressInv, EveryJobIsSound, [Next]_vars
    PROVE  EveryJobIsSound'
<1> USE DEF EveryJobIsSound
<1>1. \A job : JobSound(job)' = JobSound(job)
  BY DEF JobSound
<1>2. /\ Emptied.kind # "generated" /\ NoFile.kind # "generated" /\ Hand.kind # "generated"
      /\ \A job : Generated(job).job = job
  BY DEF Emptied, NoFile, Hand, Generated
<1>3. CASE UNCHANGED files
  BY <1>1, <1>3 DEF IsGenerated
<1>4. ASSUME NEW p \in Paths, NEW what \in {Emptied, NoFile, Hand, Cut}, files' = [files EXCEPT ![p] = what]
      PROVE  EveryJobIsSound'
  BY <1>1, <1>2, <1>4 DEF IsGenerated, ProgressInv
<1>5. CASE \/ \E f \in ConfigFiles : EditConfig(f)
           \/ EditBundle \/ PassRefuses \/ PassStarts \/ PassEnds \/ Check \/ Deploy
           \/ \E p \in Paths, s \in Stems : Run(p, s)
           \/ UNCHANGED vars
  BY <1>3, <1>5 DEF EditConfig, EditBundle, PassRefuses, PassStarts, PassEnds, Check, Deploy, Run, vars, repo
<1>6. CASE \E p \in Paths : EditFile(p) \/ OpenFile(p) \/ RemoveOrphan(p)
  BY <1>4, <1>6 DEF EditFile, OpenFile, RemoveOrphan
<1>7. CASE Kill
  BY <1>3, <1>4, <1>7 DEF Kill, PassInv
<1>8. ASSUME NEW p \in Paths, WriteFile(p)
      PROVE  EveryJobIsSound'
  <2>1. files' = [files EXCEPT ![p] = Generated(plan[p])] /\ p \in todo /\ phase = "writing"
    BY <1>8 DEF WriteFile, PassInv
  <2>2. plan[p] = Rendered[p] /\ JobSound(Rendered[p])
    BY <2>1, RenderedJobIsSound DEF ProgressInv
  <2> QED
    BY <1>1, <1>2, <2>1, <2>2 DEF IsGenerated, ProgressInv
<1> QED
  BY <1>5, <1>6, <1>7, <1>8 DEF Next

(* No generated job, at any moment and from any group, is one that could   *)
(* not run as its trigger has it run.                                      *)
THEOREM GeneratedJobsAreSound == Spec => []EveryJobIsSound
<1>1. Init => EveryJobIsSound
  BY DEF Init, EveryJobIsSound, IsGenerated, NoFile
<1>2. ConfigsInv /\ PassInv /\ ProgressInv /\ EveryJobIsSound /\ [Next]_vars => EveryJobIsSound'
  BY StepKeepsJobsSound
<1> QED
  BY <1>1, <1>2, ConfigsInvariant, PassInvariant, VerdictInvariant, PTL DEF Spec
=============================================================================
