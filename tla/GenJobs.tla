------------------------------- MODULE GenJobs -------------------------------
(***************************************************************************)
(* scripts/gen_jobs.py over the life of a repository: developers edit      *)
(* configs, databricks.yml and hand-authored job files; the generator is   *)
(* run, killed and run again; --check decides whether what is there may be *)
(* deployed; the deployed jobs run with whatever --params an operator adds.*)
(*                                                                         *)
(* A config file has a stem; a group and a stem each have an output file,  *)
(* and the two name spaces may meet (a config named group_<g>).            *)
(***************************************************************************)
EXTENDS PipelineConfig, FiniteSetsExt

CONSTANTS ConfigFiles,  \* files of _pipelines/pipeline_configs that may exist
          Stem,         \* the stem of each; two files may share one (.yml, .yaml)
          First,        \* those with the extension .yml, which a run looks for first
          BadStems,     \* stems no job may have (reserved, or no resource key)
          Groups, StemPath, GroupPath,
          ConfigChoices,  \* what each file may hold, none included
          Bundles, Wheels, GlobalChoices, ParamChoices,
          NameLength, TagMax,   \* length of index i's name; the cap of a tag value
          MaxEdits, MaxKills    \* bounds on edits and on killed passes

Stems == {Stem[f] : f \in ConfigFiles}
Paths == {StemPath[s] : s \in Stems} \cup {GroupPath[g] : g \in Groups}

\* Names make distinct files; a config sets an optional field once or not at all.
AtMostOne(S) == \A x, y \in S : x = y
OptionalFields == {"every", "cron", "pause", "group", "postfix", "host", "retries"}

ASSUME GenJobsAssumption ==
    /\ IsFiniteSet(ConfigFiles)
    /\ \A s, t \in Stems : StemPath[s] = StemPath[t] => s = t
    /\ \A g, h \in Groups : GroupPath[g] = GroupPath[h] => g = h
    /\ \A f \in ConfigFiles : \A C \in ConfigChoices[f] :
         AtMostOne(C) /\ \A c \in C : c.group \subseteq Groups /\ \A k \in OptionalFields : AtMostOne(c[k])
    /\ \A b \in Bundles : b.tags \in Nat

\* What a path of _pipelines/resources/ may hold.
NoJob == [trigger |-> "no job"]
NoFile == [kind |-> "none", job |-> NoJob]
Hand == [kind |-> "hand", job |-> NoJob]
Emptied == [kind |-> "emptied", job |-> NoJob]    \* opened for writing, nothing in it yet
Cut == [kind |-> "generated", job |-> NoJob]      \* the marker and a part of a job
Generated(job) == [kind |-> "generated", job |-> job]

VARIABLES configs,   \* file -> the config in it, as a set of at most one
          bundle,    \* databricks.yml
          files,     \* path -> what _pipelines/resources/ holds
          phase, plan, todo, opened, orphans,   \* the pass under way
          last,      \* how the latest pass or check ended, until the next edit
          deployed,  \* the jobs in the workspace and what they were deployed with
          run,       \* the latest run of a deployed task
          edits, kills

repo == <<configs, bundle, files>>
pass == <<phase, plan, todo, opened, orphans>>
vars == <<repo, pass, last, deployed, run, edits, kills>>

Live == {f \in ConfigFiles : configs[f] # {}}
ConfigOf(f) == CHOOSE c \in configs[f] : TRUE
IsGenerated(p) == files[p].kind = "generated"

(***************************************************************************)
(* What the generator requires of databricks.yml, before any config.       *)
(***************************************************************************)
IncludesListed(b) == b.includes = {"framework", "pipelines"}
VariablesDeclared(b) == b.undeclared = {}
GlobalsLegal(b) == \A k \in Knobs : Legal(Validator[k], b.globals[k])
RetryGlobalSet(b) == b.retries.kind # "blank" /\ Legal(require_task_max_retries, b.retries)
HostMapExact(b) == /\ DOMAIN b.hostMap = b.hosts
                   /\ \A h \in b.hosts : b.hostMap[h] = h
DefaultHostDeclared(b) == b.defaultHost \subseteq b.hosts /\ b.defaultHost # {}
NotOverridden(b) == b.overridden \cap {"es_host_configs_json", "default_es_host_config"} = {}
TagsLeaveRoom(b) == b.tags <= 24
BundleSound(b) ==
    /\ IncludesListed(b) /\ VariablesDeclared(b) /\ GlobalsLegal(b) /\ RetryGlobalSet(b)
    /\ HostMapExact(b) /\ DefaultHostDeclared(b) /\ NotOverridden(b) /\ TagsLeaveRoom(b)

(* The effective backoff pair: the config, else the global, else what the  *)
(* connector is pinned to do.                                              *)
Shared(b, k) == Canonical(Validator[k], b.globals[k])
MutBackoffSide(c, b, side) == OrElse(FromConfig(c, side), {CONNECTOR_RETRY_BACKOFF_DEFAULTS[side]})
BackoffSide(c, b, side) ==
    OrElse(OrElse(FromConfig(c, side), Shared(b, side)), {CONNECTOR_RETRY_BACKOFF_DEFAULTS[side]})
Orders(initial, maximum) == \A i \in initial, m \in maximum : i.n <= m.n
BackoffPairSound(c, b) ==
    Orders(BackoffSide(c, b, "retry_backoff_initial"), BackoffSide(c, b, "retry_backoff_max"))

ReferencesDeclared(c, b) ==
    /\ OrElse(c.host, b.defaultHost) \subseteq b.hosts
    /\ c.compute = "job_cluster" => c.cluster \in b.clusterSpecs
    /\ c.compute = "existing_cluster" => c.cluster \in b.clusters
ConfigAccepted(f) ==
    /\ Stem[f] \notin BadStems
    /\ \A g \in Live \ {f} : Stem[g] # Stem[f]
    /\ ValidConfig(ConfigOf(f))
    /\ BackoffPairSound(ConfigOf(f), bundle)
    /\ ReferencesDeclared(ConfigOf(f), bundle)

(***************************************************************************)
(* Jobs.  A config without a group is a job of its own; the members of a   *)
(* group are the tasks of one.                                             *)
(***************************************************************************)
Members(g) == {f \in Live : ConfigOf(f).group = {g}}
Singletons == {f \in Live : ConfigOf(f).group = {}}
LiveGroups == {g \in Groups : Members(g) # {}}
Declared(fs, field) == UNION {ConfigOf(f)[field] : f \in fs}
Intervals(fs) == Declared(fs, "every")
Crons(fs) == Declared(fs, "cron")
Pauses(fs) == Declared(fs, "pause")
Postfixes(fs) == Declared(fs, "postfix")

GroupSound(g) ==
    LET ms == Members(g) IN
    /\ Cardinality(Intervals(ms)) + Cardinality(Crons(ms)) <= 1
    /\ Cardinality(Pauses(ms)) <= 1 /\ Cardinality(Postfixes(ms)) <= 1
    /\ Pauses(ms) # {} => Intervals(ms) \cup Crons(ms) # {}
    /\ Intervals(ms) # {} =>
         \A f \in ms : LET c == ConfigOf(f) IN IsStreaming(c) /\ IsClassic(c) /\ Retries(c) = {}

(* The es_index_list tag: all names when they fit, else the first ones and *)
(* a marker " ...+N" for the N that were dropped.                          *)
Digits(n) == IF n < 10 THEN 1 ELSE 2
Width(names) ==
    IF names = {} THEN 0 ELSE MapThenSumSet(LAMBDA i : NameLength[i], names) + Cardinality(names) - 1
KeptNames(names) ==
    LET budget == TagMax - (5 + Digits(Cardinality(names)))
    IN  IF Width(names) <= TagMax THEN names
        ELSE {i \in names : Width({j \in names : j <= i}) <= budget}
TagWidth(names) ==
    LET kept == KeptNames(names)
        dropped == Cardinality(names) - Cardinality(kept)
    IN  IF dropped = 0 THEN Width(names)
        ELSE Width(kept) + Digits(dropped) + (IF kept = {} THEN 4 ELSE 5)

Trigger(fs) ==
    IF Intervals(fs) # {} THEN "continuous" ELSE IF Crons(fs) # {} THEN "schedule" ELSE "none"
(* Each task runs the shared notebook with its config's name and its job's *)
(* interval; only the tasks of a triggered job carry the Jobs retries.     *)
MutTask(f, fs) ==
    LET c == ConfigOf(f) IN
    [interval |-> c.every, compute |-> c.compute, cluster |-> c.cluster,
     host |-> OrElse(c.host, bundle.defaultHost),
     retries |-> IF Trigger(fs) = "continuous" THEN {} ELSE OrElse(Retries(c), {bundle.retries}),
     knobs |-> Baked(c)]
Task(f, fs) ==
    LET c == ConfigOf(f) IN
    [interval |-> Intervals(fs), compute |-> c.compute, cluster |-> c.cluster,
     host |-> OrElse(c.host, bundle.defaultHost),
     retries |-> IF Trigger(fs) = "continuous" THEN {} ELSE OrElse(Retries(c), {bundle.retries}),
     knobs |-> Baked(c)]
Job(fs, grouped) ==
    [trigger |-> Trigger(fs), at |-> Intervals(fs) \cup Crons(fs), pause |-> Pauses(fs),
     postfix |-> Postfixes(fs), grouped |-> grouped, tags |-> bundle.tags + 1,
     indices |-> {ConfigOf(f).index : f \in fs},
     clusters |-> {ConfigOf(f).cluster : f \in {x \in fs : ConfigOf(x).compute = "job_cluster"}},
     tasks |-> [s \in {Stem[f] : f \in fs} |-> Task(CHOOSE f \in fs : Stem[f] = s, fs)]]

Rendered ==
    [p \in {StemPath[Stem[f]] : f \in Singletons} \cup {GroupPath[g] : g \in LiveGroups} |->
        IF \E f \in Singletons : StemPath[Stem[f]] = p
        THEN Job({CHOOSE f \in Singletons : StemPath[Stem[f]] = p}, FALSE)
        ELSE Job(Members(CHOOSE g \in LiveGroups : GroupPath[g] = p), TRUE)]
Intended == {StemPath[Stem[f]] : f \in Singletons} \cup {GroupPath[g] : g \in LiveGroups}
Orphans == {p \in Paths : IsGenerated(p)} \ Intended
OutputsCollide == \E f \in Singletons, g \in LiveGroups : StemPath[Stem[f]] = GroupPath[g]
MutHandAuthored == {}
HandAuthored == {p \in Intended : files[p].kind \in {"hand", "emptied"}}

Refuses ==
    \/ ~BundleSound(bundle)
    \/ \E f \in Live : ~ConfigAccepted(f)
    \/ OutputsCollide
    \/ Live = {} /\ Orphans = {}
    \/ HandAuthored # {}
    \/ \E g \in LiveGroups : ~GroupSound(g)
Stale == {p \in Intended : files[p] # Generated(Rendered[p])}
MutCheckIsGreen == ~Refuses /\ Stale = {}
CheckIsGreen == ~Refuses /\ Stale = {} /\ Orphans = {}

-----------------------------------------------------------------------------
NoDeploy == [jobs |-> <<>>, vetted |-> FALSE]
NoRun == [result |-> "none"]

(* A checkout with any configs and any databricks.yml, and no job yet.     *)
Init ==
    /\ configs \in {c \in [ConfigFiles -> UNION {ConfigChoices[f] : f \in ConfigFiles}] :
                    \A f \in ConfigFiles : c[f] \in ConfigChoices[f]}
    /\ bundle \in Bundles
    /\ files = [p \in Paths |-> NoFile]
    /\ phase = "idle" /\ plan = <<>> /\ todo = {} /\ opened = {} /\ orphans = {}
    /\ last = "none" /\ deployed = NoDeploy /\ run = NoRun
    /\ edits = 0 /\ kills = 0

(* What a release and its runs do depends on nothing that is edited later: *)
(* a release is followed until the next edit or pass.                      *)
Forget == deployed' = NoDeploy /\ run' = NoRun

Edit == /\ phase = "idle" /\ edits < MaxEdits
        /\ edits' = edits + 1 /\ last' = "none" /\ Forget
        /\ UNCHANGED <<pass, kills>>
EditConfig(f) == /\ Edit
                 /\ \E c \in ConfigChoices[f] : c # configs[f] /\ configs' = [configs EXCEPT ![f] = c]
                 /\ UNCHANGED <<bundle, files>>
EditBundle == Edit /\ bundle' \in Bundles \ {bundle} /\ UNCHANGED <<configs, files>>
EditFile(p) == /\ Edit
               /\ \E what \in {NoFile, Hand} : what # files[p] /\ files' = [files EXCEPT ![p] = what]
               /\ UNCHANGED <<configs, bundle>>

(***************************************************************************)
(* A pass.  Everything is read, checked and rendered first; what it then   *)
(* writes is open(p, "w"), which empties the file, and the write.          *)
(***************************************************************************)
Idle == phase' = "idle" /\ plan' = <<>> /\ todo' = {} /\ opened' = {} /\ orphans' = {}

PassRefuses == /\ phase = "idle" /\ Refuses
               /\ last' = "refused" /\ Forget /\ UNCHANGED <<repo, pass, edits, kills>>
PassStarts == /\ phase = "idle" /\ ~Refuses
              /\ phase' = "writing" /\ plan' = Rendered /\ todo' = Intended /\ orphans' = Orphans
              /\ last' = "none" /\ Forget /\ UNCHANGED <<repo, opened, edits, kills>>
OpenFile(p) == /\ phase = "writing" /\ opened = {} /\ p \in todo
               /\ files' = [files EXCEPT ![p] = Emptied] /\ opened' = {p}
               /\ UNCHANGED <<configs, bundle, phase, plan, todo, orphans, last, deployed, run, edits, kills>>
WriteFile(p) == /\ p \in opened
                /\ files' = [files EXCEPT ![p] = Generated(plan[p])]
                /\ opened' = {} /\ todo' = todo \ {p}
                /\ UNCHANGED <<configs, bundle, phase, plan, orphans, last, deployed, run, edits, kills>>
RemoveOrphan(p) == /\ phase = "writing" /\ todo = {} /\ p \in orphans
                   /\ files' = [files EXCEPT ![p] = NoFile] /\ orphans' = orphans \ {p}
                   /\ UNCHANGED <<configs, bundle, phase, plan, todo, opened, last, deployed, run, edits, kills>>
MutPassEnds == /\ phase = "writing" /\ todo = {}
               /\ Idle /\ last' = "done" /\ UNCHANGED <<repo, deployed, run, edits, kills>>
PassEnds == /\ phase = "writing" /\ todo = {} /\ orphans = {}
            /\ Idle /\ last' = "done" /\ UNCHANGED <<repo, deployed, run, edits, kills>>
Kill == /\ phase = "writing" /\ kills < MaxKills
        /\ kills' = kills + 1 /\ Idle /\ last' = "killed"
        /\ \/ files' = files
           \/ \E p \in opened : files' = [files EXCEPT ![p] = Cut]
        /\ UNCHANGED <<configs, bundle, deployed, run, edits>>

Check == /\ phase = "idle"
         /\ last' = IF CheckIsGreen THEN "green" ELSE "red"
         /\ Forget /\ UNCHANGED <<repo, pass, edits, kills>>

(***************************************************************************)
(* A deploy takes the files as they are, vetted or not, resolves the       *)
(* references with the target's globals, and installs the target's wheel.  *)
(***************************************************************************)
Deploy ==
    /\ phase = "idle" /\ deployed = NoDeploy
    /\ \E p \in Paths : IsGenerated(p)
    /\ \A p \in Paths : files[p] # Cut
    /\ \E globals \in GlobalChoices \cup {bundle.globals}, w \in Wheels :
         deployed' = [jobs |-> [p \in {q \in Paths : IsGenerated(q)} |-> files[p].job],
                      vetted |-> last = "green", own |-> globals = bundle.globals,
                      globals |-> globals, wheel |-> w]
    /\ run' = NoRun /\ UNCHANGED <<repo, pass, last, edits, kills>>

(***************************************************************************)
(* The parameter cells of notebooks/run_index_pipeline.py.  A widget holds *)
(* the --params value, else what was baked, a global resolved at deploy.   *)
(***************************************************************************)
Widget(k, task, params) ==
    IF k \in DOMAIN params THEN params[k]
    ELSE IF k \in DOMAIN task.knobs THEN CHOOSE v \in task.knobs[k] : TRUE ELSE deployed.globals[k]
Setting(k, task, params) ==
    LET v == Widget(k, task, params)
    IN  IF k = "streaming_start" /\ v = Blank THEN NewStart ELSE v
Chosen(k, task, params) == Canonical(Validator[k], Setting(k, task, params))
Applied(side, task, params) == OrElse(Chosen(side, task, params), {deployed.wheel.defaults[side]})

\* The config the run finds by its name: the .yml file before the .yaml one.
ConfigFound(s) ==
    LET found == {f \in Live : Stem[f] = s}
    IN  IF found \cap First # {} THEN found \cap First ELSE found

WheelRefused == OldWheel(deployed.wheel) \/ DriftedWheel(deployed.wheel)
ValueRefused(task, params) == \E k \in Knobs : ~Legal(Validator[k], Setting(k, task, params))
ModeRefused(task, params) == task.interval # {} /\ Chosen("pipeline_mode", task, params) # {Streaming}
ConfigRefused(s) == \A f \in ConfigFound(s) : ~ValidConfig(ConfigOf(f))
HasId(s) == \E f \in ConfigFound(s) : ConfigOf(f).hasId
OpTypeRefused(s, task, params) ==
    LET op == Chosen("op_type", task, params)
    IN  ~(op \subseteq {Index, Create}) \/ (op = {Create} /\ ~HasId(s))
PairRefused(task, params) ==
    ~Orders(Applied("retry_backoff_initial", task, params), Applied("retry_backoff_max", task, params))

Result(s, task, params) ==
    IF WheelRefused THEN "wheel refused"
    ELSE IF ValueRefused(task, params) THEN "value refused"
    ELSE IF ModeRefused(task, params) THEN "mode refused"
    ELSE IF ConfigRefused(s) THEN "config refused"
    ELSE IF OpTypeRefused(s, task, params) THEN "op_type refused"
    ELSE IF PairRefused(task, params) THEN "pair refused"
    ELSE "exported"

Run(p, s) ==
    /\ phase = "idle" /\ run = NoRun
    /\ p \in DOMAIN deployed.jobs
    /\ LET job == deployed.jobs[p] IN
       /\ s \in DOMAIN job.tasks
       /\ \E params \in IF job.grouped THEN {<<>>} ELSE ParamChoices :
            run' = [result |-> Result(s, job.tasks[s], params), stem |-> s, params |-> params,
                    task |-> job.tasks[s],
                    chosen |-> [k \in Knobs |-> Chosen(k, job.tasks[s], params)]]
    /\ UNCHANGED <<repo, pass, last, deployed, edits, kills>>

Next ==
    \/ \E f \in ConfigFiles : EditConfig(f)
    \/ EditBundle
    \/ \E p \in Paths : EditFile(p) \/ OpenFile(p) \/ WriteFile(p) \/ RemoveOrphan(p)
    \/ PassRefuses \/ PassStarts \/ PassEnds \/ Kill \/ Check \/ Deploy
    \/ \E p \in Paths, s \in Stems : Run(p, s)

Spec == Init /\ [][Next]_vars

-----------------------------------------------------------------------------
(* The bookkeeping of a pass: what it has still to write or to remove is   *)
(* no hand-authored file, at most one file is open, and it is one of its   *)
(* own.                                                                    *)
PassInv ==
    /\ phase \in {"idle", "writing"}
    /\ phase = "idle" => todo = {} /\ opened = {} /\ orphans = {}
    /\ todo \cup orphans \subseteq Paths /\ opened \subseteq todo
    /\ \A p \in todo \cup orphans : files[p] # Hand

(* No pass ever changes or removes a job file that somebody wrote by hand, *)
(* however it is interrupted and whatever it is asked to generate or to    *)
(* clean up (main: the refusal up front, and orphans by their marker).     *)
HandWrittenKept ==
    [][phase # "idle" => \A p \in Paths : files[p] = Hand => files'[p] = Hand]_vars

(* A pass that ran to its end leaves what --check calls up to date, unless *)
(* something was edited since: there is no repository for which one pass   *)
(* is not enough.  (A repository left without any config is refused by     *)
(* both, "no index configs found".)                                        *)
FinishedPassIsClean == last = "done" /\ Live # {} => CheckIsGreen

(* A release deployed after a green --check runs every live config as a    *)
(* task of exactly one job (so that one run at a time writes its           *)
(* checkpoint), and no config that is gone, whatever killed passes left.   *)
TasksFor(s) == {p \in DOMAIN deployed.jobs : s \in DOMAIN deployed.jobs[p].tasks}
VettedReleaseIsWhole ==
    deployed.vetted =>
        /\ \A f \in Live : Cardinality(TasksFor(Stem[f])) = 1
        /\ UNION {DOMAIN deployed.jobs[p].tasks : p \in DOMAIN deployed.jobs} = {Stem[f] : f \in Live}

(* No generated job, at any moment and from any group, mixes an always-on  *)
(* trigger with a task that drains and stops, runs where that trigger does *)
(* not exist, may be run as a batch, or has a retry policy of its own; one *)
(* that is not always-on has no interval and its retries; every cluster a  *)
(* task names is defined; the number of tags fits the limit of the Jobs    *)
(* API.                                                                    *)
JobSound(job) ==
    /\ \A s \in DOMAIN job.tasks :
         LET task == job.tasks[s] IN
         IF job.trigger = "continuous"
         THEN /\ task.interval = job.at /\ Cardinality(job.at) = 1
              /\ task.compute # "serverless" /\ task.knobs["pipeline_mode"] = {Streaming}
              /\ task.retries = {}
         ELSE task.interval = {} /\ Cardinality(task.retries) = 1
    /\ \A s \in DOMAIN job.tasks :
         job.tasks[s].compute = "job_cluster" => job.tasks[s].cluster \in job.clusters
    /\ job.pause # {} => job.trigger # "none"
    /\ job.tags <= 25
EveryJobIsSound == \A p \in Paths : IsGenerated(p) /\ files[p] # Cut => JobSound(files[p].job)

(* A run of a vetted release uses, for each knob, --params if the run has  *)
(* it (a blank one means the default), else the config's value, 0 and      *)
(* false included, else the target's global; under an always-on trigger    *)
(* it exports only as a stream; and with the globals of databricks.yml it  *)
(* is never refused over the backoff pair, which the generator checked.    *)
Layered(k) ==
    LET own == UNION {IF k \in DOMAIN ConfigOf(f).knobs THEN {ConfigOf(f).knobs[k]} ELSE {} :
                        f \in {x \in Live : Stem[x] = run.stem}}
    IN  IF k \in DOMAIN run.params THEN {run.params[k]}
        ELSE IF \E v \in own : Canonical(Validator[k], v) # {} THEN own
        ELSE {deployed.globals[k]}
RunsFollowTheRepository ==
    run # NoRun /\ deployed.vetted =>
        /\ run.result = "exported" =>
             /\ run.task.interval # {} => run.chosen["pipeline_mode"] = {Streaming}
             /\ \A k \in Knobs \ {"streaming_start"} :
                  run.chosen[k] = UNION {Canonical(Validator[k], v) : v \in Layered(k)}
        /\ deployed.own /\ run.params = <<>> => run.result # "pair refused"
=============================================================================
