------------------------------ MODULE MCGenJobs ------------------------------
(***************************************************************************)
(* GenJobs on three config files, two of one stem and one whose output     *)
(* meets a group's: every checkout with one of the configs below in each,  *)
(* one or two edits, and one killed pass.                                  *)
(***************************************************************************)
EXTENDS GenJobs

MCConfigFiles == {"a.yml", "a.yaml", "group_g.yml"}
MCStem == [f \in MCConfigFiles |-> IF f = "group_g.yml" THEN "group_g" ELSE "a"]
MCFirst == {"a.yml", "group_g.yml"}
MCStemPath == [s \in {"a", "group_g"} |-> s]
MCGroupPath == [g \in {"g"} |-> "group_g"]

Plain == [knobs |-> <<>>, retries |-> {}, every |-> {}, cron |-> {}, pause |-> {}, group |-> {},
          postfix |-> {}, host |-> {}, compute |-> "serverless", cluster |-> "none", hasId |-> FALSE,
          index |-> 1]
Stream == [pipeline_mode |-> Streaming]
OnClassic == [Plain EXCEPT !.compute = "job_cluster", !.cluster = "jc", !.knobs = Stream]
AlwaysOn == [OnClassic EXCEPT !.every = {5}, !.pause = {"PAUSED"}]

AnyConfig == {{c} : c \in
    {Plain, AlwaysOn,
     [AlwaysOn EXCEPT !.group = {"g"}, !.index = 2],              \* an always-on member
     [OnClassic EXCEPT !.group = {"g"}],                          \* one that inherits its trigger
     [OnClassic EXCEPT !.group = {"g"}, !.retries = {Whole(1)}],  \* and may not with retries
     [Plain EXCEPT !.group = {"g"}, !.cron = {3}],
     [Plain EXCEPT !.knobs = [retry_backoff_initial |-> Whole(20), write_repartition |-> Whole(0)]],
     [Plain EXCEPT !.knobs = [op_type |-> Create], !.hasId = TRUE, !.host = {"h2"}],
     [Plain EXCEPT !.pause = {"PAUSED"}]}}                        \* never valid
MCConfigChoices == [f \in MCConfigFiles |-> {{}} \cup IF f = "a.yaml" THEN {{Plain}} ELSE AnyConfig]

Defaults == [k \in Knobs |-> IF k = "pipeline_mode" THEN Batch
                             ELSE IF k = "streaming_start" THEN NewStart ELSE Blank]
Shipped == [includes |-> {"framework", "pipelines"}, undeclared |-> {}, globals |-> Defaults,
            retries |-> Whole(2), hosts |-> {"h1", "h2"}, hostMap |-> [h \in {"h1", "h2"} |-> h],
            defaultHost |-> {"h1"}, overridden |-> {}, tags |-> 1, clusterSpecs |-> {"jc"}, clusters |-> {}]
CappedBackoff == [Defaults EXCEPT !["retry_backoff_max"] = Whole(10), !["write_repartition"] = Whole(8)]
MCBundles == {Shipped,
              [Shipped EXCEPT !.globals = CappedBackoff, !.tags = 24],
              [Shipped EXCEPT !.hosts = {"h1"}],       \* the map still lists h2
              [Shipped EXCEPT !.tags = 25]}

Wheel(release, pre) == [recognized |-> TRUE, release |-> release, pre |-> pre, post |-> FALSE, dev |-> FALSE,
                        maxBackoff |-> 86400, defaults |-> CONNECTOR_RETRY_BACKOFF_DEFAULTS]
MCWheels == {Wheel(<<1, 0, 0, 0>>, FALSE), Wheel(<<1, 0, 0>>, TRUE),
             [Wheel(<<1, 1, 0>>, FALSE) EXCEPT !.defaults.retry_backoff_max = Whole(5)]}
MCGlobalChoices == {[Defaults EXCEPT !["op_type"] = Create, !["retry_backoff_max"] = Whole(1)]}
MCParamChoices == {<<>>, [pipeline_mode |-> Batch], [retry_backoff_initial |-> Blank, write_repartition |-> Other],
                   [retry_backoff_initial |-> Blank, streaming_start |-> Blank], [op_type |-> Word(3)]}
MCNameLength == [i \in 1..13 |-> IF i = 2 THEN 9 ELSE 1]

(* "the actual marker (dropped <= len(names)) always fits and the value is *)
(* <= the cap BY CONSTRUCTION": the tag of every list of the names above.  *)
ASSUME TagValueFits == \A names \in SUBSET DOMAIN NameLength : TagWidth(names) <= TagMax
=============================================================================
