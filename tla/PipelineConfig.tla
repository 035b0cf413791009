--------------------------- MODULE PipelineConfig ---------------------------
(***************************************************************************)
(* The rules of pipeline_lib/config.py: what each run-time knob may hold,  *)
(* what a value becomes on its way from databricks.yml, a config or        *)
(* --params to the run, and the rules that relate several fields.          *)
(*                                                                         *)
(* A value as it stands in a file or a widget is blank (null or an empty   *)
(* text), a whole number or a word, each as YAML or as text, or something  *)
(* no rule accepts.  A canonical value is a set: empty for "unset" and a   *)
(* singleton for a value, so that unset, 0 and false differ.               *)
(***************************************************************************)
EXTENDS Integers, Sequences, FiniteSets

Blank == [kind |-> "blank", n |-> 0]
Whole(n) == [kind |-> "whole", n |-> n]
Word(n) == [kind |-> "word", n |-> n]
Other == [kind |-> "other", n |-> 0]

Batch == Word(1)
Streaming == Word(2)
Index == Word(1)
Create == Word(2)
NewStart == Word(1)

(***************************************************************************)
(* A validator: the numbers and the words it accepts, whether it accepts a *)
(* blank, what a blank becomes, and the numbers that mean unset.           *)
(***************************************************************************)
Rule(numbers, words) == [numbers |-> numbers, words |-> words, blank |-> TRUE, empty |-> {}, unset |-> {}]
Positive == 1..2147483647
Natural == 0..2147483647
CONNECTOR_MAX_RETRY_BACKOFF_SECONDS == 86400

require_pipeline_mode == [Rule({}, {1, 2}) EXCEPT !.blank = FALSE]
require_streaming_start == [Rule({}, {1, 2}) EXCEPT !.blank = FALSE]
require_filter_condition == Rule({}, Positive)
require_chunk_size == Rule(Positive, {})
require_max_retries_per_request == Rule(Natural, {})
require_retry_backoff_seconds == Rule(0..CONNECTOR_MAX_RETRY_BACKOFF_SECONDS, {})
require_es_flag == Rule({}, {0, 1})
require_op_type == Rule({}, Positive)
require_write_repartition == [Rule(Natural, {}) EXCEPT !.empty = {Whole(0)}]
require_max_partition_bytes == [Rule(Natural, {}) EXCEPT !.empty = {Whole(2097152)}]
require_max_files_per_trigger == Rule(Positive, {})
require_max_bytes_per_trigger == [Rule(Natural, {}) EXCEPT !.unset = {0}]
require_lookback_seconds == [Rule(0..86400, {}) EXCEPT !.empty = {Whole(60)}]
require_history_rows == [Rule(1..10000, {}) EXCEPT !.empty = {Whole(100)}]
require_task_max_retries == Rule(0..10, {})

(* _RUNTIME_KNOBS: every knob that --params can override, with its rule.   *)
Validator ==
    [pipeline_mode |-> require_pipeline_mode, filter_condition |-> require_filter_condition,
     chunk_size |-> require_chunk_size, write_concurrency |-> require_chunk_size,
     op_type |-> require_op_type, request_timeout |-> require_chunk_size,
     max_retries_per_request |-> require_max_retries_per_request,
     max_retries_per_doc |-> require_max_retries_per_request,
     retry_backoff_initial |-> require_retry_backoff_seconds,
     retry_backoff_max |-> require_retry_backoff_seconds,
     require_existing_index |-> require_es_flag, verify_certs |-> require_es_flag,
     bulk_stats |-> require_es_flag, bypass_fast_path |-> require_es_flag,
     streaming_start |-> require_streaming_start, write_repartition |-> require_write_repartition,
     max_partition_bytes |-> require_max_partition_bytes,
     max_files_per_trigger |-> require_max_files_per_trigger,
     max_bytes_per_trigger |-> require_max_bytes_per_trigger,
     monitoring_log_enabled |-> require_es_flag,
     log_monitor_source_lookback_seconds |-> require_lookback_seconds,
     log_monitor_source_history_rows |-> require_history_rows]
Knobs == DOMAIN Validator

Legal(rule, v) ==
    \/ v.kind = "blank" /\ rule.blank
    \/ v.kind = "word" /\ v.n \in rule.words
    \/ v.kind = "whole" /\ v.n \in rule.numbers
Canonical(rule, v) ==
    IF v.kind = "blank" THEN rule.empty ELSE IF v.n \in rule.unset THEN {} ELSE {v}
OrElse(value, fallback) == IF value # {} THEN value ELSE fallback

(***************************************************************************)
(* A pipeline config.  `knobs` holds the run-time knobs it sets; `cron`,   *)
(* `every` (the always-on interval), `host`, `pause`, `group`, `postfix`   *)
(* and `retries` are optional values, sets of at most one.                 *)
(***************************************************************************)
\* A built-in default is the runner's: a knob the config omits stays unset.
FromConfig(c, k) == IF k \in DOMAIN c.knobs THEN Canonical(Validator[k], c.knobs[k]) ELSE {}
Retries(c) == UNION {Canonical(require_task_max_retries, v) : v \in c.retries}

IsStreaming(c) == FromConfig(c, "pipeline_mode") = {Streaming}
IsClassic(c) == c.compute \in {"job_cluster", "existing_cluster"}
AlwaysOnSound(c) ==
    c.every # {} => IsStreaming(c) /\ IsClassic(c) /\ c.cron = {} /\ Retries(c) = {}
PauseSound(c) == c.pause # {} => c.cron # {} \/ c.every # {} \/ c.group # {}
CreateSound(c) == FromConfig(c, "op_type") = {Create} => c.hasId

ValidConfig(c) ==
    /\ \A k \in DOMAIN c.knobs : Legal(Validator[k], c.knobs[k])
    /\ \A v \in c.retries : Legal(require_task_max_retries, v)
    /\ AlwaysOnSound(c) /\ PauseSound(c) /\ CreateSound(c)

(* job_parameters: the default of each parameter is the config's value; a  *)
(* knob it leaves unset gets a reference to the global, which the bundle   *)
(* resolves at deploy.                                                     *)
Baked(c) == [k \in {j \in DOMAIN c.knobs : FromConfig(c, j) # {}} |-> FromConfig(c, k)]

(***************************************************************************)
(* The connector the runner accepts.  A wheel is its version, the numbers  *)
(* of its release and which suffixes it carries, and its own defaults.     *)
(***************************************************************************)
MIN_CONNECTOR_VERSION == <<1, 0, 0>>
CONNECTOR_RETRY_BACKOFF_DEFAULTS == [retry_backoff_initial |-> Whole(2), retry_backoff_max |-> Whole(30)]

\* A release without its trailing zeros: 1.0.0.0 is 1.0.0.
Trimmed(release) ==
    SubSeq(release, 1, Cardinality({i \in DOMAIN release : \E j \in i..Len(release) : release[j] # 0}))
Before(s, t) ==
    \E k \in 1..Len(t) : /\ k <= Len(s) + 1
                         /\ \A i \in 1..(k - 1) : s[i] = t[i]
                         /\ (k <= Len(s) => s[k] < t[k])
IsMinimum(w) == Trimmed(w.release) = Trimmed(MIN_CONNECTOR_VERSION)
OldWheel(w) ==
    \/ ~w.recognized
    \/ Before(Trimmed(w.release), Trimmed(MIN_CONNECTOR_VERSION))
    \/ IsMinimum(w) /\ (w.pre \/ (w.dev /\ ~w.post))
DriftedWheel(w) ==
    \/ w.maxBackoff # CONNECTOR_MAX_RETRY_BACKOFF_SECONDS
    \/ w.defaults # CONNECTOR_RETRY_BACKOFF_DEFAULTS
=============================================================================
