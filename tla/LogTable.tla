------------------------------- MODULE LogTable -------------------------------
(***************************************************************************)
(* The monitoring table over builds that add columns and reword comments:  *)
(* the create job (log_table_migration.py), the prune job                  *)
(* (notebooks/log_table_prune.py), the builds that append, and others who  *)
(* create or alter the table.  Each job runs one at a time.                *)
(***************************************************************************)
EXTENDS Naturals

CONSTANTS SchemaOf,   \* build -> its MONITORING_TABLE_COLUMNS: column -> comment
          MaxRows

VARIABLES columns,   \* {} before the table exists; else {column -> comment}
          rows,      \* the rows in it, numbered
          appended,  \* how many there have been
          old,       \* those past the retention
          deployed_build, creator, pruner,
          touched    \* history: somebody else altered the table since the creator looked

logVars == <<columns, rows, appended, old, deployed_build, creator, pruner, touched>>

NoColumns == [c \in {} |-> "none"]
Builds == DOMAIN SchemaOf
LogInit ==
    /\ columns = {} /\ rows = {} /\ appended = 0 /\ old = {}
    /\ deployed_build = 1 /\ touched = FALSE
    /\ creator = [pc |-> "idle", build |-> 1, fields |-> NoColumns]
    /\ pruner = [pc |-> "idle", deletes |-> FALSE]

TableExists == columns # {}
Expected == SchemaOf[creator.build]
Creator(pc) == creator' = [creator EXCEPT !.pc = pc]
TableSame == UNCHANGED <<columns, rows, appended, old, deployed_build, pruner>>

(* create_or_migrate, statement by statement; each one may fail.           *)
StartCreate ==
    /\ creator.pc \in {"idle", "green", "red"}
    /\ creator' = [pc |-> IF TableExists THEN "create existing" ELSE "create new",
                   build |-> deployed_build, fields |-> NoColumns]
    /\ touched' = FALSE /\ TableSame
CreateTable ==
    /\ creator.pc \in {"create existing", "create new"}
    /\ columns' = IF TableExists THEN columns ELSE {Expected}
    /\ Creator(IF creator.pc = "create existing" THEN "read" ELSE "green")
    /\ UNCHANGED <<rows, appended, old, deployed_build, pruner, touched>>
ReadFields ==
    /\ creator.pc = "read"
    /\ \E fields \in columns : creator' = [creator EXCEPT !.pc = "add", !.fields = fields]
    /\ touched' = FALSE /\ TableSame
missing_columns == DOMAIN Expected \ DOMAIN creator.fields
MutChangedComments(fields) == {}
changed_comments(fields) ==
    {c \in DOMAIN Expected \cap DOMAIN creator.fields : fields[c] # Expected[c]}
AddColumns ==
    /\ creator.pc = "add" /\ Creator("comment")
    /\ \E have \in columns :
         /\ missing_columns \cap DOMAIN have = {}
         /\ columns' = {[c \in DOMAIN have \cup missing_columns |->
                           IF c \in missing_columns THEN Expected[c] ELSE have[c]]}
    /\ UNCHANGED <<rows, appended, old, deployed_build, pruner, touched>>
UpdateComment(c) ==
    /\ creator.pc = "comment" /\ c \in changed_comments(creator.fields)
    /\ \E have \in columns : c \in DOMAIN have /\ columns' = {[have EXCEPT ![c] = Expected[c]]}
    /\ creator' = [creator EXCEPT !.fields[c] = Expected[c]]
    /\ UNCHANGED <<rows, appended, old, deployed_build, pruner, touched>>
EndCreate ==
    /\ creator.pc = "comment" /\ changed_comments(creator.fields) = {}
    /\ Creator("green") /\ touched' = touched /\ TableSame
FailCreate ==
    /\ creator.pc \notin {"idle", "green", "red"}
    /\ Creator("red") /\ touched' = touched /\ TableSame

(* log_table_prune: the table must exist; retention 0 deletes nothing.     *)
StartPrune ==
    /\ pruner.pc \in {"idle", "green", "red"}
    /\ \E deletes \in BOOLEAN :
         pruner' = [pc |-> IF ~TableExists THEN "red" ELSE IF deletes THEN "delete" ELSE "optimize",
                    deletes |-> deletes]
    /\ UNCHANGED <<columns, rows, appended, old, deployed_build, creator, touched>>
DeleteOld ==
    /\ pruner.pc = "delete" /\ rows' = rows \ old
    /\ pruner' = [pruner EXCEPT !.pc = "optimize"]
    /\ UNCHANGED <<columns, appended, old, deployed_build, creator, touched>>
\* OPTIMIZE, then VACUUM: no row and no column changes.
Maintain ==
    /\ pruner.pc \in {"optimize", "vacuum"}
    /\ pruner' = [pruner EXCEPT !.pc = IF @ = "optimize" THEN "vacuum" ELSE "green"]
    /\ UNCHANGED <<columns, rows, appended, old, deployed_build, creator, touched>>
FailPrune ==
    /\ pruner.pc \in {"delete", "optimize", "vacuum"} /\ pruner' = [pruner EXCEPT !.pc = "red"]
    /\ UNCHANGED <<columns, rows, appended, old, deployed_build, creator, touched>>

(* An append of the deployed build: refused when it lacks a column.        *)
AcceptsAppends(b) == \E have \in columns : DOMAIN SchemaOf[b] \subseteq DOMAIN have
AppendRow ==
    /\ AcceptsAppends(deployed_build) /\ appended < MaxRows
    /\ appended' = appended + 1 /\ rows' = rows \cup {appended + 1}
    /\ UNCHANGED <<columns, old, deployed_build, creator, pruner, touched>>
AgeRow(n) ==
    /\ n \in 1..appended /\ (1..n) \subseteq old \cup {n} /\ old' = old \cup {n}
    /\ UNCHANGED <<columns, rows, appended, deployed_build, creator, pruner, touched>>
DeployBuild ==
    /\ deployed_build + 1 \in Builds /\ deployed_build' = deployed_build + 1
    /\ UNCHANGED <<columns, rows, appended, old, creator, pruner, touched>>

(* Another deployment, of any build, creates the table or adds columns;    *)
(* somebody drops a column.                                                *)
OthersAlter ==
    /\ touched' = TRUE
    /\ \/ \E b \in Builds : columns = {} /\ columns' = {SchemaOf[b]}
       \/ \E have \in columns, b \in Builds :
            columns' = {[c \in DOMAIN have \cup DOMAIN SchemaOf[b] |->
                           IF c \in DOMAIN have THEN have[c] ELSE SchemaOf[b][c]]}
       \/ \E have \in columns : \E gone \in DOMAIN have :
            columns' = {[c \in DOMAIN have \ {gone} |-> have[c]]}
    /\ UNCHANGED <<rows, appended, old, deployed_build, creator, pruner>>

LogNext ==
    \/ StartCreate \/ CreateTable \/ ReadFields \/ AddColumns
    \/ \E c \in UNION {DOMAIN SchemaOf[b] : b \in Builds} : UpdateComment(c)
    \/ EndCreate \/ FailCreate
    \/ StartPrune \/ DeleteOld \/ Maintain \/ FailPrune
    \/ AppendRow \/ \E n \in 1..MaxRows : AgeRow(n)
    \/ DeployBuild \/ OthersAlter

-----------------------------------------------------------------------------
(* A create job that ends well leaves the table with every column and      *)
(* comment of its build, wherever earlier runs of it stopped half-way, so  *)
(* that appends of that build are accepted, unless another deployment      *)
(* altered the table after it looked; and no job of the table ever takes   *)
(* a row that is not past the retention.                                   *)
LogTableIsSound ==
    /\ creator.pc = "green" /\ ~touched =>
         \E have \in columns : \A c \in DOMAIN Expected : c \in DOMAIN have /\ have[c] = Expected[c]
    /\ (1..appended) \ old \subseteq rows
=============================================================================
