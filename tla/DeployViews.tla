----------------------------- MODULE DeployViews ------------------------------
(***************************************************************************)
(* notebooks/deploy_views.py: runs of several developers, each from its    *)
(* own checkout, against one workspace whose schemas have owners.  In      *)
(* per-user mode a view goes to <view schema>_<user>, a plain              *)
(* concatenation that may be anybody's schema.                             *)
(***************************************************************************)
EXTENDS Naturals, Functions, FiniteSetsExt

CONSTANTS Deploys,      \* runs of the job
          Identities,   \* who may own a schema
          UserName,     \* identity -> its legal short name, as a set of at most one
          Suffixed,     \* <<schema, user>> -> the schema named so; {}: no legal name
          Schemas,
          Setups,       \* run -> the deployments it may be of: who, per user or not, the configs
          Sql,          \* view -> the aliases its .sql uses and the columns it returns
          Requests      \* what the `views` parameter may name; {}: all

ASSUME SqlAssumption == DOMAIN Sql \subseteq Nat   \* views go in the order of their names
ASSUME SetupsAssumption ==   \* Schemas has every schema a view may go to
    \A r \in Deploys : \A t \in Setups[r] : \A l \in DOMAIN t.feeds :
        IF t.perUser THEN UNION {Suffixed[<<t.feeds[l].schema, u>>] : u \in UserName[t.me]} \subseteq Schemas
        ELSE t.feeds[l].schema \in Schemas

(* A config: its view, the schemas of the view, the source and the         *)
(* reference tables (by alias), its _id column if any, and whether its     *)
(* names resolve in this environment.                                      *)

VARIABLES owner,    \* schema -> its owner, as a set of at most one
          placed,   \* <<schema, view>> -> what CREATE OR REPLACE VIEW left there
          deploy    \* run -> its state

viewVars == <<owner, placed, deploy>>

Feed(r, l) == deploy[r].feeds[l]
Sharers(r, v) == {l \in DOMAIN deploy[r].feeds : Feed(r, l).view = v}
PerUser(r) == deploy[r].perUser
User(r) == UserName[deploy[r].me]

(* apply_view_schema_user and view_substitutions.                          *)
Home(r, l) == IF PerUser(r) THEN UNION {Suffixed[<<Feed(r, l).schema, u>>] : u \in User(r)}
              ELSE {Feed(r, l).schema}
Resolved(r, l) == Feed(r, l).resolves
Renders(r, l) == Resolved(r, l) /\ Home(r, l) # {}
Definition(r, l) == [view |-> Home(r, l), source |-> Feed(r, l).source, refs |-> Feed(r, l).refs]
shared_view_conflict(r, v) == \E l, m \in Sharers(r, v) : Definition(r, l) # Definition(r, m)

(* _per_user_schema_scan and per_user_preflight_problem.                   *)
ConfiguredSchemas(r) ==
    UNION {{Feed(r, l).schema, Feed(r, l).source} \cup Range(Feed(r, l).refs) :
             l \in {x \in DOMAIN deploy[r].feeds : Resolved(r, x)}}
Collides(r) == \E l \in DOMAIN deploy[r].feeds : Resolved(r, l) /\ Home(r, l) \cap ConfiguredSchemas(r) # {}
Unchecked(r, selected) == {l \in DOMAIN deploy[r].feeds : ~Renders(r, l) /\ Feed(r, l).view \notin selected}
PreflightProblem(r, selected) == PerUser(r) /\ (Unchecked(r, selected) # {} \/ Collides(r))

Unpaired(r) == DOMAIN Sql # {Feed(r, l).view : l \in DOMAIN deploy[r].feeds}
select_views(request) == IF request = {} THEN DOMAIN Sql ELSE request \cap DOMAIN Sql
Unknown(request) == request \ DOMAIN Sql

-----------------------------------------------------------------------------
Fresh(setup) ==
    [pc |-> "idle", me |-> setup.me, perUser |-> setup.perUser, feeds |-> setup.feeds, todo |-> {},
     selected |-> {}, checked |-> {}, created |-> {}, failed |-> {}]

\* An empty workspace; others create what a run finds there.
ViewsInit ==
    /\ owner = [s \in Schemas |-> {}]
    /\ placed = [at \in Schemas \X DOMAIN Sql |-> {}]
    /\ deploy \in {d \in [Deploys -> UNION {{Fresh(t) : t \in Setups[r]} : r \in Deploys}] :
                    \A r \in Deploys : \E t \in Setups[r] : d[r] = Fresh(t)}

Set(r, new) == deploy' = [deploy EXCEPT ![r] = new]
OneOf(S) == CHOOSE x \in S : TRUE
View(r) == Min(deploy[r].todo)
Label(r) == OneOf(Sharers(r, View(r)))
Schema(r) == OneOf(Home(r, Label(r)))
Step(r, from, to) == deploy[r].pc = from /\ Set(r, [deploy[r] EXCEPT !.pc = to])
\* The view's own try block: any error fails this view and goes on to the next.
ViewFails(r) == Set(r, [deploy[r] EXCEPT !.pc = "views", !.failed = @ \cup {View(r)}, !.todo = @ \ {View(r)}])

StartDeploy(r) ==
    /\ deploy[r].pc = "idle"
    /\ \E request \in Requests :
         LET selected == select_views(request) IN
         IF \/ PerUser(r) /\ User(r) = {}
            \/ Unpaired(r) \/ Unknown(request) # {} \/ PreflightProblem(r, selected)
         THEN Set(r, [deploy[r] EXCEPT !.pc = "red"])
         ELSE Set(r, [deploy[r] EXCEPT !.pc = "views", !.todo = selected, !.selected = selected])
    /\ UNCHANGED <<owner, placed>>

PrepareView(r) ==
    /\ deploy[r].pc = "views" /\ deploy[r].todo # {}
    /\ IF \/ \E l \in Sharers(r, View(r)) : ~Renders(r, l)
          \/ shared_view_conflict(r, View(r))
          \/ ~(Sql[View(r)].uses \subseteq DOMAIN Feed(r, Label(r)).refs)
       THEN ViewFails(r)
       ELSE Step(r, "views", IF PerUser(r) /\ Schema(r) \notin deploy[r].checked THEN "before" ELSE "place")
    /\ UNCHANGED <<owner, placed>>

(* ensure_per_user_schema: describe, create if not exists, describe again; *)
(* a describe may fail, which is never taken for "not there".              *)
SchemaBefore(r) ==
    /\ deploy[r].pc = "before"
    /\ \/ owner[Schema(r)] \subseteq {deploy[r].me} /\ Step(r, "before", "create")
       \/ ViewFails(r)
    /\ UNCHANGED <<owner, placed>>
CreateSchema(r) ==
    /\ deploy[r].pc = "create"
    /\ \/ /\ owner' = [owner EXCEPT ![Schema(r)] = IF @ = {} THEN {deploy[r].me} ELSE @]
          /\ Step(r, "create", "after")
       \/ ViewFails(r) /\ owner' = owner
    /\ UNCHANGED placed
MutSchemaAfter(r) ==
    /\ deploy[r].pc = "after"
    /\ Set(r, [deploy[r] EXCEPT !.pc = "place", !.checked = @ \cup {Schema(r)}])
    /\ UNCHANGED <<owner, placed>>
SchemaAfter(r) ==
    /\ deploy[r].pc = "after"
    /\ \/ /\ owner[Schema(r)] = {deploy[r].me}
          /\ Set(r, [deploy[r] EXCEPT !.pc = "place", !.checked = @ \cup {Schema(r)}])
       \/ ViewFails(r)
    /\ UNCHANGED <<owner, placed>>

PlaceView(r) ==
    /\ deploy[r].pc = "place"
    /\ \/ /\ owner[Schema(r)] # {}
          /\ placed' = [placed EXCEPT ![<<Schema(r), View(r)>>] =
                          {[by |-> r, definition |-> Definition(r, Label(r))]}]
          /\ Step(r, "place", "verify")
       \/ ViewFails(r) /\ placed' = placed
    /\ UNCHANGED owner

(* Every sharer's _id column must be a column of the view just placed.     *)
MutIdFields(r) == Feed(r, Label(r)).id
IdFields(r) == UNION {Feed(r, l).id : l \in Sharers(r, View(r))}
VerifyView(r) ==
    /\ deploy[r].pc = "verify"
    /\ \/ /\ IdFields(r) \subseteq Sql[View(r)].columns
          /\ Set(r, [deploy[r] EXCEPT !.pc = "views", !.created = @ \cup {View(r)}, !.todo = @ \ {View(r)}])
       \/ IdFields(r) # {} /\ ViewFails(r)
    /\ UNCHANGED <<owner, placed>>
EndDeploy(r) ==
    /\ deploy[r].pc = "views" /\ deploy[r].todo = {}
    /\ Step(r, "views", IF deploy[r].failed = {} THEN "green" ELSE "red")
    /\ UNCHANGED <<owner, placed>>

(* Others may create a schema at any time.                                 *)
OthersCreate(s) ==
    /\ owner[s] = {} /\ \E i \in Identities : owner' = [owner EXCEPT ![s] = {i}]
    /\ UNCHANGED <<placed, deploy>>

ViewsNext ==
    \/ \E r \in Deploys :
         \/ StartDeploy(r) \/ PrepareView(r) \/ SchemaBefore(r) \/ CreateSchema(r) \/ SchemaAfter(r)
         \/ PlaceView(r) \/ VerifyView(r) \/ EndDeploy(r)
    \/ \E s \in Schemas : OthersCreate(s)

-----------------------------------------------------------------------------
(* A per-user run puts a view only into a schema that its own identity     *)
(* owns and that no config of its checkout names, whoever creates schemas  *)
(* in between and whichever views share one (ensure_per_user_schema and    *)
(* its cache, per_user_preflight_problem).                                 *)
ViewsStayHome ==
    \A at \in DOMAIN placed : \A p \in placed[at] :
        PerUser(p.by) => owner[at[1]] = {deploy[p.by].me} /\ at[1] \notin ConfiguredSchemas(p.by)

(* One view's failure stops no other, and no partial deploy is green: each *)
(* requested view ends in exactly one list, and after a green run each is  *)
(* in place, with every sharer's _id column, and unless another run        *)
(* replaced it, with the definition all its sharers agree on.              *)
ViewRunIsComplete ==
    \A r \in Deploys :
        /\ deploy[r].pc \in {"green", "red"} =>
             /\ deploy[r].created \cap deploy[r].failed = {}
             /\ deploy[r].created \cup deploy[r].failed = deploy[r].selected
        /\ deploy[r].pc = "green" =>
             \A v \in deploy[r].selected : \A l \in Sharers(r, v) : \E s \in Home(r, l) :
                 /\ placed[<<s, v>>] # {} /\ Feed(r, l).id \subseteq Sql[v].columns
                 /\ \A p \in placed[<<s, v>>] : p.by = r => p.definition = Definition(r, l)
=============================================================================
