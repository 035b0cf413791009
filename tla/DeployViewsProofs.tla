-------------------------- MODULE DeployViewsProofs ---------------------------
(***************************************************************************)
(* What view deployment keeps, for every set of runs, checkouts and views  *)
(* and whoever creates schemas in between.                                 *)
(***************************************************************************)
EXTENDS DeployViews, TLAPS, WellFoundedInduction

(* Views are taken in order: every set of them has a first one.            *)
LEMMA FirstView ==
    ASSUME NEW S, S \subseteq DOMAIN Sql, S # {}
    PROVE  Min(S) \in S
<1>1. S \subseteq Nat
  BY SqlAssumption
<1>2. \E x \in S : \A y \in S : ~(<<y, x>> \in OpToRel(<, Nat))
  BY <1>1, WFMin, NatLessThanWellFounded
<1>3. \E x \in S : \A y \in S : ~(<<y, x>> \in {ss \in Nat \X Nat : ss[1] < ss[2]})
  BY <1>2 DEF OpToRel
<1>4. \E x \in S : \A y \in S : x =< y
  <2>1. PICK x \in S : \A y \in S : ~(<<y, x>> \in {ss \in Nat \X Nat : ss[1] < ss[2]})
    BY <1>3
  <2>2. ASSUME NEW y \in S
        PROVE  x =< y
    <3>1. x \in Nat /\ y \in Nat /\ <<y, x>> \in Nat \X Nat
      BY <1>1
    <3>2. ~(y < x)
      BY <2>1, <3>1
    <3> QED
      BY <3>1, <3>2
  <2> QED
    BY <2>2
<1> QED
  BY <1>4 DEF Min

Placing == {"before", "create", "after", "place", "verify"}

ViewTypes ==
    /\ DOMAIN owner = Schemas /\ DOMAIN placed = Schemas \X DOMAIN Sql /\ DOMAIN deploy = Deploys
    /\ \A r \in Deploys :
         DOMAIN deploy[r] = {"pc", "me", "perUser", "feeds", "todo", "selected", "checked", "created", "failed"}

(* What a run has established when it comes to place a view.               *)
RunInv(r) ==
    /\ deploy[r].todo \subseteq DOMAIN Sql
    /\ deploy[r].pc \in {"views", "green"} \cup Placing => ~Unpaired(r) /\ (PerUser(r) => ~Collides(r))
    /\ deploy[r].pc \in Placing =>
         /\ Label(r) \in DOMAIN deploy[r].feeds /\ Resolved(r, Label(r)) /\ Schema(r) \in Home(r, Label(r))
    /\ deploy[r].pc \in {"place", "verify"} /\ PerUser(r) => Schema(r) \in deploy[r].checked
    /\ \A s \in deploy[r].checked \cap Schemas : owner[s] = {deploy[r].me}

PlacedInv == \A at \in DOMAIN placed : \A p \in placed[at] : p.by \in Deploys

ViewsInv == ViewTypes /\ (\A r \in Deploys : RunInv(r)) /\ PlacedInv /\ ViewsStayHome

(* Before the first deploy nothing is placed and every run is idle. *)
LEMMA ViewsInvInit == ViewsInit => ViewsInv
<1> SUFFICES ASSUME ViewsInit
             PROVE  ViewsInv
  OBVIOUS
<1>1. \A r \in Deploys : \E t : deploy[r] = Fresh(t)
  BY DEF ViewsInit
<1>2. ViewTypes
  BY DEF ViewsInit, ViewTypes, Fresh
<1>3. \A r \in Deploys : RunInv(r)
  <2>1. SUFFICES ASSUME NEW r \in Deploys
                 PROVE  RunInv(r)
    OBVIOUS
  <2>2. PICK t : deploy[r] = Fresh(t)
    BY <1>1
  <2>3. deploy[r].pc = "idle" /\ deploy[r].todo = {} /\ deploy[r].checked = {}
    BY <2>2 DEF Fresh
  <2> QED
    BY <2>3 DEF RunInv, Placing
<1>4. PlacedInv /\ ViewsStayHome
  BY DEF ViewsInit, PlacedInv, ViewsStayHome
<1> QED
  BY <1>2, <1>3, <1>4 DEF ViewsInv

(* Whose run it is, and over which configs, never changes.                 *)
SettingsKept(r) ==
    /\ deploy'[r].me = deploy[r].me /\ deploy'[r].perUser = deploy[r].perUser
    /\ deploy'[r].feeds = deploy[r].feeds

(* The two ways in which a run moves within its loop over the views.       *)
LEMMA RunSteps ==
    ASSUME ViewTypes, NEW q \in Deploys, NEW from, NEW to
    PROVE  /\ Step(q, from, to) =>
                /\ \A r \in Deploys : r # q => deploy'[r] = deploy[r]
                /\ DOMAIN deploy' = Deploys /\ DOMAIN deploy'[q] = DOMAIN deploy[q] /\ SettingsKept(q)
                /\ deploy[q].pc = from /\ deploy'[q].pc = to
                /\ deploy'[q].todo = deploy[q].todo /\ deploy'[q].checked = deploy[q].checked
           /\ ViewFails(q) =>
                /\ \A r \in Deploys : r # q => deploy'[r] = deploy[r]
                /\ DOMAIN deploy' = Deploys /\ DOMAIN deploy'[q] = DOMAIN deploy[q] /\ SettingsKept(q)
                /\ deploy'[q].pc = "views"
                /\ deploy'[q].todo \subseteq deploy[q].todo /\ deploy'[q].checked = deploy[q].checked
BY DEF ViewTypes, Step, ViewFails, Set, SettingsKept

(* A step that keeps a run's identity and configs keeps everything derived  *)
(* from them.                                                               *)
LEMMA SameSettings ==
    ASSUME NEW r, SettingsKept(r)
    PROVE  /\ deploy'[r].me = deploy[r].me /\ deploy'[r].feeds = deploy[r].feeds
           /\ PerUser(r)' = PerUser(r)
           /\ \A l : Feed(r, l)' = Feed(r, l) /\ (Resolved(r, l)' <=> Resolved(r, l)) /\ Home(r, l)' = Home(r, l)
           /\ \A v : Sharers(r, v)' = Sharers(r, v)
           /\ ConfiguredSchemas(r)' = ConfiguredSchemas(r)
           /\ (Collides(r)' <=> Collides(r)) /\ (Unpaired(r)' <=> Unpaired(r))
<1>1. deploy'[r].me = deploy[r].me /\ deploy'[r].feeds = deploy[r].feeds /\ PerUser(r)' = PerUser(r)
  BY DEF SettingsKept, PerUser
<1>2. \A l : Feed(r, l)' = Feed(r, l)
  BY <1>1 DEF Feed
<1>3. \A l : Resolved(r, l)' <=> Resolved(r, l)
  BY <1>2 DEF Resolved
<1>4. ASSUME NEW l
      PROVE  Home(r, l)' = Home(r, l)
  <2>1. User(r)' = User(r) /\ Feed(r, l)' = Feed(r, l)
    BY <1>1, <1>2 DEF User
  <2>2. (PerUser(r) /\ PerUser(r)') \/ (~PerUser(r) /\ ~PerUser(r)')
    BY <1>1
  <2> QED
    BY <2>1, <2>2 DEF Home
<1>5. \A v : Sharers(r, v)' = Sharers(r, v)
  BY <1>1, <1>2 DEF Sharers
<1>6. ConfiguredSchemas(r)' = ConfiguredSchemas(r)
  BY <1>1, <1>2, <1>3 DEF ConfiguredSchemas
<1>7. Collides(r)' <=> Collides(r)
  BY <1>1, <1>3, <1>4, <1>6 DEF Collides
<1>8. Unpaired(r)' <=> Unpaired(r)
  BY <1>1, <1>2 DEF Unpaired
<1> QED
  BY <1>1, <1>2, <1>3, <1>4, <1>5, <1>6, <1>7, <1>8

(* A step that also keeps what is left to do keeps the view at hand, its    *)
(* label and its schema.                                                    *)
LEMMA SamePlan ==
    ASSUME NEW r, SettingsKept(r), deploy'[r].todo = deploy[r].todo
    PROVE  View(r)' = View(r) /\ Label(r)' = Label(r) /\ Schema(r)' = Schema(r)
<1>1. View(r)' = View(r)
  BY DEF View
<1>2. Label(r)' = Label(r)
  BY <1>1, SameSettings DEF Label
<1> QED
  BY <1>1, <1>2, SameSettings DEF Schema

OwnersStay == \A s \in Schemas : owner[s] # {} => owner'[s] = owner[s]

(* What a run has established outlives a step that changes no more than    *)
(* its place in the loop, its own step or another's.                       *)
LEMMA RunMoves ==
    ASSUME NEW r \in Deploys, RunInv(r), SettingsKept(r), OwnersStay,
           deploy'[r].checked = deploy[r].checked,
           \/ deploy'[r].todo = deploy[r].todo /\ deploy'[r].pc = deploy[r].pc
           \/ /\ deploy'[r].todo = deploy[r].todo /\ {deploy[r].pc, deploy'[r].pc} \subseteq Placing
              /\ deploy'[r].pc \in {"place", "verify"} => deploy[r].pc \in {"place", "verify"}
           \/ /\ deploy'[r].todo \subseteq deploy[r].todo /\ deploy[r].pc \in {"views"} \cup Placing
              /\ deploy'[r].pc \in {"views", "green", "red"}
    PROVE  RunInv(r)'
<1>1. \A s \in deploy'[r].checked \cap Schemas : owner'[s] = {deploy'[r].me}
  BY DEF RunInv, OwnersStay, SettingsKept
<1>2. deploy'[r].pc \in {"views", "green"} \cup Placing => ~Unpaired(r)' /\ (PerUser(r)' => ~Collides(r)')
  BY SameSettings DEF RunInv
<1>3. CASE deploy'[r].todo = deploy[r].todo /\ deploy[r].pc \in Placing
  <2>1. Label(r)' = Label(r) /\ Schema(r)' = Schema(r)
    BY <1>3, SamePlan
  <2>2. deploy'[r].pc \in Placing =>
          /\ Label(r)' \in DOMAIN deploy'[r].feeds /\ Resolved(r, Label(r))' /\ Schema(r)' \in Home(r, Label(r))'
    BY <2>1, SameSettings DEF RunInv, Placing
  <2>3. deploy'[r].pc \in {"place", "verify"} /\ PerUser(r)' => Schema(r)' \in deploy'[r].checked
    BY <2>1, SameSettings DEF RunInv
  <2> QED
    BY <1>1, <1>2, <2>2, <2>3 DEF RunInv
<1>4. CASE deploy'[r].pc \notin Placing
  BY <1>1, <1>2, <1>4 DEF RunInv, Placing
<1> QED
  BY <1>3, <1>4 DEF Placing

(* What a step of run q preserves: q's own invariant, its settings, the    *)
(* owners, and everything of the other runs.                               *)
StepKeeps(q) ==
    /\ \A r \in Deploys : r # q => deploy'[r] = deploy[r]
    /\ DOMAIN deploy' = Deploys /\ DOMAIN deploy'[q] = DOMAIN deploy[q]
    /\ DOMAIN owner' = Schemas /\ OwnersStay
    /\ SettingsKept(q) /\ RunInv(q)'

(* The start of a deploy keeps what its run has established. *)
LEMMA StartKeeps ==
    ASSUME ViewTypes, NEW q \in Deploys, RunInv(q), StartDeploy(q)
    PROVE  StepKeeps(q)
<1>1. PICK request \in Requests :
        LET selected == select_views(request) IN
        IF \/ PerUser(q) /\ User(q) = {}
           \/ Unpaired(q) \/ Unknown(request) # {} \/ PreflightProblem(q, selected)
        THEN Set(q, [deploy[q] EXCEPT !.pc = "red"])
        ELSE Set(q, [deploy[q] EXCEPT !.pc = "views", !.todo = selected, !.selected = selected])
  BY DEF StartDeploy
<1>2. owner' = owner /\ OwnersStay /\ DOMAIN owner' = Schemas
  BY DEF StartDeploy, OwnersStay, ViewTypes
<1>3. CASE Set(q, [deploy[q] EXCEPT !.pc = "red"])
  <2>1. /\ deploy'[q].pc = "red" /\ deploy'[q].todo = deploy[q].todo /\ deploy'[q].checked = deploy[q].checked
        /\ DOMAIN deploy' = Deploys /\ DOMAIN deploy'[q] = DOMAIN deploy[q] /\ SettingsKept(q)
        /\ \A r \in Deploys : r # q => deploy'[r] = deploy[r]
    BY <1>3 DEF Set, ViewTypes, SettingsKept
  <2>2. RunInv(q)'
    BY <1>2, <2>1 DEF RunInv, Placing, SettingsKept
  <2> QED
    BY <1>2, <2>1, <2>2 DEF StepKeeps
<1>4. ASSUME ~Unpaired(q), PerUser(q) => ~Collides(q),
             Set(q, [deploy[q] EXCEPT !.pc = "views", !.todo = select_views(request), !.selected = select_views(request)])
      PROVE  StepKeeps(q)
  <2>1. /\ deploy'[q].pc = "views" /\ deploy'[q].todo = select_views(request) /\ deploy'[q].checked = deploy[q].checked
        /\ DOMAIN deploy' = Deploys /\ DOMAIN deploy'[q] = DOMAIN deploy[q] /\ SettingsKept(q)
        /\ \A r \in Deploys : r # q => deploy'[r] = deploy[r]
    BY <1>4 DEF Set, ViewTypes, SettingsKept
  <2>2. select_views(request) \subseteq DOMAIN Sql
    BY DEF select_views
  <2>3. ~Unpaired(q)' /\ (PerUser(q)' => ~Collides(q)')
    BY <1>4, <2>1, SameSettings
  <2>4. RunInv(q)'
    BY <1>2, <2>1, <2>2, <2>3 DEF RunInv, Placing, SettingsKept
  <2> QED
    BY <1>2, <2>1, <2>4 DEF StepKeeps
<1> QED
  BY <1>1, <1>3, <1>4 DEF PreflightProblem

(* So does the preparation of a view, which counts as checked only a schema *)
(* of the run's own.                                                        *)
LEMMA PrepareKeeps ==
    ASSUME ViewTypes, NEW q \in Deploys, RunInv(q), PrepareView(q)
    PROVE  StepKeeps(q)
<1>1. owner' = owner /\ OwnersStay /\ DOMAIN owner' = Schemas
  BY DEF PrepareView, OwnersStay, ViewTypes
<1>2. deploy[q].pc = "views" /\ deploy[q].todo # {}
  BY DEF PrepareView
<1>3. CASE ViewFails(q)
  <2>1. RunInv(q)'
    BY <1>1, <1>2, <1>3, RunSteps, RunMoves
  <2> QED
    BY <1>1, <1>3, <2>1, RunSteps DEF StepKeeps
<1>4. ASSUME \A l \in Sharers(q, View(q)) : Renders(q, l),
             NEW to \in {"before", "place"},
             to = "place" /\ PerUser(q) => Schema(q) \in deploy[q].checked,
             Step(q, "views", to)
      PROVE  StepKeeps(q)
  <2>1. View(q) \in DOMAIN Sql
    BY <1>2, FirstView DEF RunInv, View
  <2>2. Sharers(q, View(q)) # {}
    BY <1>2, <2>1 DEF RunInv, Unpaired, Sharers
  <2>3. Label(q) \in Sharers(q, View(q))
    BY <2>2 DEF Label, OneOf
  <2>4. Label(q) \in DOMAIN deploy[q].feeds /\ Resolved(q, Label(q)) /\ Schema(q) \in Home(q, Label(q))
    BY <1>4, <2>3 DEF Sharers, Renders, Schema, OneOf
  <2>5. Label(q)' = Label(q) /\ Schema(q)' = Schema(q)
    BY <1>4, RunSteps, SamePlan
  <2>6. /\ Label(q)' \in DOMAIN deploy'[q].feeds /\ Resolved(q, Label(q))' /\ Schema(q)' \in Home(q, Label(q))'
        /\ deploy'[q].pc = "place" /\ PerUser(q)' => Schema(q)' \in deploy'[q].checked
    BY <1>4, <2>4, <2>5, RunSteps, SameSettings
  <2>7. ~Unpaired(q)' /\ (PerUser(q)' => ~Collides(q)')
    BY <1>4, RunSteps, SameSettings DEF RunInv
  <2>8. RunInv(q)'
    BY <1>1, <1>4, <2>6, <2>7, RunSteps DEF RunInv, SettingsKept
  <2> QED
    BY <1>1, <1>4, <2>8, RunSteps DEF StepKeeps
<1> QED
  BY <1>3, <1>4 DEF PrepareView

(* So do the steps that look for, create and look again at the schema. *)
LEMMA SchemaStepsKeep ==
    ASSUME ViewTypes, NEW q \in Deploys, RunInv(q), SchemaBefore(q) \/ CreateSchema(q) \/ SchemaAfter(q)
    PROVE  StepKeeps(q)
<1>1. OwnersStay /\ DOMAIN owner' = Schemas
  BY DEF SchemaBefore, CreateSchema, SchemaAfter, OwnersStay, ViewTypes
<1>2. deploy[q].pc \in Placing
  BY DEF SchemaBefore, CreateSchema, SchemaAfter, Placing
<1>3. CASE ViewFails(q)
  <2>1. RunInv(q)'
    BY <1>1, <1>2, <1>3, RunSteps, RunMoves
  <2> QED
    BY <1>1, <1>3, <2>1, RunSteps DEF StepKeeps
<1>4. CASE Step(q, "before", "create") \/ Step(q, "create", "after")
  <2>1. /\ deploy'[q].todo = deploy[q].todo /\ deploy'[q].checked = deploy[q].checked /\ SettingsKept(q)
        /\ {deploy[q].pc, deploy'[q].pc} \subseteq Placing /\ deploy'[q].pc \notin {"place", "verify"}
    BY <1>4, RunSteps DEF Placing
  <2>2. RunInv(q)'
    BY <1>1, <2>1, RunMoves
  <2> QED
    BY <1>1, <1>4, <2>2, RunSteps DEF StepKeeps
<1>5. CASE /\ SchemaAfter(q) /\ owner[Schema(q)] = {deploy[q].me}
           /\ Set(q, [deploy[q] EXCEPT !.pc = "place", !.checked = @ \cup {Schema(q)}])
  <2>1. /\ deploy'[q].pc = "place" /\ deploy'[q].todo = deploy[q].todo
        /\ deploy'[q].checked = deploy[q].checked \cup {Schema(q)}
        /\ DOMAIN deploy' = Deploys /\ DOMAIN deploy'[q] = DOMAIN deploy[q] /\ SettingsKept(q)
        /\ \A r \in Deploys : r # q => deploy'[r] = deploy[r]
    BY <1>5 DEF Set, ViewTypes, SettingsKept
  <2>2. Label(q)' = Label(q) /\ Schema(q)' = Schema(q)
    BY <2>1, SamePlan
  <2>3. Label(q)' \in DOMAIN deploy'[q].feeds /\ Resolved(q, Label(q))' /\ Schema(q)' \in Home(q, Label(q))'
    BY <1>2, <2>1, <2>2, SameSettings DEF RunInv
  <2>4. ~Unpaired(q)' /\ (PerUser(q)' => ~Collides(q)')
    BY <1>2, <2>1, SameSettings DEF RunInv
  <2>5. \A s \in deploy'[q].checked \cap Schemas : owner'[s] = {deploy'[q].me}
    BY <1>5, <2>1 DEF RunInv, SchemaAfter, SettingsKept
  <2>6. RunInv(q)'
    BY <2>1, <2>2, <2>3, <2>4, <2>5 DEF RunInv
  <2> QED
    BY <1>1, <2>1, <2>6 DEF StepKeeps
<1> QED
  BY <1>3, <1>4, <1>5 DEF SchemaBefore, CreateSchema, SchemaAfter

(* So do the steps that place and verify the view and end the run. *)
LEMMA PlaceStepsKeep ==
    ASSUME ViewTypes, NEW q \in Deploys, RunInv(q), PlaceView(q) \/ VerifyView(q) \/ EndDeploy(q)
    PROVE  StepKeeps(q)
<1>1. OwnersStay /\ DOMAIN owner' = Schemas
  BY DEF PlaceView, VerifyView, EndDeploy, OwnersStay, ViewTypes
<1>2. deploy[q].pc \in {"views"} \cup Placing
  BY DEF PlaceView, VerifyView, EndDeploy, Placing
<1>3. CASE ViewFails(q)
  <2>1. RunInv(q)'
    BY <1>1, <1>2, <1>3, RunSteps, RunMoves
  <2> QED
    BY <1>1, <1>3, <2>1, RunSteps DEF StepKeeps
<1>4. CASE Step(q, "place", "verify") \/ Step(q, "views", "green") \/ Step(q, "views", "red")
  <2>1. /\ deploy'[q].todo = deploy[q].todo /\ deploy'[q].checked = deploy[q].checked /\ SettingsKept(q)
        /\ \/ deploy[q].pc = "place" /\ deploy'[q].pc = "verify"
           \/ deploy[q].pc = "views" /\ deploy'[q].pc \in {"green", "red"}
    BY <1>4, RunSteps
  <2>2. RunInv(q)'
    BY <1>1, <2>1, RunMoves DEF Placing
  <2> QED
    BY <1>1, <1>4, <2>2, RunSteps DEF StepKeeps
<1>5. CASE Set(q, [deploy[q] EXCEPT !.pc = "views", !.created = @ \cup {View(q)}, !.todo = @ \ {View(q)}])
  <2>1. /\ deploy'[q].pc = "views" /\ deploy'[q].todo \subseteq deploy[q].todo
        /\ deploy'[q].checked = deploy[q].checked
        /\ DOMAIN deploy' = Deploys /\ DOMAIN deploy'[q] = DOMAIN deploy[q] /\ SettingsKept(q)
        /\ \A r \in Deploys : r # q => deploy'[r] = deploy[r]
    BY <1>5 DEF Set, ViewTypes, SettingsKept
  <2>2. RunInv(q)'
    BY <1>1, <1>2, <2>1, RunMoves
  <2> QED
    BY <1>1, <2>1, <2>2 DEF StepKeeps
<1> QED
  BY <1>3, <1>4, <1>5 DEF PlaceView, VerifyView, EndDeploy

(* What every step preserves, of every run.                                *)
LEMMA EveryStepKeeps ==
    ASSUME ViewTypes, \A r \in Deploys : RunInv(r), [ViewsNext]_viewVars
    PROVE  /\ DOMAIN deploy' = Deploys /\ DOMAIN owner' = Schemas /\ OwnersStay
           /\ \A r \in Deploys : RunInv(r)' /\ SettingsKept(r) /\ DOMAIN deploy'[r] = DOMAIN deploy[r]
<1>1. ASSUME NEW q \in Deploys, StepKeeps(q)
      PROVE  /\ DOMAIN deploy' = Deploys /\ DOMAIN owner' = Schemas /\ OwnersStay
             /\ \A r \in Deploys : RunInv(r)' /\ SettingsKept(r) /\ DOMAIN deploy'[r] = DOMAIN deploy[r]
  <2>1. ASSUME NEW r \in Deploys, r # q
        PROVE  RunInv(r)' /\ SettingsKept(r) /\ DOMAIN deploy'[r] = DOMAIN deploy[r]
    <3>1. deploy'[r] = deploy[r] /\ OwnersStay
      BY <1>1, <2>1 DEF StepKeeps
    <3>2. SettingsKept(r)
      BY <3>1 DEF SettingsKept
    <3> QED
      BY <3>1, <3>2, RunMoves
  <2> QED
    BY <1>1, <2>1 DEF StepKeeps
<1>2. CASE (\E s \in Schemas : OthersCreate(s)) \/ UNCHANGED viewVars
  <2>1. deploy' = deploy /\ OwnersStay /\ DOMAIN owner' = Schemas
    BY <1>2 DEF OthersCreate, viewVars, OwnersStay, ViewTypes
  <2>2. \A r \in Deploys : SettingsKept(r)
    BY <2>1 DEF SettingsKept
  <2> QED
    BY <2>1, <2>2, RunMoves DEF ViewTypes
<1> QED
  BY <1>1, <1>2, StartKeeps, PrepareKeeps, SchemaStepsKeep, PlaceStepsKeep DEF ViewsNext

(* What is placed stays home: an old view because owners and settings do   *)
(* not change, a new one because its schema was checked.                   *)
LEMMA PlacedStaysHome ==
    ASSUME ViewsInv, [ViewsNext]_viewVars
    PROVE  PlacedInv' /\ ViewsStayHome' /\ DOMAIN placed' = DOMAIN placed
<1>1. /\ OwnersStay
      /\ \A r \in Deploys : SettingsKept(r)
  BY EveryStepKeeps DEF ViewsInv
<1>2. ASSUME NEW at \in DOMAIN placed, NEW p \in placed[at]
      PROVE  p.by \in Deploys /\ (PerUser(p.by)' => owner'[at[1]] = {deploy'[p.by].me} /\ at[1] \notin ConfiguredSchemas(p.by)')
  <2>1. p.by \in Deploys /\ at[1] \in Schemas
    BY DEF ViewsInv, PlacedInv, ViewTypes
  <2>2. PerUser(p.by) => owner[at[1]] = {deploy[p.by].me} /\ at[1] \notin ConfiguredSchemas(p.by)
    BY DEF ViewsInv, ViewsStayHome
  <2> QED
    BY <1>1, <2>1, <2>2, SameSettings DEF OwnersStay
<1>3. CASE placed' = placed
  BY <1>2, <1>3 DEF PlacedInv, ViewsStayHome
<1>4. ASSUME NEW q \in Deploys, PlaceView(q), placed' # placed
      PROVE  PlacedInv' /\ ViewsStayHome' /\ DOMAIN placed' = DOMAIN placed
  <2> DEFINE home == <<Schema(q), View(q)>>
             new == [by |-> q, definition |-> Definition(q, Label(q))]
  <2>1. placed' = [placed EXCEPT ![home] = {new}] /\ deploy[q].pc = "place" /\ owner' = owner
    BY <1>4 DEF PlaceView
  <2>2. new.by = q /\ home[1] = Schema(q)
    OBVIOUS
  <2> HIDE DEF new, home
  <2>3. \A at \in DOMAIN placed : \A p : p \in placed'[at] => p \in placed[at] \/ (at = home /\ p = new)
    BY <2>1
  <2>4. ASSUME home \in DOMAIN placed, PerUser(q)
        PROVE  owner[home[1]] = {deploy[q].me} /\ home[1] \notin ConfiguredSchemas(q)
    <3>1. RunInv(q) /\ Schema(q) \in Schemas
      BY <2>4 DEF ViewsInv, ViewTypes, home
    <3>2. owner[Schema(q)] = {deploy[q].me}
      BY <2>1, <2>4, <3>1 DEF RunInv
    <3>3. Schema(q) \notin ConfiguredSchemas(q)
      BY <2>1, <2>4, <3>1 DEF RunInv, Placing, Collides
    <3> QED
      BY <2>2, <3>2, <3>3
  <2>5. home \in DOMAIN placed /\ PerUser(q)' => owner'[home[1]] = {deploy'[q].me} /\ home[1] \notin ConfiguredSchemas(q)'
    BY <1>1, <2>1, <2>4, SameSettings
  <2>6. DOMAIN placed' = DOMAIN placed
    BY <2>1
  <2> QED
    BY <1>2, <2>2, <2>3, <2>5, <2>6 DEF PlacedInv, ViewsStayHome
<1>5. placed' = placed \/ \E q \in Deploys : PlaceView(q)
  BY DEF ViewsNext, StartDeploy, PrepareView, SchemaBefore, CreateSchema, SchemaAfter, VerifyView, EndDeploy,
         OthersCreate, viewVars
<1> QED
  BY <1>3, <1>4, <1>5

(* Every step of any run keeps ViewsInv. *)
LEMMA ViewsInvNext == ViewsInv /\ [ViewsNext]_viewVars => ViewsInv'
BY EveryStepKeeps, PlacedStaysHome DEF ViewsInv, ViewTypes

-----------------------------------------------------------------------------
(* Where a view stands: in place, and nobody but another run replaced it.  *)
InPlace(r, v, s, l) ==
    placed[<<s, v>>] # {} /\ \A p \in placed[<<s, v>>] : p.by = r => p.definition = Definition(r, l)

Placed(r, v) ==
    \A l \in Sharers(r, v) :
        /\ Feed(r, l).id \subseteq Sql[v].columns
        /\ \E s \in Home(r, l) \cap Schemas : InPlace(r, v, s, l)

ListsInv(r) ==
    /\ deploy[r].selected \subseteq DOMAIN Sql
    /\ deploy[r].created \cap deploy[r].failed = {}
    /\ deploy[r].todo \cap (deploy[r].created \cup deploy[r].failed) = {}
    /\ deploy[r].todo \cup deploy[r].created \cup deploy[r].failed = deploy[r].selected
    /\ deploy[r].pc = "idle" => deploy[r].selected = {}
    /\ deploy[r].pc \in {"green", "red"} => deploy[r].todo = {}
    /\ deploy[r].pc = "green" => deploy[r].failed = {}

PlacesInv(r) ==
    /\ \A l \in DOMAIN deploy[r].feeds : Home(r, l) \subseteq Schemas
    /\ deploy[r].pc \in Placing =>
         /\ View(r) \in deploy[r].todo /\ Label(r) \in Sharers(r, View(r))
         /\ \A l \in Sharers(r, View(r)) : Definition(r, l) = Definition(r, Label(r))
    /\ deploy[r].pc = "verify" => InPlace(r, View(r), Schema(r), Label(r))
    /\ \A v \in deploy[r].created : Placed(r, v)

CompleteInv == ViewsInv /\ \A r \in Deploys : ListsInv(r) /\ PlacesInv(r)

(* Before the first deploy there is nothing to account for. *)
LEMMA CompleteInvInit == ViewsInit => CompleteInv
<1> SUFFICES ASSUME ViewsInit
             PROVE  CompleteInv
  OBVIOUS
<1>1. ViewsInv
  BY ViewsInvInit
<1>2. ASSUME NEW r \in Deploys
      PROVE  ListsInv(r) /\ PlacesInv(r)
  <2>1. PICK t \in Setups[r] : deploy[r] = Fresh(t)
    BY DEF ViewsInit
  <2>2. /\ deploy[r].pc = "idle" /\ deploy[r].todo = {} /\ deploy[r].selected = {}
        /\ deploy[r].created = {} /\ deploy[r].failed = {}
    BY <2>1 DEF Fresh
  <2>3. deploy[r].feeds = t.feeds /\ deploy[r].perUser = t.perUser /\ deploy[r].me = t.me
    BY <2>1 DEF Fresh
  <2>4. ASSUME NEW l \in DOMAIN deploy[r].feeds
        PROVE  Home(r, l) \subseteq Schemas
    <3>1. IF t.perUser THEN UNION {Suffixed[<<t.feeds[l].schema, u>>] : u \in UserName[t.me]} \subseteq Schemas
          ELSE t.feeds[l].schema \in Schemas
      BY <2>3, SetupsAssumption
    <3>2. CASE t.perUser
      BY <2>3, <3>1 DEF Home, PerUser, User, Feed
    <3>3. CASE ~t.perUser
      BY <2>3, <3>1, <3>3 DEF Home, PerUser, Feed
    <3> QED
      BY <3>2, <3>3
  <2> QED
    BY <2>2, <2>4 DEF ListsInv, PlacesInv, Placing
<1> QED
  BY <1>1, <1>2 DEF CompleteInv

(* A view's definition is that of the run's settings. *)
LEMMA SameDefinition ==
    ASSUME NEW r, SettingsKept(r)
    PROVE  \A l : Definition(r, l)' = Definition(r, l)
BY SameSettings DEF Definition

(* A view in place stays in place, but for the run that replaces its own.  *)
LEMMA InPlaceStays ==
    ASSUME ViewTypes, NEW r \in Deploys, SettingsKept(r), NEW s \in Schemas, NEW v \in DOMAIN Sql, NEW l,
           InPlace(r, v, s, l),
           placed' = placed \/ \E q \in Deploys : PlaceView(q) /\ (q # r \/ View(r) # v)
    PROVE  InPlace(r, v, s, l)'
<1>1. Definition(r, l)' = Definition(r, l)
  BY SameDefinition
<1>2. CASE placed' = placed
  BY <1>1, <1>2 DEF InPlace
<1>3. ASSUME NEW q \in Deploys, PlaceView(q), q # r \/ View(r) # v, placed' # placed
      PROVE  InPlace(r, v, s, l)'
  <2> DEFINE home == <<Schema(q), View(q)>>
             new == [by |-> q, definition |-> Definition(q, Label(q))]
  <2>1. placed' = [placed EXCEPT ![home] = {new}]
    BY <1>3 DEF PlaceView
  <2>2. new.by = q
    OBVIOUS
  <2>3. home = <<s, v>> => View(q) = v
    OBVIOUS
  <2>4. <<s, v>> \in DOMAIN placed
    BY DEF ViewTypes
  <2> HIDE DEF home, new
  <2>5. CASE home = <<s, v>>
    BY <1>3, <2>1, <2>2, <2>3, <2>4, <2>5 DEF InPlace
  <2>6. CASE home # <<s, v>>
    BY <1>1, <2>1, <2>6 DEF InPlace
  <2> QED
    BY <2>5, <2>6
<1> QED
  BY <1>2, <1>3

(* A view a run has placed for all its sharers stays placed but for the     *)
(* run's own work on that view.                                             *)
LEMMA PlacedStays ==
    ASSUME ViewTypes, NEW r \in Deploys, SettingsKept(r), NEW v \in DOMAIN Sql, Placed(r, v),
           placed' = placed \/ \E q \in Deploys : PlaceView(q) /\ (q # r \/ View(r) # v)
    PROVE  Placed(r, v)'
<1>1. SUFFICES ASSUME NEW l \in Sharers(r, v)
               PROVE  /\ Feed(r, l)'.id \subseteq Sql[v].columns
                      /\ \E s \in Home(r, l)' \cap Schemas : InPlace(r, v, s, l)'
  BY SameSettings DEF Placed
<1>2. Feed(r, l)' = Feed(r, l) /\ Home(r, l)' = Home(r, l)
  BY SameSettings
<1>3. PICK s \in Home(r, l) \cap Schemas : InPlace(r, v, s, l)
  BY DEF Placed
<1>4. InPlace(r, v, s, l)'
  BY <1>3, InPlaceStays
<1> QED
  BY <1>2, <1>4 DEF Placed

(* The view a run works on is one it has still to do. *)
LEMMA ViewIsTodo ==
    ASSUME NEW r \in Deploys, RunInv(r), PlacesInv(r),
           \/ deploy[r].pc = "views" /\ deploy[r].todo # {}
           \/ deploy[r].pc \in Placing
    PROVE  View(r) \in deploy[r].todo
BY FirstView DEF RunInv, PlacesInv, View

(* How the lists of a run change.                                          *)
LEMMA ListSteps ==
    ASSUME ViewTypes, NEW q \in Deploys
    PROVE  /\ \A from, to : Step(q, from, to) =>
                /\ deploy'[q].selected = deploy[q].selected /\ deploy'[q].failed = deploy[q].failed
                /\ deploy'[q].created = deploy[q].created
           /\ ViewFails(q) =>
                /\ deploy'[q].selected = deploy[q].selected /\ deploy'[q].created = deploy[q].created
                /\ deploy'[q].todo = deploy[q].todo \ {View(q)}
                /\ deploy'[q].failed = deploy[q].failed \cup {View(q)}
BY DEF ViewTypes, Step, ViewFails, Set

(* A failed view moves from what is left to do to what has failed. *)
LEMMA FailKeepsLists ==
    ASSUME ViewTypes, NEW q \in Deploys, ListsInv(q), RunInv(q), PlacesInv(q), ViewFails(q),
           \/ deploy[q].pc = "views" /\ deploy[q].todo # {}
           \/ deploy[q].pc \in Placing
    PROVE  ListsInv(q)'
<1>1. View(q) \in deploy[q].todo /\ deploy'[q].pc = "views"
  BY ViewIsTodo, RunSteps
<1> QED
  BY <1>1, ListSteps DEF ListsInv

(* A step that keeps the lists keeps their account, and ends green only     *)
(* with nothing left and nothing failed.                                    *)
LEMMA StepKeepsLists ==
    ASSUME ViewTypes, NEW q \in Deploys, ListsInv(q), NEW from, NEW to, Step(q, from, to),
           from # "idle", to # "idle",
           to \in {"green", "red"} => deploy[q].todo = {},
           to = "green" => deploy[q].failed = {}
    PROVE  ListsInv(q)'
BY ListSteps, RunSteps DEF ListsInv

(* Every step keeps the account of each run's lists. *)
LEMMA ListsNext ==
    ASSUME CompleteInv, [ViewsNext]_viewVars, NEW r \in Deploys
    PROVE  ListsInv(r)'
<1> USE DEF CompleteInv, ViewsInv
<1>1. CASE deploy'[r] = deploy[r]
  BY <1>1 DEF ListsInv
<1>2. CASE StartDeploy(r)
  <2>1. PICK request \in Requests :
          \/ Set(r, [deploy[r] EXCEPT !.pc = "red"])
          \/ Set(r, [deploy[r] EXCEPT !.pc = "views", !.todo = select_views(request),
                                      !.selected = select_views(request)])
    BY <1>2 DEF StartDeploy
  <2>2. /\ deploy[r].selected = {} /\ deploy[r].todo = {} /\ deploy[r].created = {} /\ deploy[r].failed = {}
    BY <1>2 DEF StartDeploy, ListsInv
  <2>3. select_views(request) \subseteq DOMAIN Sql
    BY DEF select_views
  <2>4. /\ deploy'[r].created = {} /\ deploy'[r].failed = {}
        /\ \/ deploy'[r].pc = "red" /\ deploy'[r].selected = {} /\ deploy'[r].todo = {}
           \/ /\ deploy'[r].pc = "views" /\ deploy'[r].selected = select_views(request)
              /\ deploy'[r].todo = select_views(request)
    BY <2>1, <2>2 DEF Set, ViewTypes
  <2> QED
    BY <2>3, <2>4 DEF ListsInv
<1>3. CASE ViewFails(r) /\ \/ deploy[r].pc = "views" /\ deploy[r].todo # {}
                           \/ deploy[r].pc \in Placing
  BY <1>3, FailKeepsLists
<1>4. ASSUME NEW from, NEW to, Step(r, from, to), {from, to} \cap {"idle", "green", "red"} = {}
      PROVE  ListsInv(r)'
  BY <1>4, StepKeepsLists
<1>5. CASE EndDeploy(r)
  BY <1>5, StepKeepsLists DEF EndDeploy
<1>6. CASE SchemaAfter(r) /\ Set(r, [deploy[r] EXCEPT !.pc = "place", !.checked = @ \cup {Schema(r)}])
  <2>1. /\ deploy'[r].pc = "place" /\ deploy'[r].todo = deploy[r].todo /\ deploy'[r].created = deploy[r].created
        /\ deploy'[r].failed = deploy[r].failed /\ deploy'[r].selected = deploy[r].selected
    BY <1>6 DEF Set, ViewTypes
  <2> QED
    BY <2>1 DEF ListsInv
<1>7. CASE /\ deploy[r].pc = "verify"
           /\ Set(r, [deploy[r] EXCEPT !.pc = "views", !.created = @ \cup {View(r)}, !.todo = @ \ {View(r)}])
  <2>1. View(r) \in deploy[r].todo
    BY <1>7, ViewIsTodo DEF Placing
  <2>2. /\ deploy'[r].pc = "views" /\ deploy'[r].todo = deploy[r].todo \ {View(r)}
        /\ deploy'[r].created = deploy[r].created \cup {View(r)}
        /\ deploy'[r].failed = deploy[r].failed /\ deploy'[r].selected = deploy[r].selected
    BY <1>7 DEF Set, ViewTypes
  <2> QED
    BY <2>1, <2>2 DEF ListsInv
<1>8. CASE PrepareView(r)
  BY <1>3, <1>4, <1>8 DEF PrepareView
<1>9. CASE SchemaBefore(r) \/ CreateSchema(r) \/ SchemaAfter(r)
  BY <1>3, <1>4, <1>6, <1>9 DEF SchemaBefore, CreateSchema, SchemaAfter, Placing
<1>10. CASE PlaceView(r) \/ VerifyView(r)
  BY <1>3, <1>4, <1>7, <1>10 DEF PlaceView, VerifyView, Placing
<1>11. ASSUME NEW q \in Deploys, q # r, StepKeeps(q)
       PROVE  deploy'[r] = deploy[r]
  BY <1>11 DEF StepKeeps
<1>12. CASE (\E s \in Schemas : OthersCreate(s)) \/ UNCHANGED viewVars
  BY <1>1, <1>12 DEF OthersCreate, viewVars
<1> QED
  BY <1>1, <1>2, <1>5, <1>8, <1>9, <1>10, <1>11, <1>12, StartKeeps, PrepareKeeps, SchemaStepsKeep, PlaceStepsKeep
     DEF ViewsNext

(* The view under way, as a step that stays in its loop finds it.          *)
PlanInv(r) ==
    deploy[r].pc \in Placing =>
      /\ View(r) \in deploy[r].todo /\ Label(r) \in Sharers(r, View(r))
      /\ \A l \in Sharers(r, View(r)) : Definition(r, l) = Definition(r, Label(r))

(* The plan of the view at hand stays with the settings and with what is    *)
(* left to do.                                                              *)
LEMMA PlanStays ==
    ASSUME NEW r \in Deploys, SettingsKept(r), PlanInv(r), deploy'[r].todo = deploy[r].todo,
           deploy[r].pc \in Placing
    PROVE  PlanInv(r)'
<1>1. View(r)' = View(r) /\ Label(r)' = Label(r)
  BY SamePlan
<1>2. Sharers(r, View(r))' = Sharers(r, View(r))
  BY <1>1, SameSettings
<1>3. \A l : Definition(r, l)' = Definition(r, l)
  BY SameDefinition
<1> QED
  BY <1>1, <1>2, <1>3 DEF PlanInv

(* Every step keeps that the view at hand is one to do, under a label whose *)
(* definition all sharers have.                                             *)
LEMMA PlanNext ==
    ASSUME CompleteInv, [ViewsNext]_viewVars, NEW r \in Deploys
    PROVE  PlanInv(r)'
<1> USE DEF CompleteInv, ViewsInv
<1>1. SettingsKept(r) /\ PlanInv(r)
  BY EveryStepKeeps DEF PlacesInv, PlanInv
<1>2. CASE deploy'[r] = deploy[r]
  BY <1>1, <1>2, PlanStays DEF PlanInv
<1>3. CASE ViewFails(r)
  BY <1>3, RunSteps DEF PlanInv, Placing
<1>4. CASE PrepareView(r) /\ ~ViewFails(r)
  <2>1. ~shared_view_conflict(r, View(r)) /\ deploy'[r].todo = deploy[r].todo
    BY <1>4, RunSteps DEF PrepareView
  <2>2. View(r) \in deploy[r].todo
    BY <1>4, ViewIsTodo DEF PrepareView
  <2>3. Sharers(r, View(r)) # {}
    <3>1. View(r) \in DOMAIN Sql /\ ~Unpaired(r)
      BY <1>4, <2>2 DEF PrepareView, RunInv
    <3> QED
      BY <3>1 DEF Unpaired, Sharers
  <2>4. Label(r) \in Sharers(r, View(r))
    BY <2>3 DEF Label, OneOf
  <2>5. \A l \in Sharers(r, View(r)) : Definition(r, l) = Definition(r, Label(r))
    BY <2>1, <2>4 DEF shared_view_conflict
  <2>6. View(r)' = View(r) /\ Label(r)' = Label(r) /\ Sharers(r, View(r))' = Sharers(r, View(r))
    BY <1>1, <2>1, SamePlan, SameSettings
  <2>7. \A l : Definition(r, l)' = Definition(r, l)
    BY <1>1, SameDefinition
  <2> QED
    BY <2>1, <2>2, <2>4, <2>5, <2>6, <2>7 DEF PlanInv
<1>5. ASSUME NEW from \in Placing, NEW to, Step(r, from, to)
      PROVE  PlanInv(r)'
  BY <1>1, <1>5, RunSteps, PlanStays
<1>6. CASE SchemaAfter(r) /\ Set(r, [deploy[r] EXCEPT !.pc = "place", !.checked = @ \cup {Schema(r)}])
  <2>1. deploy'[r].todo = deploy[r].todo
    BY <1>6 DEF Set
  <2> QED
    BY <1>1, <1>6, <2>1, PlanStays DEF SchemaAfter, Placing
<1>7. CASE VerifyView(r) /\ ~ViewFails(r)
  <2>1. deploy'[r].pc = "views"
    BY <1>7 DEF VerifyView, Set, ViewTypes
  <2> QED
    BY <2>1 DEF PlanInv, Placing
<1>8. CASE StartDeploy(r)
  <2>1. deploy'[r].pc \in {"red", "views"}
    BY <1>8 DEF StartDeploy, Set, ViewTypes
  <2> QED
    BY <2>1 DEF PlanInv, Placing
<1>9. CASE EndDeploy(r)
  <2>1. deploy'[r].pc \in {"green", "red"}
    BY <1>9, RunSteps DEF EndDeploy
  <2> QED
    BY <2>1 DEF PlanInv, Placing
<1>10. CASE SchemaBefore(r) \/ CreateSchema(r) \/ SchemaAfter(r) \/ PlaceView(r)
  BY <1>3, <1>5, <1>6, <1>10 DEF SchemaBefore, CreateSchema, SchemaAfter, PlaceView, Placing
<1>11. ASSUME NEW q \in Deploys, q # r, StepKeeps(q)
       PROVE  deploy'[r] = deploy[r]
  BY <1>11 DEF StepKeeps
<1>12. CASE (\E s \in Schemas : OthersCreate(s)) \/ UNCHANGED viewVars
  BY <1>2, <1>12 DEF OthersCreate, viewVars
<1> QED
  BY <1>2, <1>3, <1>4, <1>7, <1>8, <1>9, <1>10, <1>11, <1>12,
     StartKeeps, PrepareKeeps, SchemaStepsKeep, PlaceStepsKeep DEF ViewsNext

(* Only the run's own steps make a view its own: it comes to be verified   *)
(* by being placed, and to be created by being verified.                   *)
LEMMA PlacesNext ==
    ASSUME CompleteInv, [ViewsNext]_viewVars, NEW r \in Deploys
    PROVE  PlacesInv(r)'
<1> USE DEF CompleteInv, ViewsInv
<1>1. SettingsKept(r) /\ ViewTypes /\ RunInv(r) /\ ListsInv(r) /\ PlacesInv(r)
  BY EveryStepKeeps
<1>2. \A l \in DOMAIN deploy'[r].feeds : Home(r, l)' \subseteq Schemas
  BY <1>1, SameSettings DEF PlacesInv
<1>3. placed' = placed \/ \E q \in Deploys : PlaceView(q)
  BY DEF ViewsNext, StartDeploy, PrepareView, SchemaBefore, CreateSchema, SchemaAfter, VerifyView, EndDeploy,
         OthersCreate, viewVars
<1>4. \A v \in deploy[r].created : v \in DOMAIN Sql /\ (deploy[r].pc \in Placing => View(r) # v)
  BY DEF ListsInv, PlacesInv
<1>5. \A v \in deploy[r].created : Placed(r, v)'
  <2>1. ASSUME NEW q \in Deploys, PlaceView(q), NEW v \in deploy[r].created
        PROVE  q # r \/ View(r) # v
    BY <1>4, <2>1 DEF PlaceView, Placing
  <2> QED
    BY <1>1, <1>3, <1>4, <2>1, PlacedStays DEF PlacesInv
<1>6. ASSUME deploy'[r].pc = "verify"
      PROVE  InPlace(r, View(r), Schema(r), Label(r))'
  <2>1. CASE PlaceView(r)
    <3>1. Step(r, "place", "verify") /\ placed' = [placed EXCEPT ![<<Schema(r), View(r)>>] =
                                           {[by |-> r, definition |-> Definition(r, Label(r))]}]
      BY <1>6, <2>1, RunSteps DEF PlaceView
    <3>2. View(r)' = View(r) /\ Label(r)' = Label(r) /\ Schema(r)' = Schema(r)
      BY <3>1, RunSteps, SamePlan
    <3>3. Definition(r, Label(r))' = Definition(r, Label(r))
      BY <1>1, <3>2, SameDefinition
    <3>4. deploy[r].pc = "place"
      BY <3>1, RunSteps
    <3>5. View(r) \in DOMAIN Sql /\ Label(r) \in DOMAIN deploy[r].feeds /\ Schema(r) \in Home(r, Label(r))
      BY <3>4 DEF PlacesInv, RunInv, Placing
    <3>6. <<Schema(r), View(r)>> \in DOMAIN placed
      BY <3>5 DEF PlacesInv, ViewTypes
    <3>7. placed'[<<Schema(r), View(r)>>] = {[by |-> r, definition |-> Definition(r, Label(r))]}
      BY <3>1, <3>6
    <3> QED
      BY <3>2, <3>3, <3>7 DEF InPlace
  <2>2. CASE ~PlaceView(r)
    <3>1. deploy'[r] = deploy[r]
      <4>1. CASE ViewFails(r)
        BY <1>6, <4>1, RunSteps
      <4>2. ASSUME NEW from, NEW to, Step(r, from, to), to # "verify"
            PROVE  FALSE
        BY <1>6, <4>2, RunSteps
      <4>3. ASSUME NEW q \in Deploys, q # r, StepKeeps(q)
            PROVE  deploy'[r] = deploy[r]
        BY <4>3 DEF StepKeeps
      <4>4. CASE (\E s \in Schemas : OthersCreate(s)) \/ UNCHANGED viewVars
        BY <4>4 DEF OthersCreate, viewVars
      <4>5. CASE StartDeploy(r)
        <5>1. deploy'[r].pc \in {"red", "views"}
          BY <4>5 DEF StartDeploy, Set, ViewTypes
        <5> QED
          BY <1>6, <5>1
      <4>6. CASE PrepareView(r)
        BY <4>1, <4>2, <4>6 DEF PrepareView
      <4>7. CASE SchemaBefore(r) \/ CreateSchema(r) \/ EndDeploy(r)
        BY <4>1, <4>2, <4>7 DEF SchemaBefore, CreateSchema, EndDeploy
      <4>8. CASE (SchemaAfter(r) \/ VerifyView(r)) /\ ~ViewFails(r)
        <5>1. deploy'[r].pc \in {"place", "views"}
          BY <4>8 DEF SchemaAfter, VerifyView, Set, ViewTypes
        <5> QED
          BY <1>6, <5>1
      <4> QED
        BY <2>2, <4>1, <4>3, <4>4, <4>5, <4>6, <4>7, <4>8, StartKeeps, PrepareKeeps, SchemaStepsKeep, PlaceStepsKeep
           DEF ViewsNext
    <3>2. deploy[r].pc = "verify" /\ InPlace(r, View(r), Schema(r), Label(r))
      BY <1>6, <3>1 DEF PlacesInv
    <3>3. View(r)' = View(r) /\ Label(r)' = Label(r) /\ Schema(r)' = Schema(r)
      BY <1>1, <3>1, SamePlan
    <3>4. View(r) \in DOMAIN Sql /\ Schema(r) \in Schemas
      BY <3>2 DEF PlacesInv, RunInv, Placing
    <3>5. InPlace(r, View(r), Schema(r), Label(r))' <=>
            /\ placed'[<<Schema(r), View(r)>>] # {}
            /\ \A p \in placed'[<<Schema(r), View(r)>>] : p.by = r => p.definition = Definition(r, Label(r))
      BY <1>1, <3>3, SameDefinition DEF InPlace
    <3>6. placed' = placed \/ \E q \in Deploys : PlaceView(q) /\ q # r
      BY <1>3, <2>2
    <3>7. ASSUME NEW s, NEW v, NEW l, s = Schema(r), v = View(r), l = Label(r)
          PROVE  InPlace(r, v, s, l)'
      BY <1>1, <3>2, <3>4, <3>6, <3>7, InPlaceStays
    <3> QED
      BY <1>1, <3>5, <3>7, SameDefinition DEF InPlace
  <2> QED
    BY <2>1, <2>2
<1>7. ASSUME NEW v \in deploy'[r].created, v \notin deploy[r].created
      PROVE  Placed(r, v)'
  <2>1. VerifyView(r) /\ ~ViewFails(r)
    <3>1. ASSUME NEW q \in Deploys, q # r, StepKeeps(q)
          PROVE  FALSE
      BY <1>7, <3>1 DEF StepKeeps
    <3>2. CASE (\E s \in Schemas : OthersCreate(s)) \/ UNCHANGED viewVars
      BY <1>7, <3>2 DEF OthersCreate, viewVars
    <3>3. (\E from, to : Step(r, from, to)) \/ ViewFails(r) => FALSE
      BY <1>7, ListSteps
    <3>4. CASE StartDeploy(r)
      BY <1>7, <3>4 DEF StartDeploy, Set, ViewTypes
    <3>5. CASE SchemaAfter(r)
      <4>1. Set(r, [deploy[r] EXCEPT !.pc = "place", !.checked = @ \cup {Schema(r)}])
        BY <3>3, <3>5 DEF SchemaAfter
      <4> QED
        BY <1>7, <4>1 DEF Set
    <3>6. CASE PrepareView(r) \/ SchemaBefore(r) \/ CreateSchema(r) \/ PlaceView(r) \/ EndDeploy(r)
      BY <3>3, <3>6 DEF PrepareView, SchemaBefore, CreateSchema, PlaceView, EndDeploy
    <3> QED
      BY <3>1, <3>2, <3>3, <3>4, <3>5, <3>6, StartKeeps, PrepareKeeps, SchemaStepsKeep, PlaceStepsKeep DEF ViewsNext
  <2>2. /\ deploy[r].pc = "verify" /\ IdFields(r) \subseteq Sql[View(r)].columns /\ placed' = placed
        /\ Set(r, [deploy[r] EXCEPT !.pc = "views", !.created = @ \cup {View(r)}, !.todo = @ \ {View(r)}])
    BY <2>1 DEF VerifyView
  <2>3. v = View(r) /\ v \in DOMAIN Sql
    BY <1>7, <2>2 DEF Set, PlacesInv, RunInv, Placing
  <2>4. Schema(r) \in Home(r, Label(r)) /\ Label(r) \in DOMAIN deploy[r].feeds /\ Schema(r) \in Schemas
    BY <2>2 DEF RunInv, PlacesInv, Placing
  <2>5. ASSUME NEW l \in Sharers(r, v)
        PROVE  Feed(r, l).id \subseteq Sql[v].columns /\ \E s \in Home(r, l) \cap Schemas : InPlace(r, v, s, l)
    <3>1. Definition(r, l) = Definition(r, Label(r))
      BY <2>2, <2>3 DEF PlacesInv, Placing
    <3>2. Home(r, l) = Home(r, Label(r))
      BY <3>1 DEF Definition
    <3>3. InPlace(r, v, Schema(r), l)
      BY <2>2, <2>3, <3>1 DEF PlacesInv, InPlace
    <3>4. Feed(r, l).id \subseteq Sql[v].columns
      BY <2>2, <2>3 DEF IdFields
    <3> QED
      BY <2>4, <3>2, <3>3, <3>4
  <2>6. Placed(r, v)
    BY <2>5 DEF Placed
  <2> QED
    BY <1>1, <2>2, <2>3, <2>6, PlacedStays
<1>8. PlanInv(r)'
  BY PlanNext
<1> QED
  BY <1>2, <1>5, <1>6, <1>7, <1>8 DEF PlacesInv, PlanInv

(* Every step of any run keeps CompleteInv. *)
LEMMA CompleteInvNext == CompleteInv /\ [ViewsNext]_viewVars => CompleteInv'
BY ViewsInvNext, ListsNext, PlacesNext DEF CompleteInv

(* CompleteInv contains both properties of view deployment. *)
LEMMA CompleteInvShows == CompleteInv => ViewsStayHome /\ ViewRunIsComplete
<1> SUFFICES ASSUME CompleteInv
             PROVE  ViewRunIsComplete
  BY DEF CompleteInv, ViewsInv
<1>1. ASSUME NEW r \in Deploys
      PROVE  /\ deploy[r].pc \in {"green", "red"} =>
                  /\ deploy[r].created \cap deploy[r].failed = {}
                  /\ deploy[r].created \cup deploy[r].failed = deploy[r].selected
             /\ deploy[r].pc = "green" => deploy[r].selected \subseteq deploy[r].created
  BY DEF CompleteInv, ListsInv
<1>2. ASSUME NEW r \in Deploys, NEW v \in deploy[r].created, NEW l \in Sharers(r, v)
      PROVE  \E s \in Home(r, l) :
               /\ placed[<<s, v>>] # {} /\ Feed(r, l).id \subseteq Sql[v].columns
               /\ \A p \in placed[<<s, v>>] : p.by = r => p.definition = Definition(r, l)
  <2>1. Placed(r, v)
    BY DEF CompleteInv, PlacesInv
  <2> QED
    BY <2>1 DEF Placed, InPlace
<1> QED
  BY <1>1, <1>2 DEF ViewRunIsComplete
=============================================================================
