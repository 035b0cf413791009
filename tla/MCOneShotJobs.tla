---------------------------- MODULE MCOneShotJobs -----------------------------
(***************************************************************************)
(* The instance: three identities whose suffixed schemas meet, two runs of *)
(* checkouts with a shared, a conflicting, an unresolvable and an unpaired *)
(* config; two clears; three builds of two wheels; three schemas of the    *)
(* monitoring table; two attempts of a batch run.                          *)
(***************************************************************************)
EXTENDS OneShotJobs, TLC

MCUserName == [jane |-> {"jane"}, pj |-> {"poc_jane"}, sp |-> {}]
MCSuffixed == (<<"es", "poc_jane">> :> {"es_poc_jane"}) @@ (<<"es_poc", "jane">> :> {"es_poc_jane"})
              @@ (<<"es_poc", "poc_jane">> :> {})
MCSchemas == {"es", "es_poc", "es_poc_jane"}
Config(view, schema) ==
    [view |-> view, schema |-> schema, source |-> "lake", refs |-> [d |-> "lake"], id |-> {}, resolves |-> TRUE]
TwoIn(schema) == [one |-> [Config(1, schema) EXCEPT !.id = {"c1"}], two |-> Config(2, schema)]
Setup(me, perUser, feeds) == [me |-> me, perUser |-> perUser, feeds |-> feeds]
MCSetups ==
    [r1 |-> {Setup("pj", TRUE, TwoIn("es")),
             Setup("pj", TRUE, [TwoIn("es") EXCEPT !.two.resolves = FALSE]),
             Setup("pj", TRUE, [TwoIn("es") EXCEPT !.two.schema = "es_poc"]),
             Setup("sp", FALSE, TwoIn("es")), Setup("sp", TRUE, TwoIn("es")),
             Setup("sp", FALSE, [one |-> Config(1, "es")])},
     r2 |-> {Setup("jane", TRUE, TwoIn("es_poc") @@ [three |-> [Config(1, "es_poc") EXCEPT !.id = {"c9"}]]),
             Setup("jane", TRUE, [TwoIn("es_poc") EXCEPT !.two.source = "es_poc_jane"]),
             Setup("jane", FALSE, TwoIn("es") @@ [three |-> [Config(1, "es") EXCEPT !.source = "es_poc"]])}]
MCSql == <<[uses |-> {"d"}, columns |-> {"c1", "c2"}], [uses |-> {}, columns |-> {"c1"}]>>
MCRequests == {{}, {1}, {2}, {1, 3}}
MCSchemaOf == <<[a |-> "A", b |-> "B"], [a |-> "A2", b |-> "B", c |-> "C"], [a |-> "A2", b |-> "B2", c |-> "C"]>>
=============================================================================
