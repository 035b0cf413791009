-------------------------- MODULE MCClusterLogPrune --------------------------
(***************************************************************************)
(* A small volume for TLC: one cluster with two log kinds, a directory in  *)
(* one of them, an entry of no known kind, and a stray tree that only      *)
(* looks like a log.                                                       *)
(***************************************************************************)
EXTENDS ClusterLogPrune

MCDirs == {<<"c">>, <<"c", "driver">>, <<"c", "driver", "d">>, <<"c", "eventlog">>,
           <<"stray">>, <<"stray", "driver">>}
MCFiles == {<<"c", "driver", "f">>, <<"c", "driver", "d", "g">>, <<"c", "note">>,
            <<"stray", "driver", "f">>}

(* Directories rarely have a usable timestamp: at most one does. *)
MCInit ==
  /\ Init
  /\ aged \cap Dirs \subseteq {<<"c", "driver", "d">>}
  /\ site = "unset" => ~dry /\ running = {}
  /\ there \cap {<<"stray">>, <<"stray", "driver">>, <<"stray", "driver", "f">>} \in
       {{}, {<<"stray">>, <<"stray", "driver">>, <<"stray", "driver", "f">>}}
  /\ <<"stray", "driver", "f">> \in there => <<"stray", "driver", "f">> \in aged

MCSpec == MCInit /\ [][Next]_vars
=============================================================================
