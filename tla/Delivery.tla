------------------------------- MODULE Delivery -------------------------------
(***************************************************************************)
(* What a streaming feed promises, whatever its parts do: from the point   *)
(* where it begins, its position passes a source version only after that   *)
(* version's rows are in Elasticsearch (at-least-once delivery; a version  *)
(* may be sent again, and rows of a version not yet passed may be there).  *)
(* StreamStart and StreamExport implement this specification.              *)
(***************************************************************************)
EXTENDS Naturals

VARIABLES
  head,   \* the source's newest version
  data,   \* the versions that carry rows the reader sends
  sent,   \* the versions whose rows are in Elasticsearch
  pos     \* 0: not begun; else every version from the beginning up to, not
          \* including, pos has been passed

vars == <<head, data, sent, pos>>

Init ==
  /\ head \in Nat
  /\ data \subseteq 1..head
  /\ sent = {}
  /\ pos = 0

(* A commit lands in the source table, with rows for the feed or without. *)
Append ==
  /\ head' = head + 1
  /\ data' \in {data, data \union {head + 1}}
  /\ UNCHANGED <<sent, pos>>

(* Rows of some version reach Elasticsearch. *)
Send ==
  /\ \E v \in data : sent' = sent \union {v}
  /\ UNCHANGED <<head, data, pos>>

(* The feed begins at a version: what is older is not its to send. *)
Begin ==
  /\ pos = 0
  /\ pos' \in 1..(head + 1)
  /\ UNCHANGED <<head, data, sent>>

(* The position moves past versions, all of whose rows are there. *)
Advance ==
  /\ pos # 0
  /\ pos' \in (pos + 1)..(head + 1)
  /\ \A v \in data : pos <= v /\ v < pos' => v \in sent
  /\ UNCHANGED <<head, data, sent>>

(* An operator clears the checkpoint: the feed will begin anew. *)
Forget ==
  /\ pos' = 0
  /\ UNCHANGED <<head, data, sent>>

Next == Append \/ Send \/ Begin \/ Advance \/ Forget

Spec == Init /\ [][Next]_vars
=============================================================================
