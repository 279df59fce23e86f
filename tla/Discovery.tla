------------------------------ MODULE Discovery ------------------------------
(***************************************************************************)
(* What both controllers share: what Inspect may report of a live server,  *)
(* and the orders in which steps visit several nodes.                      *)
(***************************************************************************)
EXTENDS MySQLServers, Topology

Unseen == [health |-> "unseen"]

(* The states Replica_IO_Running may be in: the receiver thread of a running  *)
(* channel notices the loss of its source only after a while.                 *)
IOReports(n) ==
  IF server[n].source = NoSource \/ ~server[n].running THEN {FALSE}
  ELSE {TRUE} \cup (IF IOThreadRunning(n) THEN {} ELSE {FALSE})

Observation(n, io) ==
  LET s == server[n]
  IN [health |-> IF s.source # NoSource /\ ~(io /\ s.running) THEN "suspect" ELSE "alive",
      gtid |-> s.executed, readOnly |-> s.readOnly, superReadOnly |-> s.superReadOnly,
      semiSource |-> FALSE, source |-> s.source, io |-> io,
      sql |-> s.source # NoSource /\ s.running,
      auto |-> s.source # NoSource, semiReplica |-> FALSE,
      behind |-> IF s.source # NoSource /\ ~(io /\ s.running) THEN -1 ELSE 0]

(* The results of inspecting n: unreachable, or one of its observations.      *)
Inspections(n) ==
  {DeadState} \cup
  (IF server[n].up THEN {Observation(n, io) : io \in IOReports(n)} ELSE {})

Writable(state) == ~state.readOnly \/ ~state.superReadOnly

(* Which of the remaining nodes comes next: by node ID, or in the order of    *)
(* the specification.                                                         *)
FirstByID(n, S)   == n \in S /\ \A m \in S \ {n} : NodeSpec[n].id < NodeSpec[m].id
FirstInSpec(n, S) == n \in S /\ \A m \in S \ {n} : NodeSpec[n].pos < NodeSpec[m].pos

(* What verification asks of a promoted server and of a replica of p.         *)
PromotedOK(s) == ~s.readOnly /\ ~s.superReadOnly /\ s.source = NoSource

(* Mutant: the replication threads are not looked at.                         *)
FollowsSourceOnly(n, p) == server[n].source = p

(* The threads are seen as they report themselves: a receiver may still say   *)
(* that it is running when its source is gone (IOReports).                    *)
Follows(n, p) == server[n].source = p /\ server[n].running
=============================================================================
