------------------------------ MODULE MCMonitor ------------------------------
(* Instances of Monitor for TLC: db1 is the primary at first, db2 and db3    *)
(* its replicas.                                                             *)
EXTENDS Monitor, TLC

CONSTANTS db1, db2, db3, h

Plain(role, id) ==
  [role |-> role, noMaster |-> FALSE, ignoreFail |-> FALSE, priority |-> 0,
   series |-> 1, id |-> id, pos |-> id]

TwoNodes == (db1 :> Plain("primary", 1)) @@ (db2 :> Plain("replica", 2))

ThreeNodes == TwoNodes @@ (db3 :> Plain("replica", 3))

ReadOnlyFence == <<[kind |-> "read_only", required |-> TRUE]>>
=============================================================================
