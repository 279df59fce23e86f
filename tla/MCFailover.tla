----------------------------- MODULE MCFailover -----------------------------
(* Instances of Failover for TLC: db1 is the primary, db2 and db3 its        *)
(* replicas (the third node only where a configuration names it).            *)
EXTENDS Failover, TLC

CONSTANTS db1, db2, db3, h, t1, t2

Plain(role, id) ==
  [role |-> role, noMaster |-> FALSE, ignoreFail |-> FALSE, priority |-> 0,
   series |-> 1, id |-> id, pos |-> id]

TwoNodes == (db1 :> Plain("primary", 1)) @@ (db2 :> Plain("replica", 2))

ThreeNodes == TwoNodes @@ (db3 :> Plain("replica", 3))

(* The two styles of fence of operations.md. *)
ReadOnlyFence == <<[kind |-> "read_only", required |-> TRUE]>>

FullFence ==
  <<[kind |-> "read_only", required |-> FALSE],
    [kind |-> "vip", required |-> FALSE],
    [kind |-> "stonith", required |-> TRUE]>>
=============================================================================
