---------------------------- MODULE MCSwitchover ----------------------------
(* Instances of Switchover for TLC: db1 is the primary, db2 and db3 its      *)
(* replicas (the third node only where a configuration names it).            *)
EXTENDS SwitchoverRefinement, TLC

CONSTANTS db1, db2, db3, db4, t1, t2

Plain(role, id) ==
  [role |-> role, noMaster |-> FALSE, ignoreFail |-> FALSE, priority |-> 0,
   series |-> 1, id |-> id, pos |-> id]

TwoNodes == (db1 :> Plain("primary", 1)) @@ (db2 :> Plain("replica", 2))

ThreeNodes == TwoNodes @@ (db3 :> Plain("replica", 3))

(* The order of the specification is not that of the IDs. *)
FourNodes == [n \in {db1, db2, db3, db4} |->
  CASE n = db1 -> Plain("primary", 1)
    [] n = db2 -> Plain("replica", 2)
    [] n = db3 -> [Plain("replica", 3) EXCEPT !.pos = 4]
    [] n = db4 -> [Plain("replica", 4) EXCEPT !.pos = 3]]

(* One of the replicas is configured as an observer. *)
FourBesideObserver == [FourNodes EXCEPT ![db3].role = "observer"]
=============================================================================
