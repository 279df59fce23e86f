----------------------------- MODULE MCCheckRepl -----------------------------
(* An instance of CheckRepl: stars with one or another node at the centre,    *)
(* and an observer in or outside replication.                                 *)
EXTENDS CheckRepl, TLC

CONSTANTS db1, db2, db3, db4

Plain(role, id) ==
  [role |-> role, noMaster |-> FALSE, ignoreFail |-> FALSE, priority |-> 0,
   series |-> 1, id |-> id, pos |-> id]

ThreeNodes ==
  (db1 :> Plain("primary", 1)) @@ (db2 :> Plain("replica", 2)) @@ (db3 :> Plain("replica", 3))

WithObserver == ThreeNodes @@ (db4 :> Plain("observer", 4))

Star(p, outside) == [n \in Nodes |-> IF n = p \/ n \in outside THEN NoSource ELSE p]

StarsBesideObserver == {Star(p, {db4}) : p \in {db1, db2}} \cup {Star(db1, {})}
=============================================================================
