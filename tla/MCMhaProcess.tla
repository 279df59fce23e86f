---------------------------- MODULE MCMhaProcess ----------------------------
(* Instances of MhaProcess: files, and the calls of a manager and of three    *)
(* commands.                                                                  *)
EXTENDS MhaProcess

(* A legal header and headers that differ from it in one field, a legal node  *)
(* and nodes that differ from it in one field.                                *)
Header ==
  [named |-> TRUE, durations |-> TRUE, kind |-> Blank, mode |-> Blank, semiSync |-> Blank,
   salvage |-> Blank, threshold |-> 2, wait |-> 1, observers |-> <<>>, fencing |-> <<>>]

SomeHeaders ==
  {Header}
  \cup {[Header EXCEPT !.named = FALSE], [Header EXCEPT !.durations = FALSE],
        [Header EXCEPT !.kind = "odd"], [Header EXCEPT !.kind = SinglePrimary],
        [Header EXCEPT !.mode = "odd"], [Header EXCEPT !.semiSync = "odd"],
        [Header EXCEPT !.salvage = "odd"], [Header EXCEPT !.fencing = <<"read_only", Blank>>],
        [Header EXCEPT !.wait = -1]}
  \cup {[Header EXCEPT !.threshold = t] : t \in -1..1}

Node(id, role) ==
  [id |-> id, host |-> TRUE, series |-> "8.4", role |-> role,
   replUser |-> TRUE, replPassword |-> TRUE]

GoodEntries == {Node(id, role) : id \in {"db1", "db2"}, role \in NodeRoles \cup {Blank}}

SomeEntries ==
  LET n == Node("db3", "replica")
  IN GoodEntries
     \cup {[n EXCEPT !.id = Blank], [n EXCEPT !.host = FALSE], [n EXCEPT !.series = "odd"],
           [n EXCEPT !.series = Blank], [n EXCEPT !.role = "odd"], [n EXCEPT !.series = "9.7"],
           [n EXCEPT !.replUser = FALSE], [n EXCEPT !.replPassword = FALSE],
           [n EXCEPT !.replUser = FALSE, !.replPassword = FALSE]}

LegalFile == [header |-> Header, nodes |-> <<Node("db1", "primary"), Node("db2", "replica")>>]
JustOne   == {LegalFile}

(* The header and the nodes of the legal file alone.                          *)
LegalHeader  == {Header}
LegalEntries == {LegalFile.nodes[i] : i \in DOMAIN LegalFile.nodes}

-----------------------------------------------------------------------------
CONSTANTS m, f, s, u, controller, rival

Calls ==
  [t \in Tasks |-> IF t = m THEN "manager" ELSE IF t = f THEN "failover" ELSE "switchover"]

(* The calls of a process have the controller.id of its specification.        *)
OneID == [t \in Tasks |-> controller]

(* A call with another ID beside them, as in memory_test.go, so that Acquire  *)
(* refuses, too.                                                              *)
OneRival == [t \in Tasks |-> IF t = u THEN rival ELSE controller]
=============================================================================
