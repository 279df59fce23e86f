---- MODULE Vocabulary ----
(***************************************************************************)
(* What every other module speaks about: the nodes of the configuration    *)
(* and the write transactions.  Each transaction has one GTID, so that a   *)
(* GTID set is a set of transactions.                                      *)
(***************************************************************************)
EXTENDS Integers, FiniteSets

CONSTANTS
  Nodes,    \* ClusterSpec.Nodes: the servers that mha-go administers
  Trx,      \* the write transactions of a behaviour
  NoSource  \* no replication channel: the nil Replica pointer of NodeState

\* The mark for a node without a channel is not taken for a node.
ASSUME NoSourceAssumption == NoSource \notin Nodes
====
