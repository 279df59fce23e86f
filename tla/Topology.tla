------------------------------ MODULE Topology ------------------------------
(***************************************************************************)
(* What mha-go concludes from a discovered cluster view.  Pure operators:  *)
(* which node is the primary (SQLDiscoverer.selectPrimaryID), which errors *)
(* the assessment reports (AssessReplication), and which replica is to be  *)
(* promoted (the default and the pinned candidate selector).               *)
(*                                                                         *)
(* A view maps every configured node to the NodeState that Inspect filled  *)
(* in.  A GTID set is the set of transactions it contains; Contains is     *)
(* \subseteq and Subtract is \ (module GtidSets is about the intervals     *)
(* themselves).                                                            *)
(***************************************************************************)
EXTENDS Vocabulary

CONSTANTS
  NodeSpec,            \* the configured facts about each node
  AllowCascading,      \* topology.allow_cascading_replicas
  SemiSyncPolicy,      \* replication.semi_sync.policy
  WaitForReplicaCount, \* replication.semi_sync.wait_for_replica_count
  Pins,                \* what --new-primary may name, NoSource if it may be left out
  Unmapped             \* a channel whose SourceID could not be resolved

ASSUME UnmappedAssumption == Unmapped \notin Nodes \cup {NoSource}

NodeStates ==
  [health : {"alive", "suspect", "dead"}, gtid : SUBSET Trx,
   readOnly : BOOLEAN, superReadOnly : BOOLEAN, semiSource : BOOLEAN,
   source : Nodes \cup {NoSource, Unmapped}, io : BOOLEAN, sql : BOOLEAN,
   auto : BOOLEAN, semiReplica : BOOLEAN, behind : Int]

(* What a node that Inspect could not reach looks like: zero values. *)
DeadState ==
  [health |-> "dead", gtid |-> {}, readOnly |-> FALSE, superReadOnly |-> FALSE,
   semiSource |-> FALSE, source |-> NoSource, io |-> FALSE, sql |-> FALSE,
   auto |-> FALSE, semiReplica |-> FALSE, behind |-> 0]

Points(condition, p) == IF condition THEN p ELSE 0

IsObserver(n) == NodeSpec[n].role = "observer"

(* Nodes that the repoint and verify steps of both controllers leave out. *)
Repointable == {n \in Nodes : ~NodeSpec[n].noMaster /\ ~IsObserver(n)}

-----------------------------------------------------------------------------
(* Discovery. *)

Discoverable(view) == \E n \in Nodes : view[n].health # "dead"

(* Mutant: a channel whose receiver has noticed that the source is gone does  *)
(* not count.                                                                *)
UpstreamRefsReceiving(view, n) ==
  Cardinality({m \in Nodes : view[m].source = n /\ view[m].health # "suspect"})

UpstreamRefs(view, n) == Cardinality({m \in Nodes : view[m].source = n})

PrimaryScore(view, n) ==
    100 * UpstreamRefs(view, n)
  + Points(view[n].health = "alive", 20)
  + Points(view[n].source = NoSource, 10)
  + Points(~view[n].readOnly /\ ~view[n].superReadOnly, 5)
  + Points(NodeSpec[n].role = "primary", 3)

(* Mutant: nodes with equal scores are not ordered.                           *)
IsPrimaryUnordered(view, n) ==
  \A m \in Nodes \ {n} : PrimaryScore(view, n) >= PrimaryScore(view, m)

(* n is the node selectPrimaryID returns: the best positive score, ties by  *)
(* ID; when no node scores at all, the first node of the specification.     *)
IsPrimary(view, n) ==
  IF \E m \in Nodes : PrimaryScore(view, m) > 0
  THEN \A m \in Nodes \ {n} :
         \/ PrimaryScore(view, n) > PrimaryScore(view, m)
         \/ /\ PrimaryScore(view, n) = PrimaryScore(view, m)
            /\ NodeSpec[n].id < NodeSpec[m].id
  ELSE \A m \in Nodes \ {n} : NodeSpec[n].pos < NodeSpec[m].pos

RoleOf(view, p, n) ==
  CASE n = p                     -> "primary"
    [] n # p /\ view[n].source # NoSource -> "replica"
    [] n # p /\ view[n].source = NoSource /\ IsObserver(n) -> "observer"
    [] OTHER                     -> "unknown"

-----------------------------------------------------------------------------
(* Assessment: the codes reported with severity "error".                    *)

ChannelErrors(view, p, n) ==
  LET bad ==
    [replica_dead            |-> view[n].health = "dead" /\ ~NodeSpec[n].ignoreFail,
     auto_position_disabled  |-> ~view[n].auto,
     replica_sql_thread_down |-> ~view[n].sql,
     replica_io_thread_down  |-> ~view[n].io /\ view[p].health = "alive",
     replica_source_unknown  |-> view[n].source = Unmapped,
     cascading_not_allowed   |-> /\ view[n].source # Unmapped
                                 /\ ~AllowCascading
                                 /\ view[n].source # p]
  IN {code \in DOMAIN bad : bad[code]}

ReplicaErrors(view, p, n) ==
  IF view[n].source = NoSource
  THEN IF NodeSpec[n].ignoreFail THEN {} ELSE {"replica_missing_state"}
  ELSE ChannelErrors(view, p, n)

SemiSyncReplicas(view, p) ==
  {n \in Nodes \ {p} : ~IsObserver(n) /\ view[n].source # NoSource /\ view[n].semiReplica}

SemiSyncErrors(view, p) ==
  IF SemiSyncPolicy # "required" THEN {}
  ELSE (IF view[p].semiSource THEN {} ELSE {"semisync_required_but_disabled"})
       \cup (IF Cardinality(SemiSyncReplicas(view, p)) < WaitForReplicaCount
             THEN {"semisync_replica_shortfall"} ELSE {})

NodeErrors(view, p, n) ==
  IF n = p \/ IsObserver(n) THEN {} ELSE ReplicaErrors(view, p, n)

HasErrors(view, p) ==
  \/ view[p].health # "alive"
  \/ SemiSyncErrors(view, p) # {}
  \/ \E n \in Nodes : NodeErrors(view, p, n) # {}

-----------------------------------------------------------------------------
(* Candidate selection. *)

(* The other live replicas whose GTID set counts in CandidateFreshnessScore. *)
Peers(view, p, n) ==
  {m \in Nodes \ {n} : /\ RoleOf(view, p, m) = "replica"
                       /\ view[m].health # "dead"
                       /\ view[m].gtid # {}}

FreshnessScore(view, p, n) ==
  LET peers   == IF view[n].gtid = {} THEN {} ELSE Peers(view, p, n)
      covered == {m \in peers : view[m].gtid \subseteq view[n].gtid}
      ahead   == {m \in peers \ covered : view[n].gtid \subseteq view[m].gtid}
  IN 25 * Cardinality(covered) - 25 * Cardinality(ahead)
     + 5 * Cardinality(peers \ (covered \cup ahead))

BehindScore(behind) ==
  CASE behind < 0                   -> -20
    [] behind = 0                   -> 50
    [] behind > 0 /\ behind <= 5    -> 20
    [] behind > 5 /\ behind <= 30   -> 5
    [] OTHER                        -> -(behind \div 5)

CandidateScore(view, p, n) ==
    Points(view[n].health = "alive", 200)
  + Points(view[n].health = "suspect", 100)
  + Points(view[n].source = p, 80)
  + Points(view[n].sql, 60)
  + Points(view[n].io, 40)
  + Points(view[n].semiReplica, 30)
  + Points(view[n].readOnly /\ view[n].superReadOnly, 20)
  + BehindScore(view[n].behind)
  + FreshnessScore(view, p, n)

Eligible(view, p, n) ==
  /\ RoleOf(view, p, n) = "replica"
  /\ view[n].health # "dead"
  /\ ~NodeSpec[n].noMaster
  /\ view[n].auto

(* The first place where the sort keys of a and b differ decides. *)
Preferred(view, p, a, b) ==
  LET keys(n) == <<CandidateScore(view, p, n), NodeSpec[n].priority,
                   NodeSpec[n].series, -NodeSpec[n].id>>
  IN \E i \in 1..4 : /\ keys(a)[i] > keys(b)[i]
                     /\ \A j \in 1..(i - 1) : keys(a)[j] = keys(b)[j]

IsDefaultCandidate(view, p, n) ==
  /\ Eligible(view, p, n)
  /\ \A m \in Nodes \ {n} : Eligible(view, p, m) => Preferred(view, p, n, m)

IsPinnedCandidate(view, p, n) ==
  /\ n \in Pins
  /\ n # p
  /\ ~NodeSpec[n].noMaster
  /\ view[n].health # "dead"

(* Each invocation is given a node to promote, or selects the best.          *)
IsCandidate(view, p, n) ==
  \/ NoSource \in Pins /\ IsDefaultCandidate(view, p, n)
  \/ IsPinnedCandidate(view, p, n)
=============================================================================
