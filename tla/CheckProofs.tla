----------------------------- MODULE CheckProofs -----------------------------
(***************************************************************************)
(* Proofs about what mha check-repl relies on and what it reports: the     *)
(* discovery and the assessment of CheckRepl, and the specification that   *)
(* Config builds of a file.                                                *)
(***************************************************************************)
EXTENDS CheckRepl, Config, DiscoveryProofs, WellFoundedInduction

-----------------------------------------------------------------------------
(* The inductive invariant of the check. *)

(* Nothing that happens during a check changes a channel.                     *)
LayoutInv == \E layout \in Layouts : \A n \in Nodes : Source(n) = layout[n]

(* Until the first crash all servers run, and what was seen of a channel is   *)
(* still so.                                                                  *)
CalmInv ==
  crashes = 0 =>
    \A n \in Nodes : /\ server[n].up
                     /\ seen[n] # Unseen /\ seen[n].health # "dead" /\ seen[n].sql => server[n].running

(* The report is about the view that the inspections filled in.               *)
ReportInv ==
  /\ exit # "running" => Complete
  /\ Reported => Discoverable(seen) /\ elected \in Nodes /\ IsPrimary(seen, elected)
  /\ exit = "healthy" => ~HasErrors(seen, elected)

CheckInv ==
  /\ ServersTypeOK
  /\ seen \in [Nodes -> NodeStates \cup {Unseen}]
  /\ LayoutInv
  /\ Sighted(seen)
  /\ CalmInv
  /\ ReportInv

LEMMA CheckInvInit == CheckInit => CheckInv
<1> SUFFICES ASSUME CheckInit PROVE CheckInv
  OBVIOUS
<1>1. PICK layout \in Layouts, writable \in SUBSET Nodes, running \in SUBSET Nodes :
        server = Layed(layout, writable, running)
  BY DEF CheckInit
<1>2. layout \in [Nodes -> Nodes \cup {NoSource}] /\ Cardinality(Heads(layout)) = 1
  BY LayoutsAssumption
<1>3. Nodes # {}
  <2> SUFFICES ASSUME Nodes = {} PROVE FALSE
    OBVIOUS
  <2>1. Heads(layout) = {}
    BY DEF Heads
  <2> QED
    BY <1>2, <2>1, FS_EmptySet
<1>4. ServersTypeOK
  <2>1. server \in [Nodes -> ServerStates]
    BY <1>1, <1>2, ServersAssumption DEF Layed, ServerStates
  <2>2. (CHOOSE n \in Nodes : TRUE) \in Nodes
    BY <1>3
  <2>3. trx \in [Trx -> TrxStates]
    BY <2>2, ServersAssumption DEF CheckInit, TrxStates
  <2> QED
    BY <2>1, <2>3, ServersAssumption DEF CheckInit, ServersTypeOK
<1>5. \A n \in Nodes : Source(n) = layout[n] /\ server[n].up /\ seen[n] = Unseen
  BY <1>1 DEF CheckInit, Layed, Source
<1>6. seen \in [Nodes -> NodeStates \cup {Unseen}] /\ exit = "running"
  BY DEF CheckInit
<1> QED
  BY <1>4, <1>5, <1>6 DEF CheckInv, LayoutInv, Sighted, CalmInv, ReportInv, Reported

(* An inspection sights its node, and a channel whose SQL thread it found     *)
(* running runs.                                                              *)
LEMMA InspectKeeps ==
  ASSUME CheckInv, NEW n \in Nodes, Inspect(n)
  PROVE  CheckInv'
<1> USE DEF CheckInv
<1>1. PICK state \in Inspections(n) : seen' = [seen EXCEPT ![n] = state]
  BY DEF Inspect
<1>2. /\ UNCHANGED <<server, trx, crashes, elected, exit>> /\ exit = "running"
      /\ ServersTypeOK' /\ LayoutInv' /\ server[n] \in ServerStates
  BY DEF Inspect, serverVars, ServersTypeOK, LayoutInv, Source
<1>3. seen' \in [Nodes -> NodeStates \cup {Unseen}]
  BY <1>1, InspectionType
<1>4. Sighted(seen)'
  <2>1. Sighted([seen EXCEPT ![n] = state])
    BY <1>2, InspectionSighted
  <2> QED
    BY <1>1, <1>2, <2>1 DEF Sighted
<1>5. state.health # "dead" /\ state.sql => server[n].running
  <2>1. \A io \in IOReports(n) : Observation(n, io).sql => server[n].running
    BY DEF Observation
  <2>2. DeadState.health = "dead"
    BY DEF DeadState
  <2> QED
    BY <2>1, <2>2 DEF Inspections
<1>6. CalmInv'
  BY <1>1, <1>2, <1>5 DEF CalmInv
<1> QED
  BY <1>2, <1>3, <1>4, <1>6 DEF ReportInv, Reported

(* A fault keeps the channels, and is counted.                                *)
LEMMA DisturbKeeps ==
  ASSUME CheckInv, Disturb
  PROVE  CheckInv'
<1> USE DEF CheckInv
<1>1. PICK n \in Nodes : Crash(n) \/ Recover(n)
  BY DEF Disturb
<1>2. UNCHANGED <<seen, elected, exit>>
  BY DEF Disturb, checkVars
<1>3. ServersTypeOK'
  BY <1>1, FaultsType
<1>4. \A m \in Nodes : Source(m)' = Source(m)
  BY <1>1, FaultSource DEF Source
<1>5. LayoutInv'
  BY <1>4 DEF LayoutInv
<1>6. Sighted(seen)'
  BY <1>2, <1>4 DEF Sighted, Source
<1>7. CalmInv'
  <2>1. CASE Crash(n)
    BY <2>1, ServersAssumption DEF Crash, CalmInv, ServersTypeOK
  <2>2. CASE Recover(n)
    BY <2>2 DEF Recover, CalmInv
  <2> QED
    BY <1>1, <2>1, <2>2
<1>8. ReportInv'
  BY <1>2 DEF ReportInv, Reported, Complete
<1> QED
  BY <1>2, <1>3, <1>5, <1>6, <1>7, <1>8

LEMMA CheckInvNext == CheckInv /\ [CheckNext]_<<serverVars, checkVars>> => CheckInv'
<1> SUFFICES ASSUME CheckInv, [CheckNext]_<<serverVars, checkVars>> PROVE CheckInv'
  OBVIOUS
<1> USE DEF CheckInv
<1>1. ASSUME UNCHANGED <<serverVars, seen>>, ReportInv' PROVE CheckInv'
  <2>1. UNCHANGED <<server, trx, crashes, seen>>
    BY <1>1 DEF serverVars
  <2> QED
    BY <1>1, <2>1 DEF ServersTypeOK, LayoutInv, Source, Sighted, CalmInv
<1>2. CASE \E n \in Nodes : Inspect(n)
  BY <1>2, InspectKeeps
<1>3. CASE DiscoveryFails
  BY <1>1, <1>3 DEF DiscoveryFails, ReportInv, Reported, Complete
<1>4. CASE Report
  <2>1. PICK p \in Nodes : /\ IsPrimary(seen, p)
                           /\ elected' = p
                           /\ exit' = IF HasErrors(seen, p) THEN "errors" ELSE "healthy"
    BY <1>4 DEF Report
  <2>2. Complete /\ Discoverable(seen) /\ UNCHANGED <<serverVars, seen>>
    BY <1>4 DEF Report
  <2>3. ReportInv'
    BY <2>1, <2>2 DEF ReportInv, Reported, Complete
  <2> QED
    BY <1>1, <2>2, <2>3
<1>5. CASE Disturb
  BY <1>5, DisturbKeeps
<1>6. CASE Exited \/ UNCHANGED <<serverVars, checkVars>>
  <2>1. UNCHANGED <<serverVars, seen, elected, exit>>
    BY <1>6 DEF Exited, checkVars
  <2>2. ReportInv'
    BY <2>1 DEF ReportInv, Reported, Complete
  <2> QED
    BY <1>1, <2>1, <2>2
<1> QED
  BY <1>2, <1>3, <1>4, <1>5, <1>6 DEF CheckNext

(* Every check keeps the channels, counts its faults and reports what it saw. *)
THEOREM CheckInductive == CheckSpec => []CheckInv
<1>1. CheckInit => CheckInv
  BY CheckInvInit
<1>2. CheckInv /\ [CheckNext]_<<serverVars, checkVars>> => CheckInv'
  BY CheckInvNext
<1> QED
  BY <1>1, <1>2, PTL DEF CheckSpec

-----------------------------------------------------------------------------
(* Who is elected. *)

(* All channels of the layout point at its head.                              *)
Star(layout) == \A n \in Nodes : layout[n] # NoSource => layout[n] \in Heads(layout)

(* A layout has one head.                                                     *)
LEMMA TheHead ==
  ASSUME NEW layout \in Layouts, \A n \in Nodes : Source(n) = layout[n]
  PROVE  HeadNode \in Nodes /\ Heads(layout) = {HeadNode}
<1>1. layout \in [Nodes -> Nodes \cup {NoSource}]
  BY LayoutsAssumption
<1>2. [m \in Nodes |-> Source(m)] = layout
  BY <1>1
<1>3. IsFiniteSet(Heads(layout))
  BY LayoutsAssumption, FS_Subset DEF Heads
<1>4. PICK h : Heads(layout) = {h}
  BY <1>3, LayoutsAssumption, FS_Singleton
<1>5. h \in Nodes
  BY <1>4 DEF Heads
<1>6. HeadNode = h
  BY <1>2, <1>4, <1>5 DEF HeadNode
<1> QED
  BY <1>4, <1>5, <1>6

(* In a cluster whose channels all point at one node, that node is elected    *)
(* whenever a replica of it could be inspected (selectPrimaryID).             *)
THEOREM ElectsTheHeadHolds ==
  ASSUME \A layout \in Layouts : Star(layout)
  PROVE  CheckSpec => []ElectsTheHead
<1>1. CheckInv => ElectsTheHead
  <2> SUFFICES ASSUME CheckInv, Reported, NEW r \in Nodes, seen[r].health # "dead", Source(r) = HeadNode
               PROVE  elected = HeadNode
    BY DEF ElectsTheHead
  <2>1. PICK layout \in Layouts : \A n \in Nodes : Source(n) = layout[n]
    BY DEF CheckInv, LayoutInv
  <2>2. HeadNode \in Nodes /\ Heads(layout) = {HeadNode}
    BY <2>1, TheHead
  <2>3. \A n \in Nodes : seen[n].source \in Nodes => seen[n].source = HeadNode
    <3> SUFFICES ASSUME NEW n \in Nodes, seen[n].source \in Nodes PROVE seen[n].source = HeadNode
      OBVIOUS
    <3>1. DeadState.source \notin Nodes
      BY NoSourceAssumption DEF DeadState
    <3>2. seen[n] # Unseen
      BY DEF CheckInv, ReportInv, Reported, Complete
    <3>3. seen[n].source = Source(n)
      BY <3>1, <3>2 DEF CheckInv, Sighted, Source
    <3>4. layout[n] # NoSource
      BY <2>1, <3>3, NoSourceAssumption
    <3> QED
      BY <2>1, <2>2, <3>3, <3>4 DEF Star
  <2>4. seen[r].source = HeadNode
    BY DEF CheckInv, ReportInv, Reported, Complete, Sighted, Source
  <2>5. elected \in Nodes /\ IsPrimary(seen, elected)
    BY DEF CheckInv, ReportInv
  <2> QED
    BY <2>2, <2>3, <2>4, <2>5, ReferredWins, LayoutsAssumption
<1> QED
  BY <1>1, CheckInductive, PTL

(* A node that answered scores, or the one its channel points at does.        *)
LEMMA SomeoneScores ==
  ASSUME CheckInv, Complete, Discoverable(seen)
  PROVE  \E n \in Nodes : PrimaryScore(seen, n) > 0
<1>1. PICK n \in Nodes : seen[n].health # "dead"
  BY DEF Discoverable
<1>2. seen[n].source = Source(n) /\ (seen[n].source = NoSource => seen[n].health = "alive")
  BY <1>1 DEF CheckInv, Complete, Sighted, Source
<1>3. ASSUME NEW p \in Nodes,
             \/ seen[p].health = "alive" /\ seen[p].source = NoSource
             \/ seen[n].source = p
      PROVE  PrimaryScore(seen, p) > 0
  <2>1. PICK k \in Nat : UpstreamRefs(seen, p) = k
    BY UpstreamFacts, LayoutsAssumption
  <2>2. seen[n].source = p => k # 0
    BY <2>1, UpstreamFacts, LayoutsAssumption
  <2> QED
    BY <1>3, <2>1, <2>2, ScoreBounds
<1>4. Source(n) \in Nodes \cup {NoSource}
  BY DEF CheckInv, ServersTypeOK, ServerStates, Source
<1> QED
  BY <1>2, <1>3, <1>4

(* A function into the natural numbers is least somewhere.                    *)
LEMMA LeastSomewhere ==
  ASSUME NEW S, S # {}, NEW f \in [S -> Nat]
  PROVE  \E x \in S : \A y \in S : f[x] <= f[y]
<1> DEFINE T == {f[x] : x \in S}
<1>1. T \subseteq Nat /\ T # {}
  OBVIOUS
<1>2. PICK t \in T : \A u \in T : ~(<<u, t>> \in OpToRel(<, Nat))
  BY <1>1, NatLessThanWellFounded, WFMin
<1>3. ASSUME NEW u \in T PROVE t <= u
  <2>1. u \in Nat /\ t \in Nat
    BY <1>1
  <2>2. u < t => <<u, t>> \in OpToRel(<, Nat)
    BY <2>1 DEF OpToRel
  <2>3. ~(u < t)
    BY <1>2, <2>2
  <2> QED
    BY <2>1, <2>3
<1>4. PICK x \in S : t = f[x]
  OBVIOUS
<1> QED
  BY <1>3, <1>4

(* What the view says decides: the node with the best score is one, and ties  *)
(* are broken by ID, of which no two nodes have the same.                     *)
THEOREM ElectsOneHolds ==
  ASSUME \A n \in Nodes : NodeSpec[n].id \in Nat,
         \A n, m \in Nodes : NodeSpec[n].id = NodeSpec[m].id => n = m
  PROVE  CheckSpec => []ElectsOne
<1>1. CheckInv => ElectsOne
  <2> SUFFICES ASSUME CheckInv, Complete, Discoverable(seen)
               PROVE  Cardinality({p \in Nodes : IsPrimary(seen, p)}) = 1
    BY DEF ElectsOne
  <2>1. PICK s \in Nodes : PrimaryScore(seen, s) > 0
    BY SomeoneScores
  <2> DEFINE most  == 100 * Cardinality(Nodes) + 38
             short == [n \in Nodes |-> most - PrimaryScore(seen, n)]
  <2>2. short \in [Nodes -> Nat] /\ \A n \in Nodes : PrimaryScore(seen, n) \in Nat
    <3> SUFFICES ASSUME NEW n \in Nodes PROVE short[n] \in Nat /\ PrimaryScore(seen, n) \in Nat
      OBVIOUS
    <3>1. PICK k \in Nat : UpstreamRefs(seen, n) = k
      BY UpstreamFacts, LayoutsAssumption
    <3>2. Cardinality(Nodes) \in Nat /\ k <= Cardinality(Nodes)
      BY <3>1, LayoutsAssumption, FS_CardinalityType, FS_Subset DEF UpstreamRefs
    <3>3. PrimaryScore(seen, n) \in (100 * k)..(100 * k + 38)
      BY <3>1, ScoreBounds
    <3> QED
      BY <3>2, <3>3
  <2>3. PICK b \in Nodes : \A n \in Nodes : PrimaryScore(seen, b) >= PrimaryScore(seen, n)
    <3>1. PICK b \in Nodes : \A n \in Nodes : short[b] <= short[n]
      <4> HIDE DEF short
      <4> QED
        BY <2>2, LeastSomewhere
    <3>2. most \in Nat
      BY LayoutsAssumption, FS_CardinalityType
    <3> HIDE DEF most
    <3> QED
      BY <2>2, <3>1, <3>2
  <2> DEFINE best == {n \in Nodes : PrimaryScore(seen, n) = PrimaryScore(seen, b)}
             id   == [n \in best |-> NodeSpec[n].id]
  <2>4. PICK p \in best : \A n \in best : NodeSpec[p].id <= NodeSpec[n].id
    <3>1. best # {} /\ id \in [best -> Nat]
      OBVIOUS
    <3>2. PICK p \in best : \A n \in best : id[p] <= id[n]
      <4> HIDE DEF best, id
      <4> QED
        BY <3>1, LeastSomewhere
    <3> QED
      BY <3>2
  <2>5. IsPrimary(seen, p)
    <3>1. ASSUME NEW n \in Nodes \ {p}
          PROVE  \/ PrimaryScore(seen, p) > PrimaryScore(seen, n)
                 \/ /\ PrimaryScore(seen, p) = PrimaryScore(seen, n)
                    /\ NodeSpec[p].id < NodeSpec[n].id
      <4>1. CASE n \in best
        <5>1. NodeSpec[p].id <= NodeSpec[n].id /\ NodeSpec[p].id # NodeSpec[n].id
          BY <2>4, <4>1
        <5> QED
          BY <4>1, <5>1
      <4>2. CASE n \notin best
        BY <2>2, <2>3, <2>4, <4>2
      <4> QED
        BY <4>1, <4>2
    <3> QED
      BY <2>1, <3>1 DEF IsPrimary
  <2>6. ASSUME NEW q \in Nodes, IsPrimary(seen, q)
        PROVE  q = p
    <3> SUFFICES ASSUME q # p PROVE FALSE
      OBVIOUS
    <3>1. \/ PrimaryScore(seen, q) > PrimaryScore(seen, p)
          \/ /\ PrimaryScore(seen, q) = PrimaryScore(seen, p)
             /\ NodeSpec[q].id < NodeSpec[p].id
      BY <2>1, <2>6 DEF IsPrimary
    <3>2. q \in best => NodeSpec[p].id <= NodeSpec[q].id
      BY <2>4
    <3> QED
      BY <2>2, <2>3, <2>4, <3>1, <3>2
  <2>7. {q \in Nodes : IsPrimary(seen, q)} = {p}
    BY <2>5, <2>6
  <2> QED
    BY <2>7, FS_Singleton
<1> QED
  BY <1>1, CheckInductive, PTL

(* A channel without an error is seen to run.                                 *)
LEMMA SoundChannel ==
  ASSUME NEW v, NEW p, NEW n, ChannelErrors(v, p, n) = {}
  PROVE  /\ v[n].health = "dead" => NodeSpec[n].ignoreFail
         /\ v[n].sql
         /\ v[n].source = Unmapped \/ AllowCascading \/ v[n].source = p
         /\ v[n].source # Unmapped
<1> DEFINE bad ==
      [replica_dead            |-> v[n].health = "dead" /\ ~NodeSpec[n].ignoreFail,
       auto_position_disabled  |-> ~v[n].auto,
       replica_sql_thread_down |-> ~v[n].sql,
       replica_io_thread_down  |-> ~v[n].io /\ v[p].health = "alive",
       replica_source_unknown  |-> v[n].source = Unmapped,
       cascading_not_allowed   |-> /\ v[n].source # Unmapped
                                   /\ ~AllowCascading
                                   /\ v[n].source # p]
<1>1. \A code \in DOMAIN bad : ~bad[code]
  BY Zenon DEF ChannelErrors
<1>2. /\ ~bad["replica_dead"] /\ ~bad["replica_sql_thread_down"]
      /\ ~bad["replica_source_unknown"] /\ ~bad["cascading_not_allowed"]
  BY <1>1
<1> QED
  BY <1>2

(* Exit status 0 where replicas of replicas are not allowed.                  *)
THEOREM HealthyMeansReplicatingHolds ==
  ASSUME AllowCascading = FALSE
  PROVE  CheckSpec => []HealthyMeansReplicating
<1>1. CheckInv => HealthyMeansReplicating
  <2> SUFFICES ASSUME CheckInv, exit = "healthy", crashes = 0
               PROVE  /\ server[elected].up
                      /\ \A n \in Nodes \ {elected} :
                           ~IsObserver(n) /\ ~NodeSpec[n].ignoreFail
                             => Follows(n, elected) /\ IOThreadRunning(n)
    BY DEF HealthyMeansReplicating
  <2>1. elected \in Nodes /\ ~HasErrors(seen, elected) /\ \A n \in Nodes : seen[n] # Unseen
    BY DEF CheckInv, ReportInv, Reported, Complete
  <2>2. \A n \in Nodes : server[n].up
    BY DEF CheckInv, CalmInv
  <2>3. ASSUME NEW n \in Nodes \ {elected}, ~IsObserver(n), ~NodeSpec[n].ignoreFail
        PROVE  Follows(n, elected) /\ IOThreadRunning(n)
    <3>1. seen[elected].health = "alive" /\ ReplicaErrors(seen, elected, n) = {}
      BY <2>1, <2>3 DEF HasErrors, NodeErrors
    <3>2. seen[n].source # NoSource /\ ChannelErrors(seen, elected, n) = {}
      BY <2>3, <3>1 DEF ReplicaErrors
    <3>3. seen[n].health # "dead" /\ seen[n].sql /\ seen[n].source = elected
      BY <2>3, <3>2, SoundChannel
    <3>4. server[n].source = elected /\ server[n].running
      BY <2>1, <3>3 DEF CheckInv, CalmInv, Sighted
    <3> QED
      BY <2>1, <2>2, <3>4, NoSourceAssumption DEF Follows, IOThreadRunning
  <2> QED
    BY <2>1, <2>2, <2>3
<1> QED
  BY <1>1, CheckInductive, PTL

-----------------------------------------------------------------------------
(* The inductive invariant of the load. *)

SpecsOf(names, nodes) ==
  [threshold : Int, wait : Int, semiSync : SemiSyncPolicies \cup {Blank},
   salvage : SalvagePolicies \cup {Blank}, observers : names, fencing : names, nodes : nodes]

ClusterSpecs == SpecsOf(Seq(STRING), Seq(FileNodes))

LoadTypeOK ==
  /\ file \in [header : FileHeaders, nodes : Seq(FileNodes)]
  /\ spec \in ClusterSpecs

(* The header that was read was legal, and what it leaves out is filled in.   *)
HeaderRead ==
  /\ spec.threshold >= 1 /\ spec.wait >= 0
  /\ spec.semiSync \in SemiSyncPolicies /\ spec.salvage \in SalvagePolicies

(* The nodes that were read are the file's first ones, legal, in its order.   *)
NodesRead ==
  /\ Len(spec.nodes) <= Len(file.nodes)
  /\ \A i \in DOMAIN spec.nodes :
       /\ ~NodeRefused(file.nodes[i])
       /\ spec.nodes[i] = [file.nodes[i] EXCEPT !.role = Or(@, "replica")]

ConfigInv ==
  /\ LoadTypeOK
  /\ load = "header" => spec.nodes = <<>>
  /\ load = "nodes" => HeaderRead /\ NodesRead
  /\ SpecRelyOn /\ DefaultsFillGaps /\ RefusedForCause

(* Other nodes make a specification of the same header.                       *)
LEMMA OtherNodes ==
  ASSUME spec \in ClusterSpecs, NEW nodes \in Seq(FileNodes)
  PROVE  LET s == [spec EXCEPT !.nodes = nodes]
         IN  /\ s \in ClusterSpecs /\ s.nodes = nodes
             /\ s.threshold = spec.threshold /\ s.wait = spec.wait
             /\ s.semiSync = spec.semiSync /\ s.salvage = spec.salvage
<1> DEFINE names == Seq(STRING)
           lists == Seq(FileNodes)
<1>1. spec \in SpecsOf(names, lists) /\ nodes \in lists
  BY DEF ClusterSpecs
<1> HIDE DEF names, lists
<1>2. LET s == [spec EXCEPT !.nodes = nodes]
      IN  /\ s \in SpecsOf(names, lists) /\ s.nodes = nodes
          /\ s.threshold = spec.threshold /\ s.wait = spec.wait
          /\ s.semiSync = spec.semiSync /\ s.salvage = spec.salvage
  BY <1>1 DEF SpecsOf
<1> QED
  BY <1>2 DEF ClusterSpecs, names, lists

(* The nodes still to be read are the file's.                                 *)
LEMMA LoadTypeFacts ==
  ASSUME LoadTypeOK
  PROVE  /\ file.header \in FileHeaders /\ file.nodes \in Seq(FileNodes)
         /\ spec.nodes \in Seq(FileNodes)
         /\ Unread => NextNode \in FileNodes /\ Len(spec.nodes) + 1 \in DOMAIN file.nodes
BY DEF LoadTypeOK, ClusterSpecs, SpecsOf, Unread, NextNode

LEMMA ConfigInvInit == ConfigInit => ConfigInv
<1> SUFFICES ASSUME ConfigInit PROVE ConfigInv
  OBVIOUS
<1>1. PICK h \in Headers, k \in 0..MaxNodes : \E ns \in [1..k -> Entries] :
        file = [header |-> h, nodes |-> ns]
  BY DEF ConfigInit
<1>2. PICK ns \in [1..k -> Entries] : file = [header |-> h, nodes |-> ns]
  BY <1>1
<1>3. ns \in Seq(FileNodes)
  BY FileAssumption
<1>4. file \in [header : FileHeaders, nodes : Seq(FileNodes)]
  BY <1>2, <1>3, FileAssumption
<1>5. spec \in ClusterSpecs
  <2> DEFINE names == Seq(STRING)
             lists == Seq(FileNodes)
  <2>1. <<>> \in names /\ <<>> \in lists
    OBVIOUS
  <2> HIDE DEF names, lists
  <2>2. spec \in SpecsOf(names, lists)
    BY <2>1 DEF ConfigInit, SpecsOf
  <2> QED
    BY <2>2 DEF ClusterSpecs, names, lists
<1> QED
  BY <1>4, <1>5
     DEF ConfigInit, ConfigInv, LoadTypeOK, SpecRelyOn, DefaultsFillGaps, RefusedForCause, Accepted

(* What the code refuses a node for is an error of that node.                 *)
LEMMA RefusedNode ==
  ASSUME NEW n \in FileNodes, NodeRefused(n)
  PROVE  n.id = Blank \/ ~n.host \/ n.series \in {Blank, "odd"} \/ n.role = "odd"
         \/ Cardinality({c \in {"replUser", "replPassword"} : n[c]}) = 1
<1>1. CASE n.replUser # n.replPassword
  <2>1. \E c \in {"replUser", "replPassword"} :
          {d \in {"replUser", "replPassword"} : n[d]} = {c}
    <3>1. CASE n.replUser
      BY <1>1, <3>1 DEF FileNodes
    <3>2. CASE n.replPassword
      BY <1>1, <3>2 DEF FileNodes
    <3> QED
      BY <1>1, <3>1, <3>2 DEF FileNodes
  <2> QED
    BY <2>1, FS_Singleton
<1> QED
  BY <1>1 DEF NodeRefused, FileNodes

(* The primaries the file expects are the nodes it marks.                     *)
LEMMA ExpectedFacts ==
  ASSUME LoadTypeOK, NodesRead
  PROVE  /\ IsFiniteSet(Expected)
         /\ \A i \in DOMAIN spec.nodes : i \in Expected <=> file.nodes[i].role = "primary"
         /\ Cardinality(Expected) > 1 => \E i, j \in Expected : i # j
         /\ Cardinality(Expected) <= 1 /\ Expected # {} => Cardinality(Expected) = 1
<1>1. IsFiniteSet(Expected)
  <2>1. IsFiniteSet(1..Len(spec.nodes)) /\ DOMAIN spec.nodes = 1..Len(spec.nodes)
    BY LoadTypeFacts, FS_Interval
  <2> QED
    BY <2>1, FS_Subset DEF Expected
<1>2. ASSUME NEW i \in DOMAIN spec.nodes PROVE i \in Expected <=> file.nodes[i].role = "primary"
  <2>1. file.nodes[i] \in FileNodes
    BY LoadTypeFacts DEF NodesRead
  <2>2. spec.nodes[i] = [file.nodes[i] EXCEPT !.role = Or(@, "replica")]
    BY DEF NodesRead
  <2>3. spec.nodes[i].role = Or(file.nodes[i].role, "replica")
    BY <2>1, <2>2 DEF FileNodes
  <2> QED
    BY <2>3 DEF Expected, Or, Blank
<1>3. Cardinality(Expected) \in Nat /\ (Cardinality(Expected) = 0 <=> Expected = {})
  BY <1>1, FS_CardinalityType, FS_EmptySet
<1>4. ASSUME NEW i \in Expected, \A j \in Expected : i = j PROVE Cardinality(Expected) = 1
  <2>1. Expected = {i}
    BY <1>4
  <2> QED
    BY <2>1, FS_Singleton
<1> QED
  BY <1>1, <1>2, <1>3, <1>4

LEMMA ReadHeaderKeeps ==
  ASSUME ConfigInv, ReadHeader
  PROVE  ConfigInv'
<1> DEFINE h == file.header
<1>1. /\ load = "header" /\ ~HeaderRefused(h) /\ load' = "nodes" /\ UNCHANGED file
      /\ spec' = [spec EXCEPT
           !.threshold = IF h.threshold <= 0 THEN 3 ELSE h.threshold,
           !.wait      = IF h.wait < 0 THEN 0 ELSE h.wait,
           !.semiSync  = Or(h.semiSync, "preferred"),
           !.salvage   = Or(h.salvage, "salvage-if-possible"),
           !.observers = h.observers,
           !.fencing   = h.fencing]
  BY DEF ReadHeader
<1>2. h \in FileHeaders /\ spec \in ClusterSpecs
  BY LoadTypeFacts DEF ConfigInv, LoadTypeOK
<1> DEFINE names == Seq(STRING)
           lists == Seq(FileNodes)
<1>3. spec \in SpecsOf(names, lists)
  BY <1>2 DEF ClusterSpecs
<1>4. /\ h.threshold \in Int /\ h.wait \in Int
      /\ h.observers \in names /\ h.fencing \in names
  BY <1>2 DEF FileHeaders
<1>5. /\ Or(h.semiSync, "preferred") \in SemiSyncPolicies
      /\ Or(h.salvage, "salvage-if-possible") \in SalvagePolicies
  BY <1>1 DEF Or, HeaderRefused, SemiSyncPolicies, SalvagePolicies
<1> HIDE DEF names, lists
<1>6. spec' \in SpecsOf(names, lists) /\ HeaderRead' /\ spec'.nodes = spec.nodes
  <2>1. PICK t, w, semi, salv :
          /\ t = (IF h.threshold <= 0 THEN 3 ELSE h.threshold) /\ w = (IF h.wait < 0 THEN 0 ELSE h.wait)
          /\ semi = Or(h.semiSync, "preferred") /\ salv = Or(h.salvage, "salvage-if-possible")
    OBVIOUS
  <2>2. /\ t \in Int /\ t >= 1 /\ w \in Int /\ w >= 0
        /\ semi \in SemiSyncPolicies /\ salv \in SalvagePolicies
    BY <1>4, <1>5, <2>1
  <2>3. spec' = [spec EXCEPT !.threshold = t, !.wait = w, !.semiSync = semi, !.salvage = salv,
                             !.observers = h.observers, !.fencing = h.fencing]
    BY <1>1, <2>1, Zenon
  <2> HIDE DEF h
  <2> QED
    BY <1>3, <1>4, <2>2, <2>3 DEF SpecsOf, HeaderRead
<1>7. spec' \in ClusterSpecs
  BY <1>6 DEF ClusterSpecs, names, lists
<1>8. spec'.nodes = <<>>
  BY <1>1, <1>6 DEF ConfigInv
<1>9. NodesRead'
  BY <1>1, <1>8, LoadTypeFacts DEF NodesRead, ConfigInv
<1> QED
  BY <1>1, <1>6, <1>7, <1>9
     DEF ConfigInv, LoadTypeOK, SpecRelyOn, DefaultsFillGaps, RefusedForCause, Accepted

LEMMA ReadNodeKeeps ==
  ASSUME ConfigInv, ReadNode
  PROVE  ConfigInv'
<1> DEFINE n == [NextNode EXCEPT !.role = Or(@, "replica")]
           k == Len(spec.nodes)
<1>1. /\ load = "nodes" /\ Unread /\ ~NodeRefused(NextNode) /\ UNCHANGED <<file, load>>
      /\ spec' = [spec EXCEPT !.nodes = Append(@, n)]
  BY DEF ReadNode
<1>2. /\ NextNode \in FileNodes /\ k + 1 \in DOMAIN file.nodes
      /\ file.nodes \in Seq(FileNodes) /\ spec.nodes \in Seq(FileNodes) /\ spec \in ClusterSpecs
      /\ HeaderRead /\ NodesRead
  BY <1>1, LoadTypeFacts DEF ConfigInv, LoadTypeOK
<1>3. n \in FileNodes
  BY <1>2 DEF FileNodes, Or, NodeRoles
<1>4. spec' \in ClusterSpecs /\ spec'.nodes = Append(spec.nodes, n)
  <2>1. Append(spec.nodes, n) \in Seq(FileNodes)
    BY <1>2, <1>3
  <2>2. spec' = [spec EXCEPT !.nodes = Append(spec.nodes, n)]
    BY <1>1
  <2> QED
    BY <1>2, <2>1, <2>2, OtherNodes
<1>5. HeaderRead'
  <2>1. Append(spec.nodes, n) \in Seq(FileNodes)
    BY <1>2, <1>3
  <2> QED
    BY <1>1, <1>2, <2>1, OtherNodes DEF HeaderRead
<1>6. NodesRead'
  <2>1. Len(spec'.nodes) = k + 1 /\ k + 1 <= Len(file.nodes)
    BY <1>2, <1>3, <1>4
  <2>2. ASSUME NEW i \in DOMAIN spec'.nodes
        PROVE  /\ ~NodeRefused(file.nodes[i])
               /\ spec'.nodes[i] = [file.nodes[i] EXCEPT !.role = Or(@, "replica")]
    <3>1. CASE i = k + 1
      BY <1>1, <1>2, <1>3, <1>4, <3>1 DEF NextNode
    <3>2. CASE i # k + 1
      <4>1. i \in DOMAIN spec.nodes /\ spec'.nodes[i] = spec.nodes[i]
        BY <1>2, <1>3, <1>4, <3>2
      <4> QED
        BY <1>2, <4>1 DEF NodesRead
    <3> QED
      BY <3>1, <3>2
  <2> QED
    BY <1>1, <2>1, <2>2 DEF NodesRead
<1> QED
  BY <1>1, <1>4, <1>5, <1>6
     DEF ConfigInv, LoadTypeOK, SpecRelyOn, DefaultsFillGaps, RefusedForCause, Accepted

(* A load that refuses has found an error in the file.                        *)
LEMMA RefusalKeeps ==
  ASSUME ConfigInv, RefuseHeader \/ RefuseNodes \/ RefusePrimaries
  PROVE  ConfigInv'
<1>1. load' = "rejected" /\ UNCHANGED <<file, spec>>
  BY DEF RefuseHeader, RefuseNodes, RefusePrimaries, Reject
<1>2. RefusedForCause'
  <2>1. CASE RefuseHeader
    BY <1>1, <2>1 DEF RefuseHeader, RefusedForCause
  <2>2. CASE RefuseNodes /\ TooFew
    BY <1>1, <2>2 DEF TooFew, RefusedForCause
  <2>3. CASE RefuseNodes /\ ~TooFew
    <3>1. Unread /\ NodeRefused(NextNode)
      BY <2>3 DEF RefuseNodes
    <3>2. NextNode \in FileNodes /\ Len(spec.nodes) + 1 \in DOMAIN file.nodes
      BY <3>1, LoadTypeFacts DEF ConfigInv
    <3> QED
      BY <1>1, <3>1, <3>2, RefusedNode DEF RefusedForCause, NextNode
  <2>4. CASE RefusePrimaries
    <3>1. LoadTypeOK /\ NodesRead /\ Cardinality(Expected) > 1
      BY <2>4 DEF RefusePrimaries, ConfigInv
    <3>2. PICK i, j \in Expected : i # j
      BY <3>1, ExpectedFacts
    <3>3. DOMAIN spec.nodes \subseteq DOMAIN file.nodes
      BY <3>1, LoadTypeFacts DEF NodesRead
    <3>4. /\ i \in DOMAIN file.nodes /\ file.nodes[i].role = "primary"
          /\ j \in DOMAIN file.nodes /\ file.nodes[j].role = "primary"
      BY <3>1, <3>2, <3>3, ExpectedFacts DEF Expected
    <3> QED
      BY <1>1, <3>2, <3>4 DEF RefusedForCause
  <2> QED
    BY <2>1, <2>2, <2>3, <2>4
<1> QED
  BY <1>1, <1>2 DEF ConfigInv, LoadTypeOK, SpecRelyOn, DefaultsFillGaps, Accepted

(* The specification that is accepted has one primary, the first node if the  *)
(* file marks none.                                                           *)
LEMMA AcceptKeeps ==
  ASSUME ConfigInv, Accept
  PROVE  ConfigInv'
<1>1. /\ ~TooFew /\ ~Unread /\ Cardinality(Expected) <= 1 /\ load' = "accepted" /\ UNCHANGED file
      /\ spec' = IF Expected = {} THEN [spec EXCEPT !.nodes[1].role = "primary"] ELSE spec
      /\ LoadTypeOK /\ HeaderRead /\ NodesRead
  BY DEF Accept, ConfigInv
<1>2. /\ file.nodes \in Seq(FileNodes) /\ spec.nodes \in Seq(FileNodes) /\ spec \in ClusterSpecs
      /\ Len(spec.nodes) = Len(file.nodes) /\ Len(spec.nodes) >= 2
  BY <1>1, LoadTypeFacts DEF TooFew, Unread, NodesRead, LoadTypeOK
<1>3. DOMAIN spec.nodes = DOMAIN file.nodes
  BY <1>2
<1>4. ASSUME NEW i \in DOMAIN spec.nodes
      PROVE  /\ spec.nodes[i].role \in NodeRoles /\ spec.nodes[i].id # Blank
             /\ spec.nodes[i].replUser <=> spec.nodes[i].replPassword
             /\ spec.nodes[i].id = file.nodes[i].id
             /\ \/ spec.nodes[i].role = file.nodes[i].role
                \/ file.nodes[i].role = Blank /\ spec.nodes[i].role = "replica"
  <2>1. file.nodes[i] \in FileNodes /\ spec.nodes[i] \in FileNodes
    BY <1>2, <1>3
  <2>2. /\ ~NodeRefused(file.nodes[i])
        /\ spec.nodes[i] = [file.nodes[i] EXCEPT !.role = Or(@, "replica")]
    BY <1>1 DEF NodesRead
  <2>3. /\ spec.nodes[i].role = Or(file.nodes[i].role, "replica")
        /\ spec.nodes[i].id = file.nodes[i].id
        /\ spec.nodes[i].replUser = file.nodes[i].replUser
        /\ spec.nodes[i].replPassword = file.nodes[i].replPassword
    BY <2>1, <2>2 DEF FileNodes
  <2> QED
    BY <2>1, <2>2, <2>3 DEF NodeRefused, Or, NodeRoles, FileNodes
<1>5. CASE Expected # {}
  <2>1. Cardinality(Expected) = 1
    BY <1>1, <1>5, ExpectedFacts
  <2> QED
    BY <1>1, <1>2, <1>4, <1>5, <2>1
       DEF ConfigInv, LoadTypeOK, SpecRelyOn, DefaultsFillGaps, RefusedForCause, Expected, HeaderRead
<1>6. CASE Expected = {}
  <2> DEFINE first == [spec.nodes[1] EXCEPT !.role = "primary"]
             nodes == [spec.nodes EXCEPT ![1] = first]
  <2>1. 1 \in DOMAIN spec.nodes /\ spec.nodes[1] \in FileNodes
    BY <1>2
  <2>2. /\ first \in FileNodes /\ first.role = "primary" /\ first.id = spec.nodes[1].id
        /\ first.replUser = spec.nodes[1].replUser
        /\ first.replPassword = spec.nodes[1].replPassword
    BY <2>1 DEF FileNodes, NodeRoles
  <2>3. spec' = [spec EXCEPT !.nodes = nodes]
    BY <1>1, <1>6
  <2> HIDE DEF first
  <2>4. /\ nodes \in Seq(FileNodes) /\ Len(nodes) = Len(spec.nodes)
        /\ DOMAIN nodes = DOMAIN spec.nodes /\ nodes[1] = first
        /\ \A i \in DOMAIN spec.nodes \ {1} : nodes[i] = spec.nodes[i]
    BY <1>2, <2>1, <2>2
  <2> HIDE DEF nodes
  <2>5. /\ spec' \in ClusterSpecs /\ spec'.nodes = nodes /\ HeaderRead'
    <3>1. LET s == [spec EXCEPT !.nodes = nodes]
          IN  /\ s \in ClusterSpecs /\ s.nodes = nodes
              /\ s.threshold = spec.threshold /\ s.wait = spec.wait
              /\ s.semiSync = spec.semiSync /\ s.salvage = spec.salvage
      BY <1>2, <2>4, OtherNodes
    <3> QED
      BY <1>1, <2>3, <3>1 DEF HeaderRead
  <2>6. \A j \in DOMAIN file.nodes : file.nodes[j].role # "primary"
    BY <1>1, <1>3, <1>6, ExpectedFacts
  <2>7. Expected' = {1}
    <3>1. \A i \in DOMAIN nodes \ {1} : nodes[i].role # "primary"
      BY <1>6, <2>4 DEF Expected
    <3> QED
      BY <2>1, <2>2, <2>4, <2>5, <3>1 DEF Expected
  <2>8. Cardinality(Expected)' = 1
    BY <2>7, FS_Singleton
  <2>9. ASSUME NEW i \in DOMAIN nodes
        PROVE  /\ nodes[i].role \in NodeRoles /\ nodes[i].id # Blank
               /\ nodes[i].replUser <=> nodes[i].replPassword
               /\ nodes[i].id = file.nodes[i].id
               /\ i = 1 \/ nodes[i].role = spec.nodes[i].role
    <3>1. CASE i = 1
      BY <1>4, <2>1, <2>2, <2>4, <3>1 DEF NodeRoles
    <3>2. CASE i # 1
      BY <1>4, <2>4, <3>2
    <3> QED
      BY <3>1, <3>2
  <2>10. SpecRelyOn'
    BY <1>2, <2>4, <2>5, <2>8, <2>9 DEF SpecRelyOn, HeaderRead
  <2>11. DefaultsFillGaps'
    <3>1. \A i \in DOMAIN nodes :
            \/ nodes[i].role = file.nodes[i].role
            \/ file.nodes[i].role = Blank /\ nodes[i].role = "replica"
            \/ i = 1
      BY <1>4, <2>4, <2>9
    <3>2. Len(nodes) = Len(file.nodes) /\ spec'.nodes = nodes /\ file' = file
      BY <1>1, <1>2, <2>4, <2>5
    <3> QED
      BY <2>6, <2>9, <3>1, <3>2 DEF DefaultsFillGaps
  <2> QED
    BY <1>1, <2>5, <2>10, <2>11 DEF ConfigInv, LoadTypeOK, RefusedForCause
<1> QED
  BY <1>5, <1>6

LEMMA ConfigInvNext == ConfigInv /\ [ConfigNext]_configVars => ConfigInv'
<1> SUFFICES ASSUME ConfigInv, [ConfigNext]_configVars PROVE ConfigInv'
  OBVIOUS
<1>1. CASE RefuseHeader \/ RefuseNodes \/ RefusePrimaries
  BY <1>1, RefusalKeeps
<1>2. CASE ReadHeader
  BY <1>2, ReadHeaderKeeps
<1>3. CASE ReadNode
  BY <1>3, ReadNodeKeeps
<1>4. CASE Accept
  BY <1>4, AcceptKeeps
<1>5. CASE UNCHANGED configVars
  BY <1>5 DEF configVars, ConfigInv, LoadTypeOK, HeaderRead, NodesRead,
              SpecRelyOn, DefaultsFillGaps, RefusedForCause, Accepted, Expected
<1> QED
  BY <1>1, <1>2, <1>3, <1>4, <1>5 DEF ConfigNext

(* A load has read legal nodes only, in the order of the file, and ends with  *)
(* a specification the program can rely on or with the file's error.          *)
THEOREM ConfigInductive == ConfigSpec => []ConfigInv
<1>1. ConfigInit => ConfigInv
  BY ConfigInvInit
<1>2. ConfigInv /\ [ConfigNext]_configVars => ConfigInv'
  BY ConfigInvNext
<1> QED
  BY <1>1, <1>2, PTL DEF ConfigSpec

(* What LoadFile accepts is what every other part takes for granted: two      *)
(* nodes at least, one expected primary, known roles and policies.            *)
THEOREM SpecRelyOnHolds == ConfigSpec => []SpecRelyOn
<1>1. ConfigInv => SpecRelyOn
  BY DEF ConfigInv
<1> QED
  BY <1>1, ConfigInductive, PTL

(* Defaults fill gaps and change nothing that the file says.                  *)
THEOREM DefaultsFillGapsHolds == ConfigSpec => []DefaultsFillGaps
<1>1. ConfigInv => DefaultsFillGaps
  BY DEF ConfigInv
<1> QED
  BY <1>1, ConfigInductive, PTL

(* LoadFile refuses no file without an error.                                 *)
THEOREM RefusedForCauseHolds == ConfigSpec => []RefusedForCause
<1>1. ConfigInv => RefusedForCause
  BY DEF ConfigInv
<1> QED
  BY <1>1, ConfigInductive, PTL
=============================================================================
