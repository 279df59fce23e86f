--------------------------- MODULE DiscoveryProofs ---------------------------
(***************************************************************************)
(* What the proofs of both controllers need to know of the servers, of the *)
(* statements sent to them and of what an inspection finds.                *)
(***************************************************************************)
EXTENDS Discovery, FiniteSetTheorems, TLAPS

-----------------------------------------------------------------------------
(* What the SQL statements do to a server. *)

(* Every statement leaves a server in a well-formed state.                   *)
LEMMA StatementType ==
  ASSUME NEW s \in ServerStates, NEW p \in Nodes, NEW i
  PROVE  /\ SuperReadOnlyOn(s) \in ServerStates
         /\ ReadOnlyOn(s) \in ServerStates
         /\ PromoteStatement(i, s) \in ServerStates
         /\ RepointStatement(i, s, p) \in ServerStates
BY DEF ServerStates, SuperReadOnlyOn, ReadOnlyOn, PromoteStatement, RepointStatement,
       StopReplica, ResetReplicaAll, SuperReadOnlyOff, ReadOnlyOff, ChangeSource, StartReplica

(* No statement changes what a server has executed, nor takes it down; and   *)
(* repointing does not change whether it accepts writes.                     *)
LEMMA StatementFrame ==
  ASSUME NEW s \in ServerStates, NEW p \in Nodes, NEW i
  PROVE  /\ \A r \in {SuperReadOnlyOn(s), ReadOnlyOn(s), PromoteStatement(i, s),
                      RepointStatement(i, s, p)} : r.executed = s.executed /\ r.up = s.up
         /\ RepointStatement(i, s, p).readOnly = s.readOnly
         /\ RepointStatement(i, s, p).superReadOnly = s.superReadOnly
         /\ SuperReadOnlyOn(s).readOnly /\ ReadOnlyOn(s).readOnly
BY DEF ServerStates, SuperReadOnlyOn, ReadOnlyOn, PromoteStatement, RepointStatement,
       StopReplica, ResetReplicaAll, SuperReadOnlyOff, ReadOnlyOff, ChangeSource, StartReplica

(* A statement that succeeded or failed changes server n only, to s or not.  *)
LEMMA StatementOutcome ==
  ASSUME server \in [Nodes -> ServerStates], NEW n \in Nodes, NEW s \in ServerStates,
         Executed(n, s) \/ Errored(n, s)
  PROVE  /\ server' \in [Nodes -> ServerStates]
         /\ \A m \in Nodes \ {n} : server'[m] = server[m]
         /\ (server'[n] = s /\ server[n].up) \/ server'[n] = server[n]
BY DEF Executed, Errored

-----------------------------------------------------------------------------
(* What an inspection finds is a state a node may be in.                      *)
LEMMA InspectionType ==
  ASSUME ServersTypeOK, NEW n \in Nodes
  PROVE  Inspections(n) \subseteq NodeStates
<1>1. server[n] \in ServerStates
  BY DEF ServersTypeOK
<1>2. DeadState \in NodeStates
  BY DEF DeadState, NodeStates
<1>3. \A io \in BOOLEAN : Observation(n, io) \in NodeStates
  BY <1>1 DEF Observation, ServerStates, NodeStates
<1>4. IOReports(n) \subseteq BOOLEAN
  BY DEF IOReports
<1> QED
  BY <1>2, <1>3, <1>4 DEF Inspections

-----------------------------------------------------------------------------
(* What a replication event, a crash or a restart makes of a server.         *)
LEMMA EventType ==
  ASSUME NEW s \in ServerStates
  PROVE  /\ \A t \in Trx : Fetched(s, t) \in ServerStates /\ Applied(s, t) \in ServerStates
         /\ \A kept \in SUBSET Trx : Crashed(s, kept) \in ServerStates
         /\ \A ro, start \in BOOLEAN : Restarted(s, ro, start) \in ServerStates
<1>1. ASSUME NEW t \in Trx PROVE Fetched(s, t) \in ServerStates
  BY DEF Fetched, ServerStates
<1>2. ASSUME NEW t \in Trx PROVE Applied(s, t) \in ServerStates
  BY DEF Applied, ServerStates
<1>3. ASSUME NEW kept \in SUBSET Trx PROVE Crashed(s, kept) \in ServerStates
  BY DEF Crashed, ServerStates
<1>4. ASSUME NEW ro \in BOOLEAN, NEW start \in BOOLEAN
      PROVE  Restarted(s, ro, start) \in ServerStates
  <2>1. (start /\ s.source # NoSource) \in BOOLEAN
    OBVIOUS
  <2> QED
    BY <2>1 DEF Restarted, ServerStates
<1> QED
  BY <1>1, <1>2, <1>3, <1>4

(* What no event changes in a server, though r may have executed more than s. *)
Alike(r, s) ==
  /\ r.readOnly = s.readOnly /\ r.superReadOnly = s.superReadOnly
  /\ r.source = s.source /\ r.running = s.running
  /\ s.executed \subseteq r.executed

(* An event at a running server changes no mode and forgets no transaction.   *)
LEMMA EventFrame ==
  ASSUME NEW s \in ServerStates
  PROVE  /\ \A t \in Trx : /\ Alike(Fetched(s, t), s) /\ Fetched(s, t).up = s.up
                           /\ Fetched(s, t).executed = s.executed
                           /\ Alike(Applied(s, t), s) /\ Applied(s, t).up = s.up
         /\ \A kept \in SUBSET Trx : /\ Alike(Crashed(s, kept), s) /\ ~Crashed(s, kept).up
                                     /\ Crashed(s, kept).executed = s.executed \cup kept
         /\ \A ro, start \in BOOLEAN : Restarted(s, ro, start).executed = s.executed
<1>1. ASSUME NEW t \in Trx
      PROVE  /\ Alike(Fetched(s, t), s) /\ Fetched(s, t).up = s.up
             /\ Fetched(s, t).executed = s.executed
             /\ Alike(Applied(s, t), s) /\ Applied(s, t).up = s.up
  BY DEF Fetched, Applied, ServerStates, Alike
<1>2. ASSUME NEW kept \in SUBSET Trx
      PROVE  /\ Alike(Crashed(s, kept), s) /\ ~Crashed(s, kept).up
             /\ Crashed(s, kept).executed = s.executed \cup kept
  BY DEF Crashed, ServerStates, Alike
<1>3. ASSUME NEW ro \in BOOLEAN, NEW start \in BOOLEAN
      PROVE  Restarted(s, ro, start).executed = s.executed
  BY DEF Restarted, ServerStates
<1> QED
  BY <1>1, <1>2, <1>3

LEMMA ClientsType == ASSUME ServersTypeOK, Clients PROVE ServersTypeOK'
<1> USE DEF ServersTypeOK
<1>1. ASSUME NEW t \in Trx, NEW n \in Nodes, Begin(t, n) PROVE ServersTypeOK'
  BY <1>1, ServersAssumption DEF Begin, TrxStates
<1>2. ASSUME NEW t \in Trx, Rollback(t) PROVE ServersTypeOK'
  BY <1>2 DEF Rollback, TrxStates
<1>3. ASSUME NEW t \in Trx, Commit(t) PROVE ServersTypeOK'
  BY <1>3 DEF Commit, TrxStates
<1>4. ASSUME NEW t \in Trx, Publish(t) PROVE ServersTypeOK'
  BY <1>4 DEF Publish, TrxStates, ServerStates
<1> QED
  BY <1>1, <1>2, <1>3, <1>4 DEF Clients

LEMMA ReplicationType == ASSUME ServersTypeOK, Replication PROVE ServersTypeOK'
<1> USE DEF ServersTypeOK
<1>1. ASSUME NEW n \in Nodes, NEW t \in Trx, Fetch(n, t) PROVE ServersTypeOK'
  BY <1>1, EventType DEF Fetch
<1>2. ASSUME NEW n \in Nodes, NEW t \in Trx, Apply(n, t) PROVE ServersTypeOK'
  BY <1>2, EventType DEF Apply
<1> QED
  BY <1>1, <1>2 DEF Replication

(* A server goes down: by a crash, or taken down.                             *)
LEMMA GoDownType ==
  ASSUME ServersTypeOK, NEW n \in Nodes, GoDown(n)
  PROVE  /\ server' \in [Nodes -> ServerStates] /\ trx' \in [Trx -> TrxStates]
         /\ \A m \in Nodes \ {n} : server'[m] = server[m]
         /\ Alike(server'[n], server[n]) /\ ~server'[n].up
         /\ DownInv => DownInv'
         /\ DownInv /\ ~server[n].up => server'[n].executed = server[n].executed
<1> USE DEF ServersTypeOK
<1>1. PICK kept \in SUBSET {t \in Trx : trx[t].node = n /\ trx[t].state = "leaving"} :
        /\ server' = [server EXCEPT ![n] = Crashed(@, kept)]
        /\ trx' = [t \in Trx |->
             IF trx[t].node # n \/ trx[t].state \in {"idle", "committed"} THEN trx[t]
             ELSE [trx[t] EXCEPT !.state = IF t \in kept THEN "committed" ELSE "idle"]]
  BY DEF GoDown
<1>2. /\ server' \in [Nodes -> ServerStates]
      /\ \A m \in Nodes \ {n} : server'[m] = server[m]
      /\ Alike(server'[n], server[n]) /\ ~server'[n].up
      /\ server'[n].executed = server[n].executed \cup kept
  BY <1>1, EventType, EventFrame
<1>3. trx' \in [Trx -> TrxStates]
  BY <1>1 DEF TrxStates
<1>4. ASSUME NEW t \in Trx, trx'[t].state \in {"active", "leaving"}
      PROVE  trx'[t] = trx[t] /\ trx[t].node # n
  BY <1>1, <1>4 DEF TrxStates
<1>5. DownInv => DownInv'
  BY <1>2, <1>4 DEF DownInv, TrxStates
<1>6. DownInv /\ ~server[n].up => kept = {}
  BY DEF DownInv
<1> QED
  BY <1>2, <1>3, <1>5, <1>6

(* Clients and replication change no mode and no channel, and add nothing to  *)
(* a server that is down.                                                     *)
LEMMA TrafficFrame ==
  ASSUME ServersTypeOK, Clients \/ Replication
  PROVE  /\ \A n \in Nodes : Alike(server'[n], server[n]) /\ server'[n].up = server[n].up
         /\ DownInv => /\ DownInv'
                       /\ \A n \in Nodes : ~server[n].up => server'[n].executed = server[n].executed
<1> USE DEF ServersTypeOK
<1>1. ASSUME NEW t \in Trx, Rollback(t) \/ Commit(t) \/ \E n \in Nodes : Begin(t, n)
      PROVE  /\ UNCHANGED server
             /\ DownInv => DownInv'
  BY <1>1 DEF Rollback, Commit, Begin, DownInv, TrxStates
<1>2. ASSUME NEW t \in Trx, Publish(t)
      PROVE  /\ \A n \in Nodes : Alike(server'[n], server[n]) /\ server'[n].up = server[n].up
             /\ DownInv => DownInv' /\ server[trx[t].node].up
             /\ \A n \in Nodes \ {trx[t].node} : server'[n] = server[n]
  <2>1. trx[t].node \in Nodes
    BY DEF TrxStates
  <2>2. \A n \in Nodes : Alike(server'[n], server[n]) /\ server'[n].up = server[n].up
    BY <1>2, <2>1 DEF Publish, Alike, ServerStates
  <2>3. \A n \in Nodes \ {trx[t].node} : server'[n] = server[n]
    BY <1>2, <2>1 DEF Publish
  <2>4. DownInv => DownInv' /\ server[trx[t].node].up
    BY <1>2, <2>2 DEF Publish, DownInv, TrxStates
  <2> QED
    BY <2>2, <2>3, <2>4
<1>3. ASSUME NEW n \in Nodes, NEW t \in Trx, Fetch(n, t) \/ Apply(n, t)
      PROVE  /\ Alike(server'[n], server[n]) /\ server'[n].up = server[n].up /\ server[n].up
             /\ \A m \in Nodes \ {n} : server'[m] = server[m]
             /\ UNCHANGED trx
  BY <1>3, EventFrame DEF Fetch, Apply
<1>4. CASE Replication
  <2>1. PICK n \in Nodes, t \in Trx : Fetch(n, t) \/ Apply(n, t)
    BY <1>4 DEF Replication
  <2>2. \A m \in Nodes : Alike(server'[m], server[m]) /\ server'[m].up = server[m].up
    BY <1>3, <2>1 DEF Alike
  <2>3. DownInv => DownInv'
    BY <1>3, <2>1, <2>2 DEF DownInv, TrxStates
  <2> QED
    BY <1>3, <2>1, <2>2, <2>3
<1>5. CASE Clients
  BY <1>1, <1>2, <1>5 DEF Clients, Alike
<1> QED
  BY <1>4, <1>5

LEMMA RecoverFrame ==
  ASSUME ServersTypeOK, NEW n \in Nodes, Recover(n)
  PROVE  /\ \A m \in Nodes \ {n} : server'[m] = server[m]
         /\ server'[n].executed = server[n].executed /\ server'[n].up /\ UNCHANGED trx
         /\ DownInv => DownInv'
<1>1. PICK ro, start \in BOOLEAN : server' = [server EXCEPT ![n] = Restarted(@, ro, start)]
  BY DEF Recover
<1>2. /\ \A m \in Nodes \ {n} : server'[m] = server[m]
      /\ server'[n].executed = server[n].executed
  BY <1>1, EventFrame DEF ServersTypeOK
<1>3. server'[n].up /\ UNCHANGED trx
  BY <1>1 DEF Recover, Restarted, ServersTypeOK, ServerStates
<1> QED
  BY <1>2, <1>3 DEF DownInv, ServersTypeOK, TrxStates

LEMMA FaultsType ==
  ASSUME ServersTypeOK, NEW n \in Nodes, Crash(n) \/ Recover(n)
  PROVE  ServersTypeOK'
<1>1. CASE Crash(n)
  <2>1. crashes' \in 0..MaxCrashes
    BY <1>1, ServersAssumption DEF Crash, ServersTypeOK
  <2> QED
    BY <1>1, <2>1, GoDownType DEF Crash, ServersTypeOK
<1>2. CASE Recover(n)
  BY <1>2, EventType DEF Recover, ServersTypeOK
<1> QED
  BY <1>1, <1>2

(* A fault keeps every channel.                                               *)
LEMMA FaultSource ==
  ASSUME ServersTypeOK, NEW n \in Nodes, Crash(n) \/ Recover(n)
  PROVE  \A m \in Nodes : server'[m].source = server[m].source
<1>1. CASE Crash(n)
  BY <1>1, GoDownType DEF Crash, Alike
<1>2. CASE Recover(n)
  <2>1. PICK ro, start \in BOOLEAN : server' = [server EXCEPT ![n] = Restarted(@, ro, start)]
    BY <1>2 DEF Recover
  <2>2. server'[n].source = server[n].source
    BY <2>1 DEF Restarted, ServersTypeOK, ServerStates
  <2> QED
    BY <2>1, <2>2 DEF ServersTypeOK
<1> QED
  BY <1>1, <1>2

-----------------------------------------------------------------------------
(* The election of a primary. *)

(* What a discovery has found of a node is what no event changes: its         *)
(* channel.  A node without a channel that answers is alive, not suspect.     *)
Sighted(v) ==
  \A n \in Nodes : v[n] # Unseen =>
    IF v[n].health = "dead" THEN v[n] = DeadState
    ELSE /\ v[n].source = server[n].source
         /\ v[n].source = NoSource => v[n].health = "alive"

(* The weights of everything but the replicas add up to less than one of them. *)
LEMMA ScoreBounds ==
  ASSUME NEW v, NEW n, NEW refs \in Nat, UpstreamRefs(v, n) = refs
  PROVE  /\ PrimaryScore(v, n) \in (100 * refs)..(100 * refs + 38)
         /\ v[n].health = "alive" /\ v[n].source = NoSource => PrimaryScore(v, n) >= 100 * refs + 30
         /\ v[n].health = "dead" => PrimaryScore(v, n) <= 100 * refs + 18
<1> DEFINE a == Points(v[n].health = "alive", 20)
           b == Points(v[n].source = NoSource, 10)
           c == Points(~v[n].readOnly /\ ~v[n].superReadOnly, 5)
           d == Points(NodeSpec[n].role = "primary", 3)
<1>1. a \in {0, 20} /\ b \in {0, 10} /\ c \in {0, 5} /\ d \in {0, 3}
  BY DEF Points
<1>2. v[n].health = "alive" /\ v[n].source = NoSource => a = 20 /\ b = 10
  BY DEF Points
<1>3. v[n].health = "dead" => a = 0
  BY DEF Points
<1>4. PrimaryScore(v, n) = 100 * refs + a + b + c + d
  BY DEF PrimaryScore
<1> HIDE DEF a, b, c, d
<1> QED
  BY <1>1, <1>2, <1>3, <1>4

(* A node counts for nothing if no channel points at it.                      *)
LEMMA UpstreamFacts ==
  ASSUME IsFiniteSet(Nodes), NEW v, NEW n
  PROVE  /\ UpstreamRefs(v, n) \in Nat
         /\ UpstreamRefs(v, n) = 0 <=> \A m \in Nodes : v[m].source # n
<1> DEFINE refs == {m \in Nodes : v[m].source = n}
<1>1. IsFiniteSet(refs) /\ Cardinality(refs) \in Nat /\ UpstreamRefs(v, n) = Cardinality(refs)
  BY FS_Subset, FS_CardinalityType DEF UpstreamRefs
<1>2. Cardinality(refs) = 0 <=> refs = {}
  BY <1>1, FS_EmptySet
<1> QED
  BY <1>1, <1>2

(* The only node that channels point at is elected, dead or alive.            *)
LEMMA ReferredWins ==
  ASSUME IsFiniteSet(Nodes), NEW v, NEW p \in Nodes, NEW q \in Nodes, IsPrimary(v, q),
         \E m \in Nodes : v[m].source = p,
         \A m \in Nodes, n \in Nodes \ {p} : v[m].source # n
  PROVE  q = p
<1> SUFFICES ASSUME q # p PROVE FALSE
  OBVIOUS
<1>1. PICK k \in Nat \ {0} : UpstreamRefs(v, p) = k
  BY UpstreamFacts
<1>2. UpstreamRefs(v, q) = 0
  BY UpstreamFacts
<1>3. PrimaryScore(v, p) \in (100 * k)..(100 * k + 38) /\ PrimaryScore(v, q) \in 0..38
  BY <1>1, <1>2, ScoreBounds
<1>4. PrimaryScore(v, q) > PrimaryScore(v, p) \/ PrimaryScore(v, q) = PrimaryScore(v, p)
  BY <1>3 DEF IsPrimary
<1> QED
  BY <1>3, <1>4

(* An inspection sights its node.                                             *)
LEMMA InspectionSighted ==
  ASSUME NEW v, DOMAIN v = Nodes, Sighted(v), NEW n \in Nodes, server[n] \in ServerStates,
         NEW state \in Inspections(n)
  PROVE  Sighted([v EXCEPT ![n] = state])
<1>1. CASE state = DeadState
  BY <1>1 DEF Sighted, DeadState
<1>2. ASSUME NEW io \in IOReports(n), state = Observation(n, io)
      PROVE  state.source = server[n].source /\ (state.source = NoSource => state.health = "alive")
             /\ state.health # "dead"
  BY <1>2 DEF Observation
<1>3. CASE state # DeadState
  BY <1>2, <1>3 DEF Inspections, Sighted
<1> QED
  BY <1>1, <1>3
=============================================================================
