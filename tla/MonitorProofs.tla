---------------------------- MODULE MonitorProofs ----------------------------
(***************************************************************************)
(* Machine-checked proofs about Monitor, for every cluster, every          *)
(* threshold, every number of sessions, failovers, crashes and switchovers *)
(* beside the manager.                                                     *)
(***************************************************************************)
EXTENDS Monitor, FailoverProofs

(* MissedProbes with the types it relies on, and the fact that rediscovery    *)
(* starts from nothing: an inductive invariant.                               *)
Counters ==
  /\ failureCount \in Nat
  /\ silence \in [Nodes -> Nat]
  /\ known \in [primary : Nodes, replicas : SUBSET Nodes]
  /\ DOMAIN seen = Nodes
  /\ phase \in {"healthy", "suspect", "secondary-check"} => seen = Unknown

MonitorInv == Counters /\ MissedProbes

(* The configured threshold, or the default for one that is not positive.     *)
LEMMA ThresholdPositive == Threshold \in Nat \ {0}
BY MonitorAssumption DEF Threshold

(* A view that was reset is unseen everywhere.                                *)
LEMMA UnknownUnseen == DOMAIN Unknown = Nodes /\ \A n \in Nodes : Unknown[n].health = "unseen"
BY DEF Unknown, Unseen

LEMMA HeldType ==
  ASSUME NEW p \in Nodes
  PROVE  Held(p) \in [primary : Nodes, replicas : SUBSET Nodes] /\ Held(p).primary = p
BY DEF Held

(* A sign of life resets the silence of one node, a miss lengthens it, up to  *)
(* the bound.                                                                 *)
LEMMA SilenceStep ==
  ASSUME silence \in [Nodes -> Nat], NEW n \in Nodes, Heard(n) \/ Missed(n)
  PROVE  /\ silence' \in [Nodes -> Nat]
         /\ \A m \in Nodes \ {n} : silence'[m] = silence[m]
         /\ Missed(n) => silence'[n] >= silence[n]
         /\ Missed(n) => silence'[n] > Threshold \/ silence'[n] = silence[n] + 1
BY ThresholdPositive DEF Heard, Missed

LEMMA InitMonitor == MonitorInit => MonitorInv
<1> SUFFICES ASSUME MonitorInit PROVE MonitorInv
  OBVIOUS
<1> QED
  BY FailoverAssumption, UnknownUnseen DEF MonitorInit, MonitorInv, Counters, MissedProbes

-----------------------------------------------------------------------------
(* The steps of the loop. *)

LEMMA StartStep == MonitorInv /\ Start => MonitorInv'
BY UnknownUnseen DEF MonitorInv, Counters, MissedProbes, Start

LEMMA StopStep == MonitorInv /\ Stop => MonitorInv'
BY DEF MonitorInv, Counters, MissedProbes, Stop

(* Rediscovery: a node that was found dead has been silent once more.         *)
LEMMA RediscoverStep ==
  ASSUME MonitorInv, NEW n \in Nodes, Rediscover(n)
  PROVE  MonitorInv'
<1> DEFINE p == known.primary
<1>1. /\ p \in Nodes /\ known' = known /\ failureCount' = failureCount /\ phase' = phase
      /\ phase \in {"init", "reconfirm-topology"}
  BY DEF MonitorInv, Counters, Rediscover, In
<1>2. PICK state \in Inspections(n) :
                   /\ seen' = [seen EXCEPT ![n] = state]
                   /\ IF state.health = "dead" THEN Missed(n) ELSE Heard(n)
  BY DEF Rediscover
<1>3. Counters'
  <2>1. silence' \in [Nodes -> Nat]
    BY <1>2, SilenceStep DEF MonitorInv, Counters
  <2> QED
    BY <1>1, <1>2, <2>1 DEF MonitorInv, Counters
<1>4. CASE n = p
  <2>1. seen[p].health = "unseen"
    BY <1>4 DEF Rediscover, Unseen
  <2>2. phase = "reconfirm-topology" => silence[p] >= Threshold
    BY <2>1 DEF MonitorInv, MissedProbes
  <2>3. seen'[p] = state
    BY <1>2, <1>4 DEF MonitorInv, Counters
  <2>4. phase = "reconfirm-topology" /\ state.health = "dead" => silence'[p] > Threshold
    BY <1>2, <1>4, <2>2, SilenceStep, ThresholdPositive DEF MonitorInv, Counters
  <2>5. state.health # "unseen"
    BY <1>2 DEF Inspections, DeadState, Observation, Unseen
  <2> QED
    BY <1>1, <1>3, <2>3, <2>4, <2>5 DEF MonitorInv, MissedProbes
<1>5. CASE n # p
  <2>1. silence'[p] = silence[p]
    BY <1>1, <1>2, <1>5, SilenceStep DEF MonitorInv, Counters
  <2>2. seen'[p] = seen[p]
    BY <1>1, <1>2, <1>5 DEF MonitorInv, Counters
  <2> QED
    BY <1>1, <1>3, <2>1, <2>2 DEF MonitorInv, MissedProbes
<1> QED
  BY <1>4, <1>5

LEMMA InitialDiscoveryStep == MonitorInv /\ InitialDiscovery => MonitorInv'
<1> SUFFICES ASSUME MonitorInv, InitialDiscovery PROVE MonitorInv'
  OBVIOUS
<1>1. DOMAIN seen' = Nodes /\ seen' = Unknown
  BY UnknownUnseen DEF InitialDiscovery
<1>2. phase = "init" /\ failureCount = 0 /\ failureCount' = 0 /\ silence' = silence
  BY DEF InitialDiscovery, In, MonitorInv, MissedProbes
<1>3. CASE Discoverable(seen)
  <2>1. known' \in [primary : Nodes, replicas : SUBSET Nodes] /\ phase' = "healthy"
    BY <1>3, HeldType DEF InitialDiscovery
  <2> QED
    BY <1>1, <1>2, <2>1, ThresholdPositive DEF MonitorInv, Counters, MissedProbes
<1>4. CASE ~Discoverable(seen)
  <2>1. known' = known /\ phase' = "init"
    BY <1>2, <1>4 DEF InitialDiscovery
  <2> QED
    BY <1>1, <1>2, <2>1 DEF MonitorInv, Counters, MissedProbes
<1> QED
  BY <1>3, <1>4

(* A probe that fails makes the count and the silence of the primary grow     *)
(* together.                                                                  *)
LEMMA ProbeStep == MonitorInv /\ (ProbeSucceeded \/ ProbeFailed) => MonitorInv'
<1> SUFFICES ASSUME MonitorInv, ProbeSucceeded \/ ProbeFailed PROVE MonitorInv'
  OBVIOUS
<1> DEFINE p == known.primary
<1>1. p \in Nodes /\ known' = known /\ seen' = seen /\ phase \in {"healthy", "suspect"}
  BY DEF MonitorInv, Counters, ProbeSucceeded, ProbeFailed, Probing, In
<1>2. failureCount < Threshold /\ failureCount <= silence[p]
  BY <1>1 DEF MonitorInv, MissedProbes
<1>3. silence' \in [Nodes -> Nat]
  BY <1>1, SilenceStep DEF MonitorInv, Counters, ProbeSucceeded, ProbeFailed
<1>4. CASE ProbeSucceeded
  BY <1>1, <1>3, <1>4, ThresholdPositive DEF ProbeSucceeded, MonitorInv, Counters, MissedProbes
<1>5. CASE ProbeFailed
  <2>1. failureCount' = failureCount + 1 /\ failureCount' \in Nat
    BY <1>5 DEF ProbeFailed, MonitorInv, Counters
  <2>2. failureCount' <= Threshold /\ failureCount' <= silence'[p]
    BY <1>1, <1>2, <1>5, <2>1, SilenceStep, ThresholdPositive
       DEF ProbeFailed, MonitorInv, Counters
  <2>3. phase' = IF failureCount' >= Threshold THEN "secondary-check" ELSE "suspect"
    BY <1>5, <2>1 DEF ProbeFailed
  <2> QED
    BY <1>1, <1>3, <2>1, <2>2, <2>3, ThresholdPositive DEF MonitorInv, Counters, MissedProbes
<1> QED
  BY <1>4, <1>5

LEMMA SecondaryStep == MonitorInv /\ (SecondaryPositive \/ SecondaryNegative) => MonitorInv'
<1> SUFFICES ASSUME MonitorInv, SecondaryPositive \/ SecondaryNegative PROVE MonitorInv'
  OBVIOUS
<1> DEFINE p == known.primary
<1>1. p \in Nodes /\ known' = known /\ seen' = seen /\ phase = "secondary-check"
  BY DEF MonitorInv, Counters, SecondaryPositive, SecondaryNegative, In
<1>2. CASE SecondaryPositive
  <2>1. silence' \in [Nodes -> Nat]
    BY <1>1, <1>2, SilenceStep DEF MonitorInv, Counters, SecondaryPositive
  <2> QED
    BY <1>1, <1>2, <2>1, ThresholdPositive DEF SecondaryPositive, MonitorInv, Counters, MissedProbes
<1>3. CASE SecondaryNegative
  <2>1. seen[p].health = "unseen" /\ silence[p] >= Threshold
    BY <1>1, UnknownUnseen DEF MonitorInv, Counters, MissedProbes
  <2> QED
    BY <1>1, <1>3, <2>1 DEF SecondaryNegative, MonitorInv, Counters, MissedProbes
<1> QED
  BY <1>2, <1>3

LEMMA ReconfirmStep == MonitorInv /\ Reconfirm => MonitorInv'
<1> SUFFICES ASSUME MonitorInv, Reconfirm PROVE MonitorInv'
  OBVIOUS
<1>1. /\ failureCount' \in Nat /\ silence' = silence /\ seen' = Unknown
      /\ phase' = "dead-confirmed" \/ (phase' = "healthy" /\ failureCount' = 0)
  BY DEF Reconfirm, MonitorInv, Counters
<1>2. known' \in [primary : Nodes, replicas : SUBSET Nodes]
  BY HeldType DEF Reconfirm, MonitorInv, Counters
<1> QED
  BY <1>1, <1>2, UnknownUnseen, ThresholdPositive DEF MonitorInv, Counters, MissedProbes

(* Neither the failover nor anything beside the manager touches its state.    *)
LEMMA OtherStep ==
  ASSUME MonitorInv,
         UNCHANGED <<failureCount, known, seen, silence>>,
         phase' = phase \/ phase' = "failover"
  PROVE  MonitorInv'
BY DEF MonitorInv, Counters, MissedProbes

LEMMA NextStep == MonitorInv /\ [MonitorNext]_allVars => MonitorInv'
<1> SUFFICES ASSUME MonitorInv, [MonitorNext]_allVars PROVE MonitorInv'
  OBVIOUS
<1>1. CASE Start \/ Stop
  BY <1>1, StartStep, StopStep
<1>2. CASE Tick
  <2>1. CASE \E n \in Nodes : Rediscover(n)
    BY <2>1, RediscoverStep
  <2>2. CASE InitialDiscovery \/ ProbeSucceeded \/ ProbeFailed
    BY <2>2, InitialDiscoveryStep, ProbeStep
  <2>3. CASE SecondaryPositive \/ SecondaryNegative \/ Reconfirm
    BY <2>3, SecondaryStep, ReconfirmStep
  <2>4. CASE HandOver \/ HandlerReturned
    BY <2>4, OtherStep DEF HandOver, HandlerReturned
  <2> QED
    BY <1>2, <2>1, <2>2, <2>3, <2>4 DEF Tick
<1>3. CASE UNCHANGED monitorVars
  BY <1>3, OtherStep DEF monitorVars
<1>4. CASE \E p, c \in Nodes : OperatorSwitch(p, c)
  BY <1>4, OtherStep DEF OperatorSwitch
<1>5. CASE UNCHANGED allVars
  BY <1>3, <1>5 DEF allVars
<1> QED
  BY <1>1, <1>2, <1>3, <1>4, <1>5 DEF MonitorNext

(* Every state of every manager satisfies the invariant.                      *)
THEOREM MonitorInductive == MonitorSpec => []MonitorInv
<1>1. MonitorInit => MonitorInv
  BY InitMonitor
<1>2. MonitorInv /\ [MonitorNext]_allVars => MonitorInv'
  BY NextStep
<1> QED
  BY <1>1, <1>2, PTL DEF MonitorSpec

(* The replicas are asked, and the topology is rediscovered, only after the   *)
(* primary held missed Threshold probes in a row (Engine.step).               *)
THEOREM MissedProbesHolds == MonitorSpec => []MissedProbes
<1>1. MonitorInv => MissedProbes
  BY DEF MonitorInv
<1> QED
  BY <1>1, MonitorInductive, PTL

(* A death is confirmed in one step only: the one that judges a rediscovery.  *)
LEMMA OnlyReconfirm ==
  ASSUME [MonitorNext]_allVars, phase # "dead-confirmed", phase' = "dead-confirmed"
  PROVE  Reconfirm
<1>1. CASE Start \/ Stop
  BY <1>1 DEF Start, Stop
<1>2. CASE Tick
  BY <1>2 DEF Tick, Rediscover, InitialDiscovery, ProbeSucceeded, ProbeFailed,
              SecondaryPositive, SecondaryNegative, HandOver, HandlerReturned
<1>3. CASE UNCHANGED monitorVars
  BY <1>3 DEF monitorVars
<1>4. CASE \E p, c \in Nodes : OperatorSwitch(p, c)
  BY <1>4 DEF OperatorSwitch
<1>5. CASE UNCHANGED allVars
  BY <1>3, <1>5 DEF allVars
<1> QED
  BY <1>1, <1>2, <1>3, <1>4, <1>5 DEF MonitorNext

(* A death is confirmed only of a primary that missed Threshold probes and    *)
(* the rediscovery, unless that rediscovery elected another one: in the first *)
(* case of Reconfirm everybody was found dead, in the second the primary.     *)
THEOREM ConfirmedAfterProbesHolds == MonitorSpec => ConfirmedAfterProbes
<1>1. ASSUME MonitorInv, [MonitorNext]_allVars, phase # "dead-confirmed",
             phase' = "dead-confirmed", known'.primary = known.primary
      PROVE  silence[known.primary] > Threshold
  <2>1. Reconfirm
    BY <1>1, OnlyReconfirm
  <2>2. known.primary \in Nodes
    BY <1>1 DEF MonitorInv, Counters
  <2>3. seen[known.primary].health = "dead"
    <3>1. CASE ~Discoverable(seen)
      BY <2>2, <3>1 DEF Discoverable
    <3>2. CASE Discoverable(seen)
      BY <1>1, <2>1, <3>2, HeldType DEF Reconfirm
    <3> QED
      BY <3>1, <3>2
  <2> QED
    BY <1>1, <2>1, <2>3 DEF Reconfirm, In, MonitorInv, MissedProbes
<1>2. MonitorInv /\ [MonitorNext]_allVars
        => [phase # "dead-confirmed" /\ phase' = "dead-confirmed" /\ known'.primary = known.primary
              => silence[known.primary] > Threshold]_allVars
  BY <1>1
<1> QED
  BY <1>2, MonitorInductive, PTL DEF MonitorSpec, ConfirmedAfterProbes

-----------------------------------------------------------------------------
(* Types, beside whatever the failover and an operator's switchover do to the *)
(* servers.                                                                   *)
Ranges ==
  /\ WellFormed
  /\ phase \in Phases
  /\ failureCount <= Threshold
  /\ seen \in [Nodes -> NodeStates \cup {Unseen}]
  /\ record \in {"none", "running", "aborted", "failed", "succeeded"}
  /\ starts \in 0..MaxStarts
  /\ switches \in 0..MaxSwitches
  /\ silence \in [Nodes -> 0..(Threshold + 1)]

LEMMA StutterWellFormed == ASSUME WellFormed, UNCHANGED vars PROVE WellFormed'
<1>1. UNCHANGED <<server, trx, crashes, step, stmt, item, todo, view, plan, original, endpoint,
                  status, runs, isolated, restarted>>
  BY DEF vars, serverVars, failoverVars, progress
<1>2. TypeOK'
  BY <1>1 DEF WellFormed, TypeOK, ServersTypeOK, Plans
<1> QED
  BY <1>1, <1>2 DEF WellFormed, ScriptInv, DownInv, Executing, old, cand, Verifiable

(* A switchover changes modes and channels, and takes no server down.         *)
LEMMA OperatorWellFormed ==
  ASSUME WellFormed, NEW p \in Nodes, NEW c \in Nodes, OperatorSwitch(p, c)
  PROVE  WellFormed'
<1>1. /\ UNCHANGED <<trx, crashes, step, stmt, item, todo, view, plan, original, status, runs,
                     isolated, restarted>>
      /\ endpoint' \in {endpoint, c}
  BY DEF OperatorSwitch, progress
<1>2. server \in [Nodes -> ServerStates] /\ endpoint \in Nodes
  BY DEF WellFormed, TypeOK, ServersTypeOK
<1>3. ASSUME NEW n \in Nodes
      PROVE  server'[n] \in ServerStates /\ server'[n].up = server[n].up
  <2>1. server'[n] = IF n = c THEN ReadOnlyOff(ResetReplicaAll(server[n]))
                     ELSE StartReplica(ChangeSource(SuperReadOnlyOn(server[n]), c))
    BY DEF OperatorSwitch
  <2>2. PICK s \in ServerStates : s = server[n]
    BY <1>2
  <2>3. /\ ReadOnlyOff(ResetReplicaAll(s)) \in ServerStates
        /\ ReadOnlyOff(ResetReplicaAll(s)).up = s.up
    BY DEF ReadOnlyOff, ResetReplicaAll, ServerStates
  <2>4. /\ StartReplica(ChangeSource(SuperReadOnlyOn(s), c)) \in ServerStates
        /\ StartReplica(ChangeSource(SuperReadOnlyOn(s), c)).up = s.up
    BY DEF StartReplica, ChangeSource, SuperReadOnlyOn, ServerStates
  <2> QED
    BY <2>1, <2>2, <2>3, <2>4
<1>4. server' = [n \in Nodes |-> server'[n]]
  BY DEF OperatorSwitch
<1>5. server' \in [Nodes -> ServerStates]
  BY <1>3, <1>4
<1>6. TypeOK'
  BY <1>1, <1>2, <1>5 DEF WellFormed, TypeOK, ServersTypeOK, Plans
<1>7. DownInv'
  BY <1>1, <1>3 DEF WellFormed, DownInv, TypeOK, ServersTypeOK, TrxStates
<1> QED
  BY <1>1, <1>6, <1>7 DEF WellFormed, ScriptInv, Executing, old, cand, Verifiable

LEMMA SilenceBound ==
  ASSUME silence \in [Nodes -> 0..(Threshold + 1)], NEW n \in Nodes, Heard(n) \/ Missed(n)
  PROVE  silence' \in [Nodes -> 0..(Threshold + 1)]
BY ThresholdPositive DEF Heard, Missed

LEMMA MonitorWellFormed == ASSUME WellFormed, [MonitorNext]_allVars PROVE WellFormed'
<1>1. CASE UNCHANGED vars
  BY <1>1, StutterWellFormed
<1>2. CASE Run \/ Planning \/ Execution \/ Kill \/ Environment
  BY <1>2, NextWellFormed DEF Next
<1>3. CASE \E p, c \in Nodes : OperatorSwitch(p, c)
  BY <1>3, OperatorWellFormed
<1>4. UNCHANGED vars \/ Run \/ Planning \/ Execution \/ Kill \/ Environment
        \/ \E p, c \in Nodes : OperatorSwitch(p, c)
  BY Zenon DEF MonitorNext, Tick, Start, Stop, Rediscover, InitialDiscovery, ProbeSucceeded,
     ProbeFailed, SecondaryPositive, SecondaryNegative, Reconfirm, HandOver, HandlerReturned,
     allVars, vars
<1> QED
  BY <1>1, <1>2, <1>3, <1>4

LEMMA SessionRanges ==
  ASSUME MonitorInv, Ranges, Start \/ Stop \/ Tick
  PROVE  Ranges'
<1>1. WellFormed'
  BY MonitorWellFormed DEF Ranges, MonitorNext
<1>2. known.primary \in Nodes /\ Threshold \in Nat \ {0} /\ failureCount \in Nat
  BY ThresholdPositive DEF MonitorInv, Counters
<1>3. UNCHANGED switches
  BY DEF Start, Stop, Tick, Rediscover, InitialDiscovery, ProbeSucceeded, ProbeFailed,
     SecondaryPositive, SecondaryNegative, Reconfirm, HandOver, HandlerReturned
<1>4. Unknown \in [Nodes -> NodeStates \cup {Unseen}]
  BY DEF Unknown
<1>5. CASE Start
  BY <1>1, <1>2, <1>3, <1>4, <1>5, MonitorAssumption DEF Start, Ranges, Phases
<1>6. CASE Stop
  BY <1>1, <1>3, <1>6 DEF Stop, Ranges
<1>7. ASSUME NEW n \in Nodes, Rediscover(n) PROVE Ranges'
  <2>1. /\ UNCHANGED <<phase, failureCount, record, starts>>
        /\ Heard(n) \/ Missed(n)
        /\ \E state \in Inspections(n) : seen' = [seen EXCEPT ![n] = state]
    BY <1>7 DEF Rediscover
  <2>2. Inspections(n) \subseteq NodeStates
    BY InspectionType DEF Ranges, WellFormed, TypeOK
  <2>3. silence' \in [Nodes -> 0..(Threshold + 1)]
    BY <2>1, SilenceBound DEF Ranges
  <2> QED
    BY <1>1, <1>3, <2>1, <2>2, <2>3 DEF Ranges
<1>8. CASE InitialDiscovery
  BY <1>1, <1>3, <1>4, <1>8 DEF InitialDiscovery, Ranges, Phases, In
<1>9. CASE ProbeSucceeded \/ SecondaryPositive
  <2>1. /\ UNCHANGED <<seen, record, starts>> /\ Heard(known.primary)
        /\ phase' = "healthy" /\ failureCount' = 0
    BY <1>9 DEF ProbeSucceeded, SecondaryPositive
  <2>2. silence' \in [Nodes -> 0..(Threshold + 1)]
    BY <1>2, <2>1, SilenceBound DEF Ranges
  <2> QED
    BY <1>1, <1>2, <1>3, <2>1, <2>2 DEF Ranges, Phases
<1>10. CASE ProbeFailed
  <2>1. /\ UNCHANGED <<seen, record, starts>> /\ Missed(known.primary)
        /\ phase' \in Phases /\ failureCount' = failureCount + 1
    BY <1>10 DEF ProbeFailed, Phases
  <2>2. failureCount < Threshold
    BY <1>10 DEF ProbeFailed, Probing, In, MonitorInv, MissedProbes
  <2>3. silence' \in [Nodes -> 0..(Threshold + 1)]
    BY <1>2, <2>1, SilenceBound DEF Ranges
  <2> QED
    BY <1>1, <1>2, <1>3, <2>1, <2>2, <2>3 DEF Ranges
<1>11. CASE SecondaryNegative \/ HandOver
  BY <1>1, <1>3, <1>11 DEF SecondaryNegative, HandOver, Ranges, Phases
<1>12. CASE Reconfirm
  BY <1>1, <1>2, <1>3, <1>4, <1>12 DEF Reconfirm, Ranges, Phases
<1>13. CASE HandlerReturned
  BY <1>1, <1>3, <1>13 DEF HandlerReturned, Ranges
<1> QED
  BY <1>5, <1>6, <1>7, <1>8, <1>9, <1>10, <1>11, <1>12, <1>13 DEF Tick

LEMMA RangesStep == ASSUME MonitorInv, Ranges, [MonitorNext]_allVars PROVE Ranges'
<1>1. WellFormed'
  BY MonitorWellFormed DEF Ranges
<1>2. CASE Start \/ Stop \/ Tick
  BY <1>2, SessionRanges
<1>3. CASE UNCHANGED monitorVars
  BY <1>1, <1>3 DEF monitorVars, Ranges
<1>4. ASSUME NEW p \in Nodes, NEW c \in Nodes, OperatorSwitch(p, c) PROVE Ranges'
  BY <1>1, <1>4, MonitorAssumption DEF OperatorSwitch, Ranges
<1> QED
  BY <1>2, <1>3, <1>4 DEF MonitorNext, allVars

LEMMA InitRanges == MonitorInit => Ranges
<1> SUFFICES ASSUME MonitorInit PROVE Ranges
  OBVIOUS
<1>1. WellFormed
  BY InitIInv, IInvWellFormed DEF MonitorInit
<1> QED
  BY <1>1, ThresholdPositive, MonitorAssumption DEF MonitorInit, Ranges, Phases, Unknown

(* Every variable of the manager and of its failover stays in its range, with *)
(* switchovers beside them.                                                   *)
THEOREM MonitorTypeCorrect == MonitorSpec => []MonitorTypeOK
<1>1. MonitorInit => MonitorInv /\ Ranges
  BY InitMonitor, InitRanges
<1>2. MonitorInv /\ Ranges /\ [MonitorNext]_allVars => MonitorInv' /\ Ranges'
  BY NextStep, RangesStep
<1>3. MonitorInv /\ Ranges => MonitorTypeOK
  BY ThresholdPositive DEF MonitorInv, Counters, Ranges, WellFormed, MonitorTypeOK
<1> QED
  BY <1>1, <1>2, <1>3, PTL DEF MonitorSpec

-----------------------------------------------------------------------------
(* Whose death is confirmed. *)

(* In a star, every discovery that reaches anybody elects the centre: by the  *)
(* replicas that were reached or, if there are none, because it answered.     *)
LEMMA StarElects ==
  ASSUME NEW v \in [Nodes -> NodeStates], Sighted(v), Discoverable(v),
         NEW p \in Nodes, Star(p), NEW q \in Nodes, IsPrimary(v, q)
  PROVE  q = p
<1>1. \A n \in Nodes : v[n] \in NodeStates /\ v[n] # Unseen
  <2> SUFFICES ASSUME NEW n \in Nodes PROVE v[n] # Unseen
    OBVIOUS
  <2>1. v[n].health # "unseen"
    BY DEF NodeStates
  <2> QED
    BY <2>1 DEF Unseen
<1>2. \A n \in Nodes : v[n].source \in {NoSource, p}
  BY <1>1 DEF Sighted, DeadState, Star
<1>3. p # NoSource /\ v[p].source = NoSource
  BY <1>1, NoSourceAssumption DEF Sighted, DeadState, Star
<1>4. CASE \E n \in Nodes \ {p} : v[n].health # "dead"
  <2>1. \E m \in Nodes : v[m].source = p
    BY <1>1, <1>4 DEF Sighted, Star
  <2>2. \A m \in Nodes, n \in Nodes \ {p} : v[m].source # n
    BY <1>2, NoSourceAssumption
  <2> QED
    BY <2>1, <2>2, MonitorAssumption, ReferredWins
<1>5. CASE \A n \in Nodes \ {p} : v[n].health = "dead"
  <2>1. v[p].health = "alive"
    BY <1>1, <1>3, <1>5 DEF Discoverable, Sighted
  <2>2. \A n \in Nodes : v[n].source # p
    BY <1>1, <1>3, <1>5, NoSourceAssumption DEF Sighted, DeadState
  <2>3. \A n \in Nodes : UpstreamRefs(v, n) = 0
    BY <1>2, <2>2, MonitorAssumption, NoSourceAssumption, UpstreamFacts
  <2>4. PrimaryScore(v, p) \in 30..38 /\ \A n \in Nodes \ {p} : PrimaryScore(v, n) \in 0..18
    BY <1>3, <1>5, <2>1, <2>3, ScoreBounds
  <2> QED
    BY <2>4 DEF IsPrimary
<1> QED
  BY <1>4, <1>5

(* The session waits for the next tick, or its failover is being planned: it  *)
(* holds the primary of the star, and has confirmed its death.                *)
Watching == record = "running" /\ phase # "init" /\ (phase = "failover" => status = "planning")

Confirmed == status = "planning" \/ In("dead-confirmed")

(* A failover runs only on behalf of a session, whose discoveries have ended  *)
(* by then.  Until it is executed, no channel has changed since the session   *)
(* started, whatever crashed and restarted.                                   *)
StarInv ==
  /\ Sighted(seen)
  /\ Sighted(view)
  /\ \A p \in Nodes : Star(p) => /\ Watching => known.primary = p
                                 /\ Confirmed => silence[p] > Threshold

SessionInv ==
  /\ status \in {"planning", "running"} => In("failover")
  /\ status # "planning" => view = Unknown
  /\ phase \in {"dead-confirmed", "failover"} => seen = Unknown
  /\ switches = 0 => StarInv

LEMMA UnknownSighted == Sighted(Unknown) /\ (Sighted(Unknown))'
BY DEF Sighted, Unknown

LEMMA InitSession == MonitorInit => SessionInv
<1> SUFFICES ASSUME MonitorInit PROVE SessionInv
  OBVIOUS
<1>1. status = "none" /\ record = "none" /\ view = Unknown /\ seen = Unknown
  BY DEF MonitorInit, Init, Unknown
<1> QED
  BY <1>1, UnknownSighted DEF SessionInv, StarInv, Watching, Confirmed, In

(* Neither the channels nor the views change: what a step of the session has  *)
(* to show is about the session.                                              *)
LEMMA SessionStep ==
  ASSUME SessionInv, UNCHANGED <<server, view, switches>>,
         status' \in {"planning", "running"} => (In("failover"))',
         status' # "planning" => status # "planning",
         seen' \in {seen, Unknown},
         phase' \in {"dead-confirmed", "failover"} => seen' = Unknown,
         switches = 0 =>
           \A p \in Nodes : Star(p) => /\ Watching' => known'.primary = p
                                       /\ Confirmed' => silence'[p] > Threshold
  PROVE  SessionInv'
<1>1. Threshold' = Threshold /\ \A p \in Nodes : Star(p)' <=> Star(p)
  BY DEF Threshold, Star
<1>2. ASSUME switches' = 0 PROVE StarInv'
  <2>1. Sighted(seen)' /\ Sighted(view)'
    BY <1>2, UnknownSighted DEF SessionInv, StarInv, Sighted
  <2> QED
    BY <1>1, <1>2, <2>1 DEF StarInv
<1> QED
  BY <1>2 DEF SessionInv, Unknown

(* The centre of a star is what every rediscovery that succeeds makes the     *)
(* session hold.                                                              *)
LEMMA RediscoveredStar ==
  ASSUME Ranges, StarInv, Rediscovered, Discoverable(seen), NEW p \in Nodes, Star(p),
         NEW q \in Nodes, IsPrimary(seen, q)
  PROVE  q = p
<1>1. seen \in [Nodes -> NodeStates]
  BY DEF Ranges, Rediscovered
<1> QED
  BY <1>1, StarElects DEF StarInv

LEMMA SessionTick ==
  ASSUME MonitorInv, Ranges, SessionInv, Start \/ Stop \/ Tick
  PROVE  SessionInv'
<1>1. status \in {"planning", "running"} => In("failover")
  BY DEF SessionInv
<1>2. UNCHANGED <<server, view, switches>>
  BY DEF Start, Stop, Tick, Rediscover, InitialDiscovery, ProbeSucceeded, ProbeFailed,
     SecondaryPositive, SecondaryNegative, Reconfirm, HandOver, HandlerReturned, Run,
     vars, serverVars, failoverVars
<1>3. HandOver \/ status' = status
  BY DEF Start, Stop, Tick, Rediscover, InitialDiscovery, ProbeSucceeded, ProbeFailed,
     SecondaryPositive, SecondaryNegative, Reconfirm, HandlerReturned, vars, failoverVars
<1>4. CASE Start \/ Stop
  <2>1. /\ status \notin {"planning", "running"} /\ status' = status /\ seen' \in {seen, Unknown}
        /\ phase' = "init" \/ record' = "aborted"
        /\ phase' = "init" \/ (phase' = phase /\ seen' = seen)
    BY <1>1, <1>4 DEF Start, Stop, In, vars, failoverVars
  <2> QED
    BY <1>2, <2>1, SessionStep DEF SessionInv, Watching, Confirmed, In
<1>5. ASSUME NEW n \in Nodes, Rediscover(n) PROVE SessionInv'
  <2>1. /\ phase \in {"init", "reconfirm-topology"} /\ UNCHANGED <<phase, record, known>>
        /\ status \notin {"planning", "running"} /\ status' = status
        /\ \E state \in Inspections(n) : seen' = [seen EXCEPT ![n] = state]
    BY <1>1, <1>5 DEF Rediscover, In, vars, failoverVars
  <2>2. server[n] \in ServerStates
    BY DEF Ranges, WellFormed, TypeOK, ServersTypeOK
  <2>3. ASSUME Sighted(seen) PROVE Sighted(seen')
    <3>1. PICK state \in Inspections(n) : seen' = [seen EXCEPT ![n] = state]
      BY <2>1
    <3>2. DOMAIN seen = Nodes
      BY DEF Ranges
    <3>3. Sighted([seen EXCEPT ![n] = state])
      BY <2>2, <2>3, <3>2, InspectionSighted
    <3> QED
      BY <3>1, <3>3
  <2>4. switches' = 0 => StarInv'
    BY <1>2, <2>1, <2>3 DEF SessionInv, StarInv, Sighted, Star, Watching, Confirmed, In
  <2> QED
    BY <1>2, <2>1, <2>4 DEF SessionInv, Unknown
<1>6. CASE InitialDiscovery
  <2>1. /\ In("init") /\ status' = status /\ seen' = Unknown /\ record' \in {record, "failed"}
        /\ phase' \in {"init", "healthy"} /\ Rediscovered
        /\ phase' = "init" \/ (Discoverable(seen) /\ \E q \in Nodes : IsPrimary(seen, q) /\ known' = Held(q))
    BY <1>6 DEF InitialDiscovery, In, vars, failoverVars
  <2>2. ASSUME switches = 0, NEW p \in Nodes, Star(p), Watching' PROVE known'.primary = p
    BY <2>1, <2>2, RediscoveredStar, HeldType DEF SessionInv, Watching
  <2>3. ~Confirmed'
    BY <1>1, <2>1 DEF Confirmed, In
  <2>4. status \notin {"planning", "running"}
    BY <1>1, <2>1 DEF In
  <2> QED
    BY <1>2, <2>1, <2>2, <2>3, <2>4, SessionStep
<1>7. CASE ProbeSucceeded \/ ProbeFailed \/ SecondaryPositive \/ SecondaryNegative
  <2>1. /\ record = "running" /\ phase \in {"healthy", "suspect", "secondary-check"}
        /\ phase' \in {"healthy", "suspect", "secondary-check", "reconfirm-topology"}
        /\ UNCHANGED <<status, known, seen, record>>
    BY <1>7 DEF ProbeSucceeded, ProbeFailed, SecondaryPositive, SecondaryNegative, Probing, In,
                vars, failoverVars
  <2>2. Watching /\ ~Confirmed' /\ status \notin {"planning", "running"}
    BY <1>1, <2>1 DEF Watching, Confirmed, In
  <2> QED
    BY <1>2, <2>1, <2>2, SessionStep DEF SessionInv, StarInv
<1>8. CASE Reconfirm
  <2>1. /\ In("reconfirm-topology") /\ Rediscovered /\ seen' = Unknown
        /\ UNCHANGED <<status, record, silence>>
        /\ phase' \in {"dead-confirmed", "healthy"}
    BY <1>8 DEF Reconfirm, vars, failoverVars
  <2>2. Watching /\ status \notin {"planning", "running"} /\ known.primary \in Nodes
    BY <1>1, <2>1 DEF Watching, In, MonitorInv, Counters
  <2>3. ASSUME switches = 0, NEW p \in Nodes, Star(p)
        PROVE  known'.primary = p /\ (Confirmed' => silence'[p] > Threshold)
    <3>1. known.primary = p
      BY <2>2, <2>3 DEF SessionInv, StarInv
    <3>2. seen[p].health = "dead" => silence[p] > Threshold
      BY <2>1, <3>1 DEF MonitorInv, MissedProbes, In
    <3>3. CASE ~Discoverable(seen)
      BY <1>8, <2>1, <3>1, <3>2, <3>3 DEF Reconfirm, Discoverable
    <3>4. CASE Discoverable(seen)
      <4>1. PICK q \in Nodes : /\ IsPrimary(seen, q) /\ known' = Held(q)
                               /\ seen[q].health = "dead" \/ phase' = "healthy"
        BY <1>8, <3>4 DEF Reconfirm
      <4>2. q = p
        BY <2>1, <2>3, <3>4, <4>1, RediscoveredStar DEF SessionInv
      <4> QED
        BY <2>1, <2>2, <3>2, <4>1, <4>2, HeldType DEF Confirmed, In
    <3> QED
      BY <3>3, <3>4
  <2> QED
    BY <1>2, <2>1, <2>2, <2>3, SessionStep
<1>9. CASE HandOver
  <2>1. /\ In("dead-confirmed") /\ phase' = "failover" /\ status' = "planning"
        /\ status \notin {"planning", "running"} /\ UNCHANGED <<known, seen, record, silence>>
    BY <1>9 DEF HandOver, Run
  <2>2. Watching /\ Confirmed /\ seen = Unknown
    BY <2>1 DEF Watching, Confirmed, In, SessionInv
  <2> QED
    BY <1>2, <2>1, <2>2, SessionStep DEF SessionInv, StarInv, In
<1>10. CASE HandlerReturned
  <2>1. /\ status \notin {"planning", "running"} /\ status' = status /\ record' \in {"failed", "succeeded"}
        /\ UNCHANGED <<phase, known, seen, silence>>
    BY <1>10 DEF HandlerReturned, vars, failoverVars
  <2> QED
    BY <1>2, <2>1, SessionStep DEF SessionInv, Watching, Confirmed, In
<1> QED
  BY <1>4, <1>5, <1>6, <1>7, <1>8, <1>9, <1>10 DEF Tick

(* An event keeps every channel.                                              *)
LEMMA EventSource ==
  ASSUME WellFormed, Environment
  PROVE  \A n \in Nodes : server'[n].source = server[n].source
<1>1. ServersTypeOK
  BY DEF WellFormed, TypeOK
<1>2. CASE Clients \/ Replication
  BY <1>1, <1>2, TrafficFrame DEF Alike
<1>3. ASSUME NEW n \in Nodes, Crash(n) \/ Recover(n)
      PROVE  \A m \in Nodes : server'[m].source = server[m].source
  BY <1>1, <1>3, FaultSource
<1> QED
  BY <1>2, <1>3 DEF Environment

LEMMA SessionOther ==
  ASSUME Ranges, SessionInv, UNCHANGED monitorVars,
         Planning \/ Execution \/ Kill \/ Environment
  PROVE  SessionInv'
<1> USE DEF monitorVars
<1>1. WellFormed /\ ServersTypeOK /\ DOMAIN view = Nodes
  BY DEF Ranges, WellFormed, TypeOK
<1>2. ASSUME NEW n \in Nodes, Inspect(n) PROVE SessionInv'
  <2>1. /\ UNCHANGED server /\ status = "planning" /\ status' = "planning"
        /\ \E state \in Inspections(n) : view' = [view EXCEPT ![n] = state]
    BY <1>2 DEF Inspect, serverVars
  <2>2. ASSUME Sighted(view) PROVE Sighted(view')
    <3>1. PICK state \in Inspections(n) : view' = [view EXCEPT ![n] = state]
      BY <2>1
    <3>2. server[n] \in ServerStates
      BY <1>1 DEF ServersTypeOK
    <3>3. Sighted([view EXCEPT ![n] = state])
      BY <1>1, <2>2, <3>2, InspectionSighted
    <3> QED
      BY <3>1, <3>3
  <2>3. switches' = 0 => StarInv'
    BY <2>1, <2>2 DEF SessionInv, StarInv, Sighted, Star, Watching, Confirmed, In, Threshold
  <2> QED
    BY <2>1, <2>3 DEF SessionInv, In, Unknown
<1>3. CASE PlanRefused \/ \E o, c \in Nodes : BuildPlan(o, c)
  <2>1. /\ UNCHANGED server /\ status = "planning" /\ status' \in {"refused", "blocked", "running"}
        /\ view' = Unknown
    BY <1>3 DEF PlanRefused, BuildPlan, Discovered, serverVars, Unknown
  <2>2. phase = "failover" /\ record = "running"
    BY <2>1 DEF SessionInv, In
  <2>3. ~Watching' /\ ~Confirmed'
    BY <2>1, <2>2 DEF Watching, Confirmed, In
  <2>4. switches' = 0 => StarInv'
    BY <2>1, <2>3, UnknownSighted DEF SessionInv, StarInv, Sighted
  <2> QED
    BY <2>1, <2>2, <2>4 DEF SessionInv, In, Unknown
<1>4. CASE Execution \/ Kill
  <2>1. status = "running" /\ UNCHANGED view /\ status' \in {"running", "failed", "succeeded"}
    <3>1. ExecOK
      BY <1>1, <1>4, ExecutionExec
    <3>2. Executing' /\ status = "running" /\ UNCHANGED view
      BY <1>1, <3>1, ExecFlow DEF WellFormed, ExecOK
    <3> QED
      BY <3>2 DEF Executing
  <2>2. /\ phase = "failover" /\ record = "running" /\ view' = Unknown /\ seen' = Unknown
    BY <2>1 DEF SessionInv, In
  <2>3. ~Watching' /\ ~Confirmed'
    BY <2>1, <2>2 DEF Watching, Confirmed, In
  <2>4. StarInv'
    BY <2>2, <2>3, UnknownSighted DEF StarInv, Sighted
  <2> QED
    BY <2>1, <2>2, <2>4 DEF SessionInv, In, Unknown
<1>5. CASE Environment
  <2>1. UNCHANGED <<view, status>>
    BY <1>1, <1>5, EnvironmentOK DEF WellFormed, EnvOK
  <2>2. \A n \in Nodes : server'[n].source = server[n].source
    BY <1>1, <1>5, EventSource
  <2>3. \A p \in Nodes : Star(p)' => Star(p)
    BY <2>2 DEF Star
  <2>4. StarInv => StarInv'
    BY <2>1, <2>2, <2>3 DEF StarInv, Sighted, Watching, Confirmed, In, Threshold
  <2> QED
    BY <2>1, <2>4 DEF SessionInv, In, Unknown
<1> QED
  BY <1>2, <1>3, <1>4, <1>5 DEF Planning

LEMMA SessionNext ==
  ASSUME MonitorInv, Ranges, SessionInv, [MonitorNext]_allVars
  PROVE  SessionInv'
<1>1. CASE Start \/ Stop \/ Tick
  BY <1>1, SessionTick
<1>2. CASE (Planning \/ Execution \/ Kill \/ Environment) /\ UNCHANGED monitorVars
  BY <1>2, SessionOther
<1>3. ASSUME NEW p \in Nodes, NEW c \in Nodes, OperatorSwitch(p, c) PROVE SessionInv'
  <2>1. /\ switches' # 0 /\ UNCHANGED <<view, status, phase, record, seen>>
    BY <1>3, MonitorAssumption DEF OperatorSwitch, Ranges
  <2> QED
    BY <2>1 DEF SessionInv, In, Unknown
<1>4. CASE UNCHANGED allVars
  BY <1>4 DEF allVars, vars, serverVars, failoverVars, monitorVars, SessionInv, StarInv, Sighted,
              Star, Watching, Confirmed, In, Unknown, Threshold
<1> QED
  BY <1>1, <1>2, <1>3, <1>4 DEF MonitorNext

(* Only BuildPlan starts an execution.                                        *)
LEMMA ExecutionStarts ==
  ASSUME Ranges, [MonitorNext]_allVars, status = "planning", status' = "running"
  PROVE  \E o, c \in Nodes : BuildPlan(o, c)
<1>1. WellFormed
  BY DEF Ranges
<1>2. CASE Execution \/ Kill
  BY <1>1, <1>2, ExecutionExec DEF ExecOK
<1>3. CASE Environment
  BY <1>1, <1>3, EnvironmentOK DEF WellFormed, EnvOK
<1>4. CASE Planning
  BY <1>4 DEF Planning, Inspect, PlanRefused
<1>5. ~(Start \/ Stop \/ Tick)
  BY DEF Start, Stop, Tick, Rediscover, InitialDiscovery, ProbeSucceeded, ProbeFailed,
     SecondaryPositive, SecondaryNegative, Reconfirm, HandOver, HandlerReturned, Run,
     vars, failoverVars
<1>6. ~(\E p, c \in Nodes : OperatorSwitch(p, c)) /\ ~UNCHANGED allVars
  BY DEF OperatorSwitch, allVars, vars, failoverVars
<1> QED
  BY <1>2, <1>3, <1>4, <1>5, <1>6 DEF MonitorNext

(* In a star, the server that is failed over is its centre, which has been    *)
(* silent through Threshold probes and a rediscovery: the confirmation and    *)
(* the plan elect the same server, by the same channels.                      *)
THEOREM DeathConfirmedHolds == MonitorSpec => DeathConfirmed
<1>1. MonitorInit => MonitorInv /\ Ranges /\ SessionInv
  BY InitMonitor, InitRanges, InitSession
<1>2. MonitorInv /\ Ranges /\ SessionInv /\ [MonitorNext]_allVars
        => MonitorInv' /\ Ranges' /\ SessionInv'
  BY NextStep, RangesStep, SessionNext
<1>3. ASSUME MonitorInv, Ranges, SessionInv, [MonitorNext]_allVars,
             switches = 0, status = "planning", status' = "running", NEW p \in Nodes, Star(p)
      PROVE  plan'.OldPrimary = p /\ silence[p] > Threshold
  <2>1. PICK o, c \in Nodes : BuildPlan(o, c)
    BY <1>3, ExecutionStarts
  <2>2. plan'.OldPrimary = o /\ Discovered /\ Discoverable(view) /\ IsPrimary(view, o)
    BY <2>1 DEF BuildPlan, CanPlan, Plan
  <2>3. view \in [Nodes -> NodeStates]
    BY <1>3, <2>2 DEF Ranges, WellFormed, TypeOK, Discovered
  <2>4. StarInv
    BY <1>3 DEF SessionInv
  <2>5. o = p
    BY <1>3, <2>2, <2>3, <2>4, StarElects DEF StarInv
  <2> QED
    BY <1>3, <2>2, <2>4, <2>5 DEF StarInv, Confirmed
<1>4. MonitorInv /\ Ranges /\ SessionInv /\ [MonitorNext]_allVars
        => [switches = 0 /\ status = "planning" /\ status' = "running" =>
              \A p \in Nodes : Star(p) => plan'.OldPrimary = p /\ silence[p] > Threshold]_allVars
  BY <1>3
<1> QED
  BY <1>1, <1>2, <1>4, PTL DEF MonitorSpec, DeathConfirmed
=============================================================================
