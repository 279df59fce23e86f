------------------------------- MODULE Monitor -------------------------------
(***************************************************************************)
(* `mha manager`: the phase machine of internal/controller/monitor, with   *)
(* the failover it hands over to (module Failover, whose run replaces the  *)
(* loop until HandleFailover returns), the restart of the process by       *)
(* systemd, and the `mha switch` an operator may run beside it.            *)
(*                                                                         *)
(* A tick of the loop is one action, except for rediscovery, which         *)
(* inspects one node per action.  Every probe and every inspection may     *)
(* fail, whether or not the server is up: a partition is possible at any   *)
(* time.  It succeeds only if the server is up.                            *)
(***************************************************************************)
EXTENDS Failover

CONSTANTS
  FailureThreshold, \* monitor.failure_threshold as configured
  Observers,        \* the observer nodes of controller.secondary_checks
  MaxStarts,        \* bound on the starts of the manager
  MaxSwitches       \* bound on the switchovers run beside it

ASSUME MonitorAssumption ==
  /\ FailureThreshold \in Int
  /\ Observers \subseteq Nodes
  /\ MaxStarts \in Nat
  /\ MaxSwitches \in Nat
  /\ IsFiniteSet(Nodes)

VARIABLES
  phase,        \* the monitorPhase, "init" before and "failover" after the loop
  failureCount, \* consecutive probe failures
  known,        \* of the view the loop holds: its primary, its live replicas
  seen,         \* seen[n]: what the rediscovery under way has learnt about n
  record,       \* the status of this session's RunRecord
  starts,       \* how many times the manager was started
  switches,     \* how many switchovers were run beside it
  silence       \* ghost: since when n has shown no sign of life to this session

monitorVars == <<phase, failureCount, known, seen, record, starts, switches, silence>>
allVars == <<vars, monitorVars>>

Phases ==
  {"init", "healthy", "suspect", "secondary-check", "reconfirm-topology",
   "dead-confirmed", "failover"}

Threshold == IF FailureThreshold <= 0 THEN 3 ELSE FailureThreshold

Unknown == [n \in Nodes |-> Unseen]

MonitorTypeOK ==
  /\ TypeOK
  /\ phase \in Phases
  /\ failureCount \in 0..Threshold
  /\ known \in [primary : Nodes, replicas : SUBSET Nodes]
  /\ seen \in [Nodes -> NodeStates \cup {Unseen}]
  /\ record \in {"none", "running", "aborted", "failed", "succeeded"}
  /\ starts \in 0..MaxStarts
  /\ switches \in 0..MaxSwitches
  /\ silence \in [Nodes -> 0..(Threshold + 1)]

MonitorInit ==
  /\ Init
  /\ phase = "init"
  /\ failureCount = 0
  /\ known = [primary |-> InitialPrimary, replicas |-> {}]
  /\ seen = Unknown
  /\ record = "none"
  /\ starts = 0
  /\ switches = 0
  /\ silence = [n \in Nodes |-> 0]

-----------------------------------------------------------------------------
(* What the session has heard of a node. *)

Heard(n)  == silence' = [silence EXCEPT ![n] = 0]
Missed(n) == silence' = [silence EXCEPT ![n] = IF @ > Threshold THEN @ ELSE @ + 1]

In(ph) == record = "running" /\ phase = ph

(* Started by the operator, or by systemd with Restart=on-failure.            *)
Start ==
  /\ record \in {"none", "failed"}
  /\ starts < MaxStarts
  /\ starts' = starts + 1
  /\ record' = "running"
  /\ phase' = "init"
  /\ failureCount' = 0
  /\ seen' = Unknown
  /\ silence' = [n \in Nodes |-> 0]
  /\ UNCHANGED <<vars, known, switches>>

(* SIGTERM while the loop waits for its next tick.                            *)
Stop ==
  /\ record = "running"
  /\ phase # "failover"
  /\ record' = "aborted"
  /\ UNCHANGED <<vars, phase, failureCount, known, seen, starts, switches, silence>>

-----------------------------------------------------------------------------
(* Discovery, at the start and in phase reconfirm-topology. *)

Rediscover(n) ==
  /\ In("init") \/ In("reconfirm-topology")
  /\ seen[n] = Unseen
  /\ \E state \in Inspections(n) :
       /\ seen' = [seen EXCEPT ![n] = state]
       /\ IF state.health = "dead" THEN Missed(n) ELSE Heard(n)
  /\ UNCHANGED <<vars, phase, failureCount, known, record, starts, switches>>

Rediscovered == \A n \in Nodes : seen[n] # Unseen

(* PrimaryID and ReplicaNodes of the view.                                    *)
Held(p) ==
  [primary |-> p,
   replicas |-> {n \in Nodes : RoleOf(seen, p, n) = "replica" /\ seen[n].health # "dead"}]

InitialDiscovery ==
  /\ In("init")
  /\ Rediscovered
  /\ IF Discoverable(seen)
     THEN /\ \E p \in Nodes : IsPrimary(seen, p) /\ known' = Held(p)
          /\ phase' = "healthy"
          /\ UNCHANGED record
     ELSE record' = "failed" /\ UNCHANGED <<known, phase>>
  /\ seen' = Unknown
  /\ UNCHANGED <<vars, failureCount, starts, switches, silence>>

(* A discovery that fails counts as the death of the primary held so far.     *)
Reconfirm ==
  /\ In("reconfirm-topology")
  /\ Rediscovered
  /\ IF ~Discoverable(seen)
     THEN phase' = "dead-confirmed" /\ UNCHANGED <<known, failureCount>>
     ELSE \E p \in Nodes :
            /\ IsPrimary(seen, p)
            /\ known' = Held(p)
            /\ IF seen[p].health = "dead"
               THEN phase' = "dead-confirmed" /\ UNCHANGED failureCount
               ELSE phase' = "healthy" /\ failureCount' = 0
  /\ seen' = Unknown
  /\ UNCHANGED <<vars, record, starts, switches, silence>>

-----------------------------------------------------------------------------
(* Probes and the secondary check. *)

Probing == In("healthy") \/ In("suspect")

(* Mutant: a success after failures does not reset their count.               *)
ProbeSucceededNoReset ==
  /\ Probing
  /\ server[known.primary].up
  /\ phase' = "healthy"
  /\ Heard(known.primary)
  /\ UNCHANGED <<vars, failureCount, known, seen, record, starts, switches>>

ProbeSucceeded ==
  /\ Probing
  /\ server[known.primary].up
  /\ phase' = "healthy"
  /\ failureCount' = 0
  /\ Heard(known.primary)
  /\ UNCHANGED <<vars, known, seen, record, starts, switches>>

(* Mutant: the threshold must be passed, not reached.                         *)
ProbeFailedLate ==
  /\ Probing
  /\ failureCount' = failureCount + 1
  /\ phase' = IF failureCount + 1 > Threshold THEN "secondary-check" ELSE "suspect"
  /\ Missed(known.primary)
  /\ UNCHANGED <<vars, known, seen, record, starts, switches>>

(* Mutant: failures are not accumulated.                                      *)
ProbeFailedUncounted ==
  /\ Probing
  /\ failureCount' = 1
  /\ phase' = IF failureCount' >= Threshold THEN "secondary-check" ELSE "suspect"
  /\ Missed(known.primary)
  /\ UNCHANGED <<vars, known, seen, record, starts, switches>>

ProbeFailed ==
  /\ Probing
  /\ failureCount' = failureCount + 1
  /\ phase' = IF failureCount + 1 >= Threshold THEN "secondary-check" ELSE "suspect"
  /\ Missed(known.primary)
  /\ UNCHANGED <<vars, known, seen, record, starts, switches>>

(* A replica or observer whose receiver thread reports a connection to the    *)
(* primary.                                                                   *)
Vouches(n) ==
  /\ server[n].up
  /\ server[n].source = known.primary
  /\ TRUE \in IOReports(n)

(* Mutant: the phase returns to healthy, but the count stays.                 *)
SecondaryPositiveNoReset ==
  /\ In("secondary-check")
  /\ \E n \in known.replicas \cup Observers : Vouches(n)
  /\ phase' = "healthy"
  /\ Heard(known.primary)
  /\ UNCHANGED <<vars, failureCount, known, seen, record, starts, switches>>

SecondaryPositive ==
  /\ In("secondary-check")
  /\ \E n \in known.replicas \cup Observers : Vouches(n)
  /\ phase' = "healthy"
  /\ failureCount' = 0
  /\ Heard(known.primary)
  /\ UNCHANGED <<vars, known, seen, record, starts, switches>>

(* Nobody vouches for it: the inspections fail, or find no connection.        *)
SecondaryNegative ==
  /\ In("secondary-check")
  /\ phase' = "reconfirm-topology"
  /\ UNCHANGED <<vars, failureCount, known, seen, record, starts, switches, silence>>

-----------------------------------------------------------------------------
(* The handover. *)

(* HandleFailover plans from a discovery of its own.                          *)
HandOver ==
  /\ In("dead-confirmed")
  /\ Run
  /\ phase' = "failover"
  /\ UNCHANGED <<failureCount, known, seen, record, starts, switches, silence>>

(* ExecutePlan returns an error unless the plan succeeded or was blocked.     *)
HandlerReturned ==
  /\ In("failover")
  /\ status \notin {"planning", "running"}
  /\ record' = IF status \in {"refused", "failed"} THEN "failed" ELSE "succeeded"
  /\ UNCHANGED <<vars, phase, failureCount, known, seen, starts, switches, silence>>

(* A switchover by another process that succeeds, from start to end: module   *)
(* Switchover has its steps.                                                  *)
OperatorSwitch(p, c) ==
  /\ switches < MaxSwitches
  /\ p # c
  /\ server[p].source = NoSource
  /\ \A n \in Nodes \ {p} : server[n].up /\ server[n].source = p /\ server[n].running
  /\ server[p].up
  /\ server[p].executed \subseteq server[c].executed
  /\ server' = [n \in Nodes |->
       IF n = c THEN ReadOnlyOff(ResetReplicaAll(server[n]))
       ELSE StartReplica(ChangeSource(SuperReadOnlyOn(server[n]), c))]
  /\ endpoint' = IF EndpointEnabled THEN c ELSE endpoint
  /\ switches' = switches + 1
  /\ UNCHANGED <<trx, crashes, progress, view, plan, original, status, runs, isolated,
                 restarted, phase, failureCount, known, seen, record, starts, silence>>

-----------------------------------------------------------------------------
Tick ==
  \/ \E n \in Nodes : Rediscover(n)
  \/ InitialDiscovery
  \/ ProbeSucceeded
  \/ ProbeFailed
  \/ SecondaryPositive
  \/ SecondaryNegative
  \/ Reconfirm
  \/ HandOver
  \/ HandlerReturned

MonitorNext ==
  \/ Start
  \/ Stop
  \/ Tick
  \/ (Planning \/ Execution \/ Kill \/ Environment) /\ UNCHANGED monitorVars
  \/ \E p, c \in Nodes : OperatorSwitch(p, c)

MonitorSpec == MonitorInit /\ [][MonitorNext]_allVars

(* The ticker ticks and every call is bounded by a deadline.  The receiver    *)
(* thread of a replica gives a lost source up in the end, so a secondary      *)
(* check cannot be positive for ever: it is strongly fair.                    *)
MonitorFairness ==
  /\ Fairness
  /\ WF_allVars(Tick)
  /\ SF_allVars(SecondaryNegative)

FairMonitorSpec == MonitorSpec /\ MonitorFairness

-----------------------------------------------------------------------------
(* Properties. *)

(* What the failure count stands for: the loop asks the replicas, and then    *)
(* rediscovers, only after the primary it holds has missed Threshold probes   *)
(* in a row, without a sign of life in between (a probe answered, a replica   *)
(* that vouched for it, an inspection).                                       *)
MissedProbes ==
  LET silent == silence[known.primary]
      found  == seen[known.primary].health
  IN /\ phase = "init" => failureCount = 0
     /\ phase \in {"healthy", "suspect"} => failureCount < Threshold /\ failureCount <= silent
     /\ phase = "secondary-check" => silent >= Threshold
     /\ phase = "reconfirm-topology" /\ found = "unseen" => silent >= Threshold
     /\ phase = "reconfirm-topology" /\ found = "dead" => silent > Threshold

(* A death is confirmed only if the primary missed a rediscovery besides,     *)
(* unless that rediscovery elected another one.                               *)
ConfirmedAfterProbes ==
  [][phase # "dead-confirmed" /\ phase' = "dead-confirmed" /\ known'.primary = known.primary
       => silence[known.primary] > Threshold]_allVars

(* All servers replicate from p, and p from none.                             *)
Star(p) == server[p].source = NoSource /\ \A n \in Nodes \ {p} : server[n].source = p

(* In a cluster of one primary and its replicas, with no switchover beside    *)
(* the manager, it is the primary that is failed over, after it has been      *)
(* silent for that long, although the rediscovery and HandleFailover each     *)
(* elect anew.  (Where an earlier failover stopped half-way, a session may    *)
(* hold one server and confirm the death of another it has never probed.)     *)
DeathConfirmed ==
  [][switches = 0 /\ status = "planning" /\ status' = "running" =>
       \A p \in Nodes : Star(p) => plan'.OldPrimary = p /\ silence[p] > Threshold]_allVars

(* A manager that holds a primary which is down for good does not go on as if *)
(* nothing had happened: it ends, whatever the failover came to.              *)
DeathHandedOver ==
  \A p \in Nodes : <>[](known.primary = p /\ ~server[p].up) => []<>(record # "running")

(* A session recorded as "failover completed", which exits 0 so that systemd  *)
(* does not restart it, has completed one ("After a successful failover the   *)
(* process exits (exit 0)", operations.md).                                   *)
SucceededMeansFailover == record = "succeeded" => status = "succeeded"
=============================================================================
