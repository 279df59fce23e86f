------------------------------- MODULE Failover -------------------------------
(***************************************************************************)
(* The failover of internal/controller/failover: BuildPlan with its        *)
(* blocking reasons and recovery summary, then ExecutePlan: fencing of the *)
(* old primary, salvage of missing transactions over SSH and SQL,          *)
(* promotion, repointing, writer endpoint, verification.  As in Switchover *)
(* one SQL statement, command or inspection is one action, it may fail     *)
(* with or without effect, and the process may be killed between any two.  *)
(*                                                                         *)
(* A primary that is dead in the view reports no GTID set, so what the     *)
(* candidate is missing from it is unknown in every plan that is executed: *)
(* the action recover-from-old-primary belongs to blocked plans only.      *)
(***************************************************************************)
EXTENDS Discovery, Sequences

CONSTANTS
  SalvagePolicy,    \* replication.salvage.policy
  SSHSalvage,       \* nodes for which SSH binlog salvage is configured
  FencingSteps,     \* fencing.steps, or the default required read_only step
  HasSuperReadOnly, \* nodes whose capabilities include super_read_only
  EndpointEnabled,  \* writer_endpoint.kind is vip or proxy
  InitialPrimary,   \* the primary the cluster starts with
  MaxRuns           \* bound on the failovers started

Policies == {"strict", "salvage-if-possible", "availability-first"}

(* read_only is built in; stonith stands for commands that stop the server,   *)
(* vip for those that do something else.                                      *)
FencingKinds == {"read_only", "stonith", "vip"}

ASSUME FailoverAssumption ==
  /\ SalvagePolicy \in Policies
  /\ SSHSalvage \subseteq Nodes
  /\ FencingSteps \in Seq([kind : FencingKinds, required : BOOLEAN])
  /\ FencingSteps # << >>
  /\ HasSuperReadOnly \subseteq Nodes
  /\ EndpointEnabled \in BOOLEAN
  /\ InitialPrimary \in Nodes
  /\ MaxRuns \in Nat

VARIABLES
  step,      \* the step being executed, or the one the last run ended at
  stmt,      \* the statement of that step
  item,      \* the fencing step being executed
  todo,      \* the nodes the step has still to visit
  view,      \* view[n]: what Discover has learnt about n, Unseen before
  plan,      \* the FailoverPlan
  original,  \* TemporarilyDisableReadOnly's original state; was the binlog applied
  endpoint,  \* the node the writer endpoint routes to
  status,    \* of the last run
  runs,      \* how many failovers were started
  isolated,  \* ghost: the old primary was down at planning, or taken down by STONITH
  restarted  \* ghost: restarted since they were last inspected

progress == <<step, stmt, item, todo>>
failoverVars == <<progress, view, plan, original, endpoint, status, runs, isolated, restarted>>
vars == <<serverVars, failoverVars>>

StepNames ==
  {"precheck-writer-endpoint", "fence-old-primary", "recover-from-old-primary-binlog",
   "recover-from-replica", "promote-candidate", "repoint-replicas",
   "switch-writer-endpoint", "verify-writer-endpoint", "verify-cluster"}

Rank(s) ==
  CASE s = "none"                            -> 0
    [] s = "precheck-writer-endpoint"        -> 1
    [] s = "fence-old-primary"               -> 2
    [] s = "recover-from-old-primary-binlog" -> 3
    [] s = "recover-from-replica"            -> 4
    [] s = "promote-candidate"               -> 5
    [] s = "repoint-replicas"                -> 6
    [] s = "switch-writer-endpoint"          -> 7
    [] s = "verify-writer-endpoint"          -> 8
    [] s = "verify-cluster"                  -> 9

(* The codes of what may block a plan, those of the assessment among them.    *)
Reasons ==
  {"primary_failure_not_confirmed", "candidate_unreachable", "no_replica_state",
   "no_auto_position", "sql_thread_not_running", "source_not_mapped", "not_direct_replica",
   "writable_before_promotion", "lag_unknown", "strict_missing", "strict_behind_replica",
   "ssh_not_configured", "no_candidate_gtid", "missing_needs_ssh",
   "replica_missing_state", "replica_dead", "auto_position_disabled",
   "replica_sql_thread_down", "replica_io_thread_down", "replica_source_unknown",
   "cascading_not_allowed", "semisync_required_but_disabled", "semisync_replica_shortfall"}

Plans ==
  [OldPrimary : Nodes, Candidate : Nodes, GTIDExecuted : SUBSET Trx,
   Missing : [Nodes -> SUBSET Trx], Binlog : BOOLEAN,
   RepointReplicaIDs : SUBSET Nodes, SkippedReplicaIDs : SUBSET Nodes,
   BlockingReasons : SUBSET Reasons]

old  == plan.OldPrimary
cand == plan.Candidate

Required == SalvagePolicy # "availability-first"

TypeOK ==
  /\ ServersTypeOK
  /\ step \in StepNames \cup {"none"}
  /\ stmt \in 1..7
  /\ item \in 1..Len(FencingSteps)
  /\ todo \subseteq Nodes
  /\ view \in [Nodes -> NodeStates \cup {Unseen}]
  /\ plan \in Plans
  /\ original \in [readOnly : BOOLEAN, superReadOnly : BOOLEAN, applied : BOOLEAN]
  /\ endpoint \in Nodes
  /\ status \in {"none", "planning", "refused", "blocked", "running", "failed", "succeeded"}
  /\ runs \in 0..MaxRuns
  /\ isolated \in BOOLEAN
  /\ restarted \subseteq Nodes

Untouched == [readOnly |-> FALSE, superReadOnly |-> FALSE, applied |-> FALSE]

Init ==
  /\ ServersInit(InitialPrimary, {InitialPrimary})
  /\ step = "none"
  /\ stmt = 1
  /\ item = 1
  /\ todo = {}
  /\ view = [n \in Nodes |-> Unseen]
  /\ plan = [OldPrimary |-> InitialPrimary, Candidate |-> InitialPrimary,
             GTIDExecuted |-> {}, Missing |-> [n \in Nodes |-> {}], Binlog |-> FALSE,
             RepointReplicaIDs |-> {}, SkippedReplicaIDs |-> {}, BlockingReasons |-> {}]
  /\ original = Untouched
  /\ endpoint = InitialPrimary
  /\ status = "none"
  /\ runs = 0
  /\ isolated = FALSE
  /\ restarted = {}

-----------------------------------------------------------------------------
(* Planning. *)

Run ==
  /\ status \notin {"planning", "running"}
  /\ runs < MaxRuns
  /\ status' = "planning"
  /\ runs' = runs + 1
  /\ UNCHANGED <<serverVars, progress, view, plan, original, endpoint, isolated, restarted>>

Inspect(n) ==
  /\ status = "planning"
  /\ view[n] = Unseen
  /\ \E seen \in Inspections(n) : view' = [view EXCEPT ![n] = seen]
  /\ restarted' = restarted \ {n}
  /\ UNCHANGED <<serverVars, progress, plan, original, endpoint, status, runs, isolated>>

Discovered == status = "planning" /\ \A n \in Nodes : view[n] # Unseen

CanPlan(o, c) == Discoverable(view) /\ IsPrimary(view, o) /\ IsCandidate(view, o, c)

(* RecoveryGaps: what a live replica has and the candidate has not.           *)
RecoveryGap(o, c, n) ==
  IF n # c /\ RoleOf(view, o, n) = "replica" /\ view[n].health # "dead"
  THEN view[n].gtid \ view[c].gtid ELSE {}

UnknownLoss(o) ==
  view[o].health = "dead" /\ view[o].gtid = {} /\ SalvagePolicy # "availability-first"

AssessmentErrors(o, c) ==
  (IF c = o THEN {} ELSE NodeErrors(view, o, c)) \cup SemiSyncErrors(view, o)

(* buildBlockingReasons and evaluatePromoteReadiness; a candidate without     *)
(* replica state returns early there, which leaves the plan as blocked.       *)
BlockingReasons(o, c) ==
  LET s == view[c]
      missing == view[o].gtid \ s.gtid
      reason ==
        [primary_failure_not_confirmed |-> view[o].health # "dead",
         candidate_unreachable         |-> s.health = "dead",
         no_replica_state              |-> s.source = NoSource,
         no_auto_position              |-> ~s.auto,
         sql_thread_not_running        |-> ~s.sql,
         source_not_mapped             |-> s.source = Unmapped,
         not_direct_replica            |-> ~AllowCascading /\ s.source \notin {Unmapped, o},
         writable_before_promotion     |-> Writable(s),
         lag_unknown                   |-> s.io /\ s.behind < 0,
         strict_missing                |-> SalvagePolicy = "strict" /\ missing # {},
         strict_behind_replica         |-> SalvagePolicy = "strict" /\
                                             \E n \in Nodes : RecoveryGap(o, c, n) # {},
         ssh_not_configured            |-> UnknownLoss(o) /\ o \notin SSHSalvage,
         no_candidate_gtid             |-> UnknownLoss(o) /\ o \in SSHSalvage /\ s.gtid = {},
         missing_needs_ssh             |-> /\ view[o].health = "dead" /\ missing # {}
                                           /\ SalvagePolicy = "salvage-if-possible"
                                           /\ o \notin SSHSalvage]
  IN {r \in DOMAIN reason : reason[r]} \cup AssessmentErrors(o, c)

(* addOldPrimaryBinlogSalvageAction.                                          *)
BinlogSalvage(o, c) ==
  /\ view[o].health = "dead"
  /\ view[o].gtid = {}
  /\ view[c].gtid # {}
  /\ o \in SSHSalvage

Plan(o, c) ==
  [OldPrimary |-> o, Candidate |-> c, GTIDExecuted |-> view[c].gtid,
   Missing |-> [n \in Nodes |-> RecoveryGap(o, c, n)],
   Binlog |-> BinlogSalvage(o, c),
   RepointReplicaIDs |-> {n \in Repointable \ {c} : view[n].health # "dead"},
   SkippedReplicaIDs |-> {n \in Repointable \ {c} : view[n].health = "dead"},
   BlockingReasons |-> BlockingReasons(o, c)]

Donors(p) == {n \in Nodes : p.Missing[n] # {}}

(* The nodes of VerifyPostFailover after the candidate.                       *)
Verifiable(p) == Repointable \ ({p.Candidate, p.OldPrimary} \cup p.SkippedReplicaIDs)

(* Steps that are not planned, or have nothing to do.                         *)
Omitted(p) ==
  (IF EndpointEnabled THEN {}
   ELSE {"precheck-writer-endpoint", "switch-writer-endpoint", "verify-writer-endpoint"})
  \cup (IF p.Binlog THEN {} ELSE {"recover-from-old-primary-binlog"})
  \cup (IF Donors(p) = {} THEN {"recover-from-replica"} ELSE {})
  \cup (IF p.RepointReplicaIDs = {} THEN {"repoint-replicas"} ELSE {})

Enter(s, p) ==
  /\ step' = s
  /\ stmt' = 1
  /\ item' = 1
  /\ todo' = CASE s = "recover-from-replica" -> Donors(p)
               [] s = "repoint-replicas"     -> p.RepointReplicaIDs
               [] s = "verify-cluster"       -> Verifiable(p)
               [] OTHER                      -> {}

(* The executor goes on with the first planned step behind s.                 *)
EnterAfter(s, p) ==
  \E next \in StepNames \ Omitted(p) :
    /\ Rank(next) > Rank(s)
    /\ \A other \in StepNames \ Omitted(p) :
         Rank(other) > Rank(s) => Rank(next) <= Rank(other)
    /\ Enter(next, p)

(* A plan with any blocking reason stops before its first effect: ExecutePlan *)
(* returns an execution that is blocked, and no error.                        *)
BuildPlan(o, c) ==
  /\ Discovered
  /\ CanPlan(o, c)
  /\ plan' = Plan(o, c)
  /\ IF BlockingReasons(o, c) = {}
     THEN status' = "running" /\ EnterAfter("none", Plan(o, c))
     ELSE status' = "blocked" /\ step' = "none" /\ stmt' = 1 /\ item' = 1 /\ todo' = {}
  /\ view' = [n \in Nodes |-> Unseen]
  /\ original' = Untouched
  /\ isolated' = ~server[o].up
  /\ UNCHANGED <<serverVars, endpoint, runs, restarted>>

PlanRefused ==
  /\ Discovered
  /\ \A o, c \in Nodes : ~CanPlan(o, c)
  /\ status' = "refused"
  /\ view' = [n \in Nodes |-> Unseen]
  /\ UNCHANGED <<serverVars, progress, plan, original, endpoint, runs, isolated, restarted>>

-----------------------------------------------------------------------------
(* The executor loop. *)

At(s) == status = "running" /\ step = s

(* executeStep returned nil; p is the plan the next step finds.               *)
StepCompleted(p) ==
  IF step = "verify-cluster" THEN status' = "succeeded" /\ UNCHANGED progress
  ELSE EnterAfter(step, p) /\ UNCHANGED status

StepFailed == status' = "failed" /\ UNCHANGED progress

GoTo(i) == stmt' = i /\ UNCHANGED <<step, item, todo, status>>

(* The process is killed, or its context is cancelled.                        *)
Kill ==
  /\ status = "running"
  /\ StepFailed
  /\ UNCHANGED <<serverVars, view, plan, original, endpoint, runs, isolated, restarted>>

PrecheckWriterEndpoint ==
  /\ At("precheck-writer-endpoint")
  /\ StepCompleted(plan) \/ StepFailed
  /\ UNCHANGED <<serverVars, view, plan, original, endpoint, runs, isolated, restarted>>

(* Coordinator.FenceOldPrimary. *)

(* Mutant: one fencing step too many.                                         *)
FenceDoneOffByOne ==
  IF item > Len(FencingSteps) THEN StepCompleted(plan)
  ELSE item' = item + 1 /\ stmt' = 1 /\ UNCHANGED <<step, todo, status>>

FenceDone ==
  IF item = Len(FencingSteps) THEN StepCompleted(plan)
  ELSE item' = item + 1 /\ stmt' = 1 /\ UNCHANGED <<step, todo, status>>

(* Mutant: no fencing step is required.                                       *)
FenceFailedOptional == FenceDone

FenceFailed == IF FencingSteps[item].required THEN StepFailed ELSE FenceDone

Fencing(kind) == At("fence-old-primary") /\ FencingSteps[item].kind = kind

(* OpenDB fails: the primary, seen dead, counts as isolated.                  *)
FenceSkipped ==
  /\ Fencing("read_only")
  /\ stmt = 1
  /\ FenceDone
  /\ UNCHANGED <<serverVars, view, plan, original, endpoint, runs, isolated, restarted>>

FenceReadOnly ==
  LET super == stmt = 1 /\ old \in HasSuperReadOnly
      s == IF super THEN SuperReadOnlyOn(server[old]) ELSE ReadOnlyOn(server[old])
  IN /\ Fencing("read_only")
     /\ server[old].up
     /\ \/ Executed(old, s) /\ FenceDone
        \/ super /\ Errored(old, s) /\ GoTo(2)
        \/ ~super /\ Errored(old, s) /\ FenceFailed
     /\ UNCHANGED <<trx, crashes, view, plan, original, endpoint, runs, isolated, restarted>>

(* The connection is lost, and with it the fallback to read_only.             *)
FenceLost ==
  /\ Fencing("read_only")
  /\ FenceFailed
  /\ UNCHANGED <<serverVars, view, plan, original, endpoint, runs, isolated, restarted>>

Stonith ==
  /\ Fencing("stonith")
  /\ \/ /\ GoDown(old) /\ isolated' = TRUE /\ restarted' = restarted \ {old}
        /\ FenceDone \/ FenceFailed
     \/ UNCHANGED <<server, trx, isolated, restarted>> /\ FenceFailed
  /\ UNCHANGED <<crashes, view, plan, original, endpoint, runs>>

OtherFence ==
  /\ Fencing("vip")
  /\ FenceDone \/ FenceFailed
  /\ UNCHANGED <<serverVars, view, plan, original, endpoint, runs, isolated, restarted>>

-----------------------------------------------------------------------------
(* recover-from-old-primary-binlog: applySSHBinlogSalvage.  The candidate is  *)
(* opened for the mysql client that applies the binlogs, then closed again.   *)

AtBinlog(i) == At("recover-from-old-primary-binlog") /\ stmt = i

(* ApplySalvageAction returned an error, which only a required action may not *)
(* survive.                                                                   *)
(* Mutant: the failure is only warned about, whatever the policy.             *)
BinlogFailedWarned == StepCompleted(plan)

BinlogFailed == IF Required THEN StepFailed ELSE StepCompleted(plan)

(* Mutant: only the restore is checked, not the application.                  *)
BinlogEndedUnchecked == StepCompleted(plan)

BinlogEnded == IF original.applied THEN StepCompleted(plan) ELSE BinlogFailed

(* SET GLOBAL on the candidate, going to `next` or, on an error, to `failed`. *)
SetCandidate(s, next, failed) ==
  /\ \/ Executed(cand, s) /\ next
     \/ Errored(cand, s) /\ failed
  /\ UNCHANGED <<trx, crashes, view, plan, original, endpoint, runs, isolated, restarted>>

GetReadOnlyState ==
  LET s == server[cand]
  IN /\ AtBinlog(1)
     /\ \/ /\ s.up
           /\ original' = [readOnly |-> s.readOnly, superReadOnly |-> s.superReadOnly,
                           applied |-> FALSE]
           /\ GoTo(IF s.superReadOnly THEN 2 ELSE IF s.readOnly THEN 3 ELSE 4)
        \/ BinlogFailed /\ UNCHANGED original
     /\ UNCHANGED <<serverVars, view, plan, endpoint, runs, isolated, restarted>>

DisableReadOnly ==
  \/ AtBinlog(2) /\ SetCandidate(SuperReadOnlyOff(server[cand]), GoTo(3), BinlogFailed)
  \/ AtBinlog(3) /\ SetCandidate(ReadOnlyOff(server[cand]), GoTo(4),
                                 IF original.superReadOnly THEN GoTo(7) ELSE BinlogFailed)
  \/ AtBinlog(7) /\ SetCandidate(SuperReadOnlyOn(server[cand]), BinlogFailed, BinlogFailed)

BinlogTrx == server[old].executed \ plan.GTIDExecuted

Salvaged(s, T) == [s EXCEPT !.executed = @ \cup T, !.relay = @ \ T]

(* All of the binlogs arrive, or a part of them and an error.                 *)
ApplyBinlogDump ==
  /\ AtBinlog(4)
  /\ \E T \in SUBSET BinlogTrx, applied \in BOOLEAN :
       /\ T # {} \/ applied => server[cand].up /\ ~server[cand].superReadOnly
       /\ applied => T = BinlogTrx
       /\ server' = [server EXCEPT ![cand] = Salvaged(@, T)]
       /\ original' = [original EXCEPT !.applied = applied]
       /\ IF original.readOnly THEN GoTo(5)
          ELSE IF applied THEN StepCompleted(plan) ELSE BinlogFailed
  /\ UNCHANGED <<trx, crashes, view, plan, endpoint, runs, isolated, restarted>>

(* Mutant: super_read_only is not restored.                                   *)
EnableReadOnlyOnly ==
  AtBinlog(5) /\ SetCandidate(ReadOnlyOn(server[cand]), BinlogEnded, BinlogFailed)

EnableReadOnly ==
  \/ AtBinlog(5) /\ SetCandidate(ReadOnlyOn(server[cand]),
                                 IF original.superReadOnly THEN GoTo(6) ELSE BinlogEnded,
                                 BinlogFailed)
  \/ AtBinlog(6) /\ SetCandidate(SuperReadOnlyOn(server[cand]), BinlogEnded, BinlogFailed)

-----------------------------------------------------------------------------
(* recover-from-replica: applySQLDonorSalvage, one action per donor, in the   *)
(* order of their IDs.                                                        *)

NextDonor(n) ==
  IF todo = {n} THEN StepCompleted(plan)
  ELSE todo' = todo \ {n} /\ stmt' = 1 /\ UNCHANGED <<step, item, status>>

DonorFailed(n) == IF Required THEN StepFailed ELSE NextDonor(n)

AtDonor(n) == At("recover-from-replica") /\ FirstByID(n, todo)

(* OpenDB fails: nothing is cleaned up.                                       *)
DonorSkipped(n) ==
  /\ AtDonor(n)
  /\ stmt = 1
  /\ DonorFailed(n)
  /\ UNCHANGED <<serverVars, view, plan, original, endpoint, runs, isolated, restarted>>

RepointToDonor(n) ==
  /\ AtDonor(n)
  /\ stmt <= 3
  /\ SetCandidate(RepointStatement(stmt, server[cand], n), GoTo(stmt + 1), GoTo(5))

(* Mutant: 1, the answer to a timeout, is not an error.                       *)
WaitForDonorUnchecked(n) ==
  /\ AtDonor(n)
  /\ stmt = 4
  /\ (server[cand].up /\ NextDonor(n)) \/ GoTo(5)
  /\ UNCHANGED <<serverVars, view, plan, original, endpoint, runs, isolated, restarted>>

WaitForDonor(n) ==
  /\ AtDonor(n)
  /\ stmt = 4
  /\ \/ /\ server[cand].up
        /\ plan.Missing[n] \subseteq server[cand].executed
        /\ NextDonor(n)
     \/ GoTo(5)
  /\ UNCHANGED <<serverVars, view, plan, original, endpoint, runs, isolated, restarted>>

(* StopAndResetReplica after an error; an error of its own is only logged.    *)
QuiesceChannel(n) ==
  /\ AtDonor(n)
  /\ \/ stmt = 5 /\ SetCandidate(StopReplica(server[cand]), GoTo(6), DonorFailed(n))
     \/ stmt = 6 /\ SetCandidate(ResetReplicaAll(server[cand]), DonorFailed(n), DonorFailed(n))

-----------------------------------------------------------------------------
(* Promotion and what follows it.                                             *)

PromoteCandidate ==
  /\ At("promote-candidate")
  /\ SetCandidate(PromoteStatement(stmt, server[cand]),
                  IF stmt = 4 THEN StepCompleted(plan) ELSE GoTo(stmt + 1), StepFailed)

(* RepointReplicas goes on with the next replica, p being the plan by now.    *)
NextReplica(n, p) ==
  /\ plan' = p
  /\ IF todo = {n} THEN StepCompleted(p)
     ELSE todo' = todo \ {n} /\ stmt' = 1 /\ UNCHANGED <<step, item, status>>

Skipping(n) == [plan EXCEPT !.SkippedReplicaIDs = @ \cup {n}]

RepointReplicas ==
  /\ At("repoint-replicas")
  /\ \E n \in todo :
       LET s == RepointStatement(stmt, server[n], cand)
       IN /\ FirstInSpec(n, todo)
          /\ \/ Executed(n, s) /\ stmt < 3 /\ GoTo(stmt + 1) /\ UNCHANGED plan
             \/ Executed(n, s) /\ stmt = 3 /\ NextReplica(n, plan)
             \/ Errored(n, s) /\ NextReplica(n, Skipping(n))
  /\ UNCHANGED <<trx, crashes, view, original, endpoint, runs, isolated, restarted>>

(* The endpoint script runs to its end, or fails having done its work or not. *)
SwitchWriterEndpoint ==
  /\ At("switch-writer-endpoint")
  /\ \/ endpoint' = cand /\ StepCompleted(plan)
     \/ endpoint' \in {endpoint, cand} /\ StepFailed
  /\ UNCHANGED <<serverVars, view, plan, original, runs, isolated, restarted>>

VerifyWriterEndpoint ==
  /\ At("verify-writer-endpoint")
  /\ StepCompleted(plan) \/ StepFailed
  /\ UNCHANGED <<serverVars, view, plan, original, endpoint, runs, isolated, restarted>>

(* Mutant: verification is repeated until it holds.                           *)
VerifyNodeForever(n, ok, next) ==
  /\ server[n].up /\ ok /\ next /\ restarted' = restarted \ {n}
  /\ UNCHANGED <<serverVars, view, plan, original, endpoint, runs, isolated>>

VerifyNode(n, ok, next) ==
  /\ \/ server[n].up /\ ok /\ next /\ restarted' = restarted \ {n}
     \/ StepFailed /\ UNCHANGED restarted
  /\ UNCHANGED <<serverVars, view, plan, original, endpoint, runs, isolated>>

VerifyCluster ==
  /\ At("verify-cluster")
  /\ \/ stmt = 1 /\ VerifyNode(cand, PromotedOK(server[cand]),
                                IF todo = {} THEN StepCompleted(plan) ELSE GoTo(2))
     \/ /\ stmt = 2
        /\ \E n \in todo :
             /\ FirstInSpec(n, todo)
             /\ VerifyNode(n, Follows(n, cand),
                  IF todo = {n} THEN StepCompleted(plan)
                  ELSE todo' = todo \ {n} /\ UNCHANGED <<step, stmt, item, status>>)

-----------------------------------------------------------------------------
Planning ==
  \/ \E n \in Nodes : Inspect(n)
  \/ \E o, c \in Nodes : BuildPlan(o, c)
  \/ PlanRefused

Fence == FenceSkipped \/ FenceReadOnly \/ FenceLost \/ Stonith \/ OtherFence

BinlogSalvageStep == GetReadOnlyState \/ DisableReadOnly \/ ApplyBinlogDump \/ EnableReadOnly

DonorSalvage ==
  \E n \in todo : DonorSkipped(n) \/ RepointToDonor(n) \/ WaitForDonor(n) \/ QuiesceChannel(n)

Execution ==
  \/ PrecheckWriterEndpoint
  \/ Fence
  \/ BinlogSalvageStep
  \/ DonorSalvage
  \/ PromoteCandidate
  \/ RepointReplicas
  \/ SwitchWriterEndpoint
  \/ VerifyWriterEndpoint
  \/ VerifyCluster

Environment ==
  \/ (Clients \/ Replication) /\ UNCHANGED failoverVars
  \/ \E n \in Nodes : Crash(n) /\ UNCHANGED failoverVars
  \/ \E n \in Nodes :
       /\ Recover(n)
       /\ restarted' = restarted \cup {n}
       /\ UNCHANGED <<progress, view, plan, original, endpoint, status, runs, isolated>>

Next == Run \/ Planning \/ Execution \/ Kill \/ Environment

Spec == Init /\ [][Next]_vars

(* The executor goes on: every statement, command and wait ends, in time or   *)
(* with an error; replication moves while its threads run.                    *)
Fairness ==
  /\ WF_vars(Planning)
  /\ WF_vars(Execution)
  /\ \A n \in Nodes, t \in Trx : WF_vars((Fetch(n, t) \/ Apply(n, t)) /\ UNCHANGED failoverVars)

FairSpec == Spec /\ Fairness

-----------------------------------------------------------------------------
(* Properties. *)

(* A plan that is not blocked is being executed, or was executed last.        *)
Executing == status \in {"running", "failed", "succeeded"}

Promoting == Executing /\ Rank(step) >= Rank("promote-candidate")

(* The old primary has been down since before the salvage.                    *)
Isolated == isolated /\ old \notin restarted

(* Unless availability comes first, a candidate is promoted only once it has  *)
(* everything that the isolated old primary and the planned donors had: an    *)
(* incomplete salvage, however it failed, never leads to a promotion.         *)
NoKnownLoss ==
  Promoting /\ Required =>
    /\ Isolated => server[old].executed \subseteq server[cand].executed
    /\ \A n \in Nodes : plan.Missing[n] \subseteq server[cand].executed

(* Opening the candidate for the binlogs and closing it again leaves it       *)
(* closed to clients until it is promoted, whichever statement failed.        *)
ClosedUntilPromoted ==
  /\ Required /\ cand \notin restarted
  /\ status = "running" /\ step # "recover-from-old-primary-binlog"
  /\ Rank(step) < Rank("promote-candidate") \/ (At("promote-candidate") /\ stmt <= 3)
  => server[cand].readOnly /\ server[cand].superReadOnly

(* With a STONITH step that is required, writes move (the candidate is        *)
(* promoted) only after the old primary was taken down.                       *)
StonithRequired == \E i \in DOMAIN FencingSteps : FencingSteps[i] = [kind |-> "stonith", required |-> TRUE]

NoSplitBrain ==
  Promoting /\ StonithRequired /\ old \notin restarted => ~server[old].up

(* The writer endpoint moves only to a server that is open, that has all the  *)
(* isolated old primary had, and that a required fence allows.                *)
EndpointFollowsFailover ==
  [][endpoint' # endpoint /\ endpoint' \notin restarted =>
       /\ ~server[endpoint'].readOnly
       /\ Required /\ Isolated => server[old].executed \subseteq server[endpoint'].executed]_vars

(* A failover recorded as succeeded has the topology it promises: on every    *)
(* replica that was neither skipped nor restarted since it was verified.      *)
SucceededTopology ==
  status = "succeeded" =>
    /\ cand \notin restarted => PromotedOK(server[cand])
    /\ \A n \in Verifiable(plan) \ restarted : server[n].source = cand /\ server[n].running

(* The strengthening of these properties that every step preserves.  The      *)
(* promotion stays within its script.                                         *)
ScriptInv == step = "promote-candidate" => stmt <= 4

(* The view is never ahead of the servers, and right about the modes of those *)
(* that were not restarted since; a node it calls dead has told nothing.      *)
Closed(s) == s.readOnly /\ s.superReadOnly

ViewInv ==
  \A n \in Nodes : view[n] # Unseen =>
    /\ status = "planning"
    /\ view[n].health = "dead" => view[n] = DeadState
    /\ view[n].gtid \subseteq server[n].executed
    /\ view[n].health # "dead" /\ n \notin restarted /\ ~Writable(view[n]) => Closed(server[n])

(* What an executable plan has established, and how long it stays so.         *)
PlanInv ==
  Executing =>
    /\ old # cand
    /\ Required => plan.Binlog
    /\ plan.GTIDExecuted \subseteq server[cand].executed

(* An isolated old primary is down: nothing is added to what was salvaged.    *)
FenceInv ==
  Executing =>
    /\ Isolated => ~server[old].up
    /\ step = "fence-old-primary" /\ old \notin restarted =>
         \A i \in 1..(item - 1) :
           FencingSteps[i] = [kind |-> "stonith", required |-> TRUE] => ~server[old].up
    /\ Rank(step) > Rank("fence-old-primary") /\ StonithRequired /\ old \notin restarted =>
         ~server[old].up

(* What each stage of the salvage has brought to the candidate.               *)
BinlogInv ==
  Executing /\ Required =>
    /\ Rank(step) < Rank("recover-from-old-primary-binlog") => ~original.applied
    /\ Isolated /\ \/ step = "recover-from-old-primary-binlog" /\ original.applied
                   \/ Rank(step) > Rank("recover-from-old-primary-binlog")
       => server[old].executed \subseteq server[cand].executed

DonorInv ==
  Executing /\ Required =>
    /\ step = "recover-from-replica" =>
         \A n \in Nodes \ todo : plan.Missing[n] \subseteq server[cand].executed
    /\ Rank(step) > Rank("recover-from-replica") =>
         \A n \in Nodes : plan.Missing[n] \subseteq server[cand].executed

(* While the candidate is open for the binlogs, its state to be restored is   *)
(* remembered.                                                                *)
OpeningInv ==
  Required /\ cand \notin restarted /\ At("recover-from-old-primary-binlog") =>
    IF stmt = 1 THEN Closed(server[cand]) ELSE original.readOnly /\ original.superReadOnly

OpenInv ==
  Executing /\ Rank(step) > Rank("promote-candidate") /\ cand \notin restarted =>
    ~server[cand].readOnly

(* Verification so far.                                                       *)
VerifyInv ==
  Executing /\ step = "verify-cluster" =>
    /\ todo \subseteq Verifiable(plan)
    /\ stmt = 2 /\ cand \notin restarted => PromotedOK(server[cand])
    /\ \A n \in Verifiable(plan) \ (todo \cup restarted) :
         server[n].source = cand /\ server[n].running

IInv ==
  /\ TypeOK /\ ScriptInv /\ DownInv /\ ViewInv /\ PlanInv /\ FenceInv
  /\ BinlogInv /\ DonorInv /\ OpeningInv /\ ClosedUntilPromoted
  /\ OpenInv /\ VerifyInv /\ SucceededTopology

(* At most one server that is up is open to writes, however often failover is *)
(* run, once the old primary is down for good ("single_writer: enforce        *)
(* single-writer invariant", operations.md).                                  *)
AtMostOneWriter ==
  server[InitialPrimary].up \/ Cardinality({n \in Nodes : server[n].up /\ ~server[n].readOnly}) <= 1

(* Every run ends.                                                            *)
RunTerminates ==
  status \in {"planning", "running"} ~> status \in {"refused", "blocked", "failed", "succeeded"}

(* After a last failover that succeeded, the replicas it repointed get all    *)
(* that the new primary has.                                                  *)
Converges ==
  <>[](status = "succeeded" /\ restarted = {} /\ server[cand].up /\ runs = MaxRuns)
    => <>[](\A n \in Verifiable(plan) :
              server[n].up => server[cand].executed \subseteq server[n].executed)
=============================================================================
