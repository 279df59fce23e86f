----------------------------- MODULE Switchover -----------------------------
(***************************************************************************)
(* The online switchover of internal/controller/switchover: BuildPlan over *)
(* a discovered view, then ExecutePlan running the planned steps, each one *)
(* a script of SQL statements sent to live servers (MySQLServers) while    *)
(* clients write, replicas apply, servers crash and statements fail.       *)
(*                                                                         *)
(* One statement is one action.  A statement may fail without effect or    *)
(* after taking effect (its reply was lost); the first failure ends the    *)
(* execution, and nothing is rolled back.  `mha switch` can then be run    *)
(* again, up to MaxRuns times.                                             *)
(***************************************************************************)
EXTENDS Discovery

CONSTANTS
  StableSamples,    \* samples WaitForStableGTIDAfterReadOnly asks for (3)
  HasSuperReadOnly, \* nodes whose capabilities include super_read_only
  EndpointEnabled,  \* writer_endpoint.kind is vip or proxy
  InitialPrimary,   \* the primary the cluster starts with
  InitialWritable,  \* the nodes that are not read-only at first
  MaxRuns           \* bound on invocations of `mha switch`

ASSUME SwitchoverAssumption ==
  /\ StableSamples \in Nat \ {0}
  /\ PublishLag + 2 <= StableSamples
  /\ HasSuperReadOnly \subseteq Nodes
  /\ EndpointEnabled \in BOOLEAN
  /\ InitialPrimary \in Nodes
  /\ InitialWritable \subseteq Nodes
  /\ MaxRuns \in Nat

VARIABLES
  step,      \* the step being executed, or the one the last run ended at
  stmt,      \* the statement of that step
  todo,      \* the nodes the step still has to visit after the current one
  view,      \* view[n]: what Discover has learnt about n, Unseen before
  plan,      \* plan.OriginalPrimary and plan.Candidate
  sample,    \* local variables of WaitForStableGTIDAfterReadOnly
  endpoint,  \* the node the writer endpoint routes to
  status,    \* of the last run: "none", "planning", "refused", RunStatus...
  runs,      \* how many runs were started
  fenced,    \* ghost: locked by this run and not crashed since
  verified   \* ghost: inspected by this run's verify and not crashed since

executorVars == <<step, stmt, todo, view, plan, sample, endpoint, status, runs, fenced, verified>>
vars == <<server, trx, crashes, step, stmt, todo, view, plan, sample, endpoint,
          status, runs, fenced, verified>>

StepNames ==
  {"precheck-writer-endpoint", "lock-candidate", "lock-old-primary",
   "wait-candidate-catchup", "promote-candidate", "repoint-replicas",
   "repoint-old-primary", "switch-writer-endpoint", "verify-writer-endpoint", "verify"}

NoSample == [active |-> {}, gtid |-> {}, have |-> FALSE, stable |-> 0]

orig == plan.OriginalPrimary
cand == plan.Candidate

TypeOK ==
  /\ ServersTypeOK
  /\ step \in StepNames \cup {"none"}
  /\ stmt \in 1..4
  /\ todo \subseteq Nodes
  /\ view \in [Nodes -> NodeStates \cup {Unseen}]
  /\ plan \in [OriginalPrimary : Nodes, Candidate : Nodes]
  /\ sample \in [active : SUBSET Trx, gtid : SUBSET Trx, have : BOOLEAN, stable : 0..StableSamples]
  /\ endpoint \in Nodes
  /\ status \in {"none", "planning", "refused", "running", "failed", "succeeded"}
  /\ runs \in 0..MaxRuns
  /\ fenced \subseteq Nodes
  /\ verified \subseteq Nodes

Init ==
  /\ ServersInit(InitialPrimary, InitialWritable)
  /\ step = "none"
  /\ stmt = 1
  /\ todo = {}
  /\ view = [n \in Nodes |-> Unseen]
  /\ plan = [OriginalPrimary |-> InitialPrimary, Candidate |-> InitialPrimary]
  /\ sample = NoSample
  /\ endpoint = InitialPrimary
  /\ status = "none"
  /\ runs = 0
  /\ fenced = {}
  /\ verified = {}

-----------------------------------------------------------------------------
(* Planning. *)

Run ==
  /\ status \notin {"planning", "running"}
  /\ runs < MaxRuns
  /\ status' = "planning"
  /\ runs' = runs + 1
  /\ UNCHANGED <<serverVars, step, stmt, todo, view, plan, sample, endpoint, fenced, verified>>

(* The goroutine of Discover for node n: it is inspected or found unreachable. *)
Inspect(n) ==
  /\ status = "planning"
  /\ view[n] = Unseen
  /\ \E seen \in Inspections(n) : view' = [view EXCEPT ![n] = seen]
  /\ UNCHANGED <<serverVars, step, stmt, todo, plan, sample, endpoint, status, runs, fenced, verified>>

Discovered == status = "planning" /\ \A n \in Nodes : view[n] # Unseen

(* Every early return of BuildPlan passed: assessment, primary, candidate,   *)
(* and, for a writable candidate, candidateErrantGTID.                       *)
CanPlan(o, c) ==
  /\ Discoverable(view)
  /\ IsPrimary(view, o)
  /\ ~HasErrors(view, o)
  /\ IsCandidate(view, o, c)
  /\ Writable(view[c]) => view[c].gtid \subseteq view[o].gtid

BuildPlan(o, c) ==
  /\ Discovered
  /\ CanPlan(o, c)
  /\ plan' = [OriginalPrimary |-> o, Candidate |-> c]
  /\ step' = IF EndpointEnabled THEN "precheck-writer-endpoint" ELSE "lock-candidate"
  /\ stmt' = 1
  /\ todo' = {}
  /\ status' = "running"
  /\ view' = [n \in Nodes |-> Unseen]
  /\ sample' = NoSample
  /\ fenced' = {}
  /\ verified' = {}
  /\ UNCHANGED <<serverVars, endpoint, runs>>

PlanRefused ==
  /\ Discovered
  /\ \A o, c \in Nodes : ~CanPlan(o, c)
  /\ status' = "refused"
  /\ view' = [n \in Nodes |-> Unseen]
  /\ UNCHANGED <<serverVars, step, stmt, todo, plan, sample, endpoint, runs, fenced, verified>>

-----------------------------------------------------------------------------
(* The executor loop. *)

Others == Repointable \ {orig, cand}

(* The pending steps in plan order; skipped ones have no effect. *)
After(s) ==
  CASE s = "precheck-writer-endpoint" -> "lock-candidate"
    [] s = "lock-candidate"           -> "lock-old-primary"
    [] s = "lock-old-primary"         -> "wait-candidate-catchup"
    [] s = "wait-candidate-catchup"   -> "promote-candidate"
    [] s = "promote-candidate" /\ Others # {} -> "repoint-replicas"
    [] s = "promote-candidate" /\ Others = {} -> "repoint-old-primary"
    [] s = "repoint-replicas"         -> "repoint-old-primary"
    [] s = "repoint-old-primary" /\ EndpointEnabled  -> "switch-writer-endpoint"
    [] s = "repoint-old-primary" /\ ~EndpointEnabled -> "verify"
    [] s = "switch-writer-endpoint"   -> "verify-writer-endpoint"
    [] s = "verify-writer-endpoint"   -> "verify"
    [] s = "verify"                   -> "verify"

(* executeStep returned nil. *)
StepCompleted ==
  /\ step' = After(step)
  /\ stmt' = 1
  /\ todo' = IF step # "verify" /\ After(step) \in {"repoint-replicas", "verify"}
             THEN Others ELSE {}
  /\ status' = IF step = "verify" THEN "succeeded" ELSE status

NextStatement == stmt' = stmt + 1 /\ UNCHANGED <<step, todo, status>>

(* executeStep returned an error: the run fails and step is its FailedStep. *)
StepFailed ==
  /\ status' = "failed"
  /\ UNCHANGED <<step, stmt, todo>>

At(s) == status = "running" /\ step = s

PrecheckWriterEndpoint ==
  /\ At("precheck-writer-endpoint")
  /\ StepCompleted \/ StepFailed
  /\ UNCHANGED <<serverVars, view, plan, sample, endpoint, runs, fenced, verified>>

(* FenceReadOnly on n: super_read_only, or read_only when that fails.  The   *)
(* last disjunct is OpenDB failing, both statements failing, or a kill.      *)
Fence(n) ==
  LET super == stmt = 1 /\ n \in HasSuperReadOnly
      state == IF super THEN SuperReadOnlyOn(server[n]) ELSE ReadOnlyOn(server[n])
  IN /\ \/ Executed(n, state) /\ StepCompleted /\ fenced' = fenced \cup {n}
        \/ super /\ Errored(n, state) /\ NextStatement /\ UNCHANGED fenced
        \/ Errored(n, state) /\ StepFailed /\ UNCHANGED fenced
     /\ UNCHANGED <<trx, crashes, view, plan, sample, endpoint, runs, verified>>

LockCandidate == At("lock-candidate") /\ Fence(cand)

(* Mutants: the wrong server is locked; a failure to lock is only logged.     *)
LockOldPrimaryOnCandidate == At("lock-old-primary") /\ Fence(cand)

LockOldPrimaryBestEffort ==
  /\ At("lock-old-primary")
  /\ \/ Fence(orig)
     \/ StepCompleted /\ UNCHANGED <<serverVars, view, plan, sample, endpoint, runs, fenced, verified>>

LockOldPrimary == At("lock-old-primary") /\ Fence(orig)

(* WaitCandidateCatchUp, 1: countActiveInnoDBWriteTransactions on the old    *)
(* primary.                                                                  *)
CountActiveWrites ==
  /\ At("wait-candidate-catchup")
  /\ stmt = 1
  /\ server[orig].up
  /\ sample' = [sample EXCEPT !.active = ActiveWrites(orig)]
  /\ NextStatement
  /\ UNCHANGED <<serverVars, view, plan, endpoint, runs, fenced, verified>>

(* 2: GetGTIDExecuted, then the bookkeeping on stableCount.                   *)
(* Mutant: one quiet sample is enough.                                        *)
StableCountAtOnce(gtid) == IF sample.active # {} THEN 0 ELSE StableSamples

StableCount(gtid) ==
  IF sample.active # {} THEN 0
  ELSE IF sample.have /\ gtid = sample.gtid THEN sample.stable + 1 ELSE 1

(* Mutant: one sample too many is asked for.                                  *)
ReadGTIDExecutedOffByOne ==
  /\ At("wait-candidate-catchup")
  /\ stmt = 2
  /\ server[orig].up
  /\ LET gtid == server[orig].executed
     IN /\ sample' = [sample EXCEPT !.gtid = gtid, !.have = TRUE, !.stable = StableCount(gtid)]
        /\ stmt' = IF StableCount(gtid) > StableSamples THEN 4 ELSE 3
  /\ UNCHANGED <<serverVars, step, todo, status, view, plan, endpoint, runs, fenced, verified>>

ReadGTIDExecuted ==
  /\ At("wait-candidate-catchup")
  /\ stmt = 2
  /\ server[orig].up
  /\ LET gtid == server[orig].executed
     IN /\ sample' = [sample EXCEPT !.gtid = gtid, !.have = TRUE, !.stable = StableCount(gtid)]
        /\ stmt' = IF StableCount(gtid) >= StableSamples THEN 4 ELSE 3
  /\ UNCHANGED <<serverVars, step, todo, status, view, plan, endpoint, runs, fenced, verified>>

(* 3: the ticker.                                                             *)
PollAgain ==
  /\ At("wait-candidate-catchup")
  /\ stmt = 3
  /\ Elapse
  /\ stmt' = 1
  /\ UNCHANGED <<server, crashes, step, todo, status, view, plan, sample, endpoint, runs,
                 fenced, verified>>

(* 4: WAIT_FOR_EXECUTED_GTID_SET on the candidate.                            *)
(* Mutant: the value the function returns, 1 for a timeout, is ignored.       *)
WaitForExecutedGTIDSetUnchecked ==
  /\ At("wait-candidate-catchup")
  /\ stmt = 4
  /\ server[cand].up
  /\ StepCompleted
  /\ UNCHANGED <<serverVars, view, plan, sample, endpoint, runs, fenced, verified>>

WaitForExecutedGTIDSet ==
  /\ At("wait-candidate-catchup")
  /\ stmt = 4
  /\ server[cand].up
  /\ sample.gtid \subseteq server[cand].executed
  /\ StepCompleted
  /\ UNCHANGED <<serverVars, view, plan, sample, endpoint, runs, fenced, verified>>

(* A query of this step failed, or one of its two timeouts ended.            *)
(* Mutant: the polling loop has no deadline.                                  *)
CatchUpTimeoutInWaitOnly ==
  /\ At("wait-candidate-catchup")
  /\ stmt = 4
  /\ StepFailed
  /\ UNCHANGED <<serverVars, view, plan, sample, endpoint, runs, fenced, verified>>

CatchUpTimeout ==
  /\ At("wait-candidate-catchup")
  /\ StepFailed
  /\ UNCHANGED <<serverVars, view, plan, sample, endpoint, runs, fenced, verified>>

(* One statement of a script of `last` statements on node n, leaving it in   *)
(* state s; `done` is what happens after the script's last statement.        *)
Statement(n, s, last, done) ==
  /\ \/ Executed(n, s) /\ stmt < last /\ NextStatement
     \/ Executed(n, s) /\ stmt = last /\ done
     \/ Errored(n, s) /\ StepFailed
  /\ UNCHANGED <<trx, crashes, view, plan, sample, endpoint, runs, fenced, verified>>

PromoteCandidate ==
  /\ At("promote-candidate")
  /\ Statement(cand, PromoteStatement(stmt, server[cand]), 4, StepCompleted)

(* The loop over nodes: go on with the next one, or end the step.             *)
NextNode(n) ==
  IF todo = {n} THEN StepCompleted
  ELSE /\ todo' = todo \ {n}
       /\ stmt' = 1
       /\ UNCHANGED <<step, status>>

RepointReplicas ==
  /\ At("repoint-replicas")
  /\ \E n \in todo :
       /\ FirstByID(n, todo)
       /\ Statement(n, RepointStatement(stmt, server[n], cand), 3, NextNode(n))

(* Mutant: START REPLICA is left out, which verification does not look at.    *)
RepointOldPrimaryStopped ==
  /\ At("repoint-old-primary")
  /\ Statement(orig, RepointStatement(stmt, server[orig], cand), 2, StepCompleted)

RepointOldPrimary ==
  /\ At("repoint-old-primary")
  /\ Statement(orig, RepointStatement(stmt, server[orig], cand), 3, StepCompleted)

(* The endpoint script runs to its end, or fails having done its work or not. *)
SwitchWriterEndpoint ==
  /\ At("switch-writer-endpoint")
  /\ \/ endpoint' = cand /\ StepCompleted
     \/ endpoint' \in {endpoint, cand} /\ StepFailed
  /\ UNCHANGED <<serverVars, view, plan, sample, runs, fenced, verified>>

VerifyWriterEndpoint ==
  /\ At("verify-writer-endpoint")
  /\ StepCompleted \/ StepFailed
  /\ UNCHANGED <<serverVars, view, plan, sample, endpoint, runs, fenced, verified>>

-----------------------------------------------------------------------------
(* VerifyPostSwitchover: the candidate, then the old primary, then the rest. *)

(* Mutant: a demoted server that accepts writes is not noticed.               *)
DemotedOKSourceOnly(s) == s.source = cand

DemotedOK(s) == s.readOnly /\ s.source = cand

VerifyNode(n, ok, next) ==
  /\ \/ server[n].up /\ ok /\ next /\ verified' = verified \cup {n}
     \/ StepFailed /\ UNCHANGED verified
  /\ UNCHANGED <<serverVars, view, plan, sample, endpoint, runs, fenced>>

VerifyCluster ==
  /\ At("verify")
  /\ \/ stmt = 1 /\ VerifyNode(cand, PromotedOK(server[cand]), NextStatement)
     \/ /\ stmt = 2
        /\ VerifyNode(orig, DemotedOK(server[orig]),
                      IF todo = {} THEN StepCompleted ELSE NextStatement)
     \/ /\ stmt = 3
        /\ \E n \in todo :
             /\ FirstInSpec(n, todo)
             /\ VerifyNode(n, Follows(n, cand),
                  IF todo = {n} THEN StepCompleted
                  ELSE todo' = todo \ {n} /\ UNCHANGED <<step, stmt, status>>)

-----------------------------------------------------------------------------
Planning ==
  \/ \E n \in Nodes : Inspect(n)
  \/ \E o, c \in Nodes : BuildPlan(o, c)
  \/ PlanRefused

Execution ==
  \/ PrecheckWriterEndpoint
  \/ LockCandidate
  \/ LockOldPrimary
  \/ CountActiveWrites
  \/ ReadGTIDExecuted
  \/ PollAgain
  \/ WaitForExecutedGTIDSet
  \/ CatchUpTimeout
  \/ PromoteCandidate
  \/ RepointReplicas
  \/ RepointOldPrimary
  \/ SwitchWriterEndpoint
  \/ VerifyWriterEndpoint
  \/ VerifyCluster

Environment ==
  \/ (Clients \/ Replication) /\ UNCHANGED executorVars
  \/ \E n \in Nodes : Recover(n) /\ UNCHANGED executorVars
  \/ \E n \in Nodes :
       /\ Crash(n)
       /\ fenced' = fenced \ {n}
       /\ verified' = verified \ {n}
       /\ UNCHANGED <<step, stmt, todo, view, plan, sample, endpoint, status, runs>>

Next == Run \/ Planning \/ Execution \/ Environment

Spec == Init /\ [][Next]_vars

(* The executor goes on: every call returns or times out, and replication    *)
(* moves while its threads run.  Clients promise nothing.                    *)
Fairness ==
  /\ WF_vars(Planning)
  /\ WF_vars(Execution)
  /\ WF_vars(CatchUpTimeout)
  /\ \A n \in Nodes, t \in Trx : WF_vars((Fetch(n, t) \/ Apply(n, t)) /\ UNCHANGED executorVars)

FairSpec == Spec /\ Fairness

-----------------------------------------------------------------------------
(* Properties. *)

AfterCatchUp ==
  {"promote-candidate", "repoint-replicas", "repoint-old-primary",
   "switch-writer-endpoint", "verify-writer-endpoint", "verify"}

(* From the promotion on, every transaction that the fence of the old primary *)
(* excludes has ended there, and if it committed the candidate has it: no     *)
(* late COMMIT slips between the GTID snapshot of WaitCandidateCatchUp and    *)
(* PromoteCandidate.  Excluded are a fence that degraded to read_only, for    *)
(* SUPER sessions, and a fence that a crash of the old primary undid.         *)
NoLostWrite ==
  step \in AfterCatchUp /\ orig \in fenced =>
    \A t \in Trx : trx[t].node = orig /\ ~Accepts(orig, t) =>
      CASE trx[t].state = "committed" -> t \in server[cand].executed
        [] OTHER                      -> trx[t].state = "idle"

(* The strengthening of NoLostWrite that every step preserves.  While the    *)
(* old primary's GTID is being sampled, each good sample in a row leaves no   *)
(* excluded transaction active, and those still leaving are one poll older;   *)
(* none is old enough to outlive the last sample.                             *)
BeforeCatchUp == {"precheck-writer-endpoint", "lock-candidate", "lock-old-primary"}

FenceHolds == step \notin BeforeCatchUp \cup {"none"} /\ orig \in fenced

Excluded(t) == trx[t].node = orig /\ ~Accepts(orig, t)

PlanInv == step # "none" => orig # cand

FenceInv ==
  /\ \A n \in fenced : server[n].up
  /\ FenceHolds => server[orig].readOnly

PublishedInv == \A t \in Trx : trx[t].state = "committed" => t \in server[trx[t].node].executed

SampleInv ==
  /\ step \in BeforeCatchUp => sample.stable = 0
  /\ step = "wait-candidate-catchup" =>
       IF stmt = 4 THEN sample.stable = StableSamples ELSE sample.stable < StableSamples

Drained(t) ==
  /\ (stmt = 2 /\ sample.active = {}) \/ sample.stable > 0 => trx[t].state # "active"
  /\ trx[t].state = "leaving" =>
       IF stmt \in {1, 2} THEN trx[t].age >= sample.stable ELSE trx[t].age + 1 >= sample.stable
  /\ stmt = 4 /\ trx[t].state = "committed" => t \in sample.gtid

DrainInv ==
  step = "wait-candidate-catchup" /\ FenceHolds => \A t \in Trx : Excluded(t) => Drained(t)

(* What verification has found stays as it was found, until a crash: the last *)
(* step sends no statement that changes a server.                             *)
VerifiedAs(n) ==
  /\ server[n].up
  /\ n = cand => server[n].source = NoSource /\ ~server[n].readOnly
  /\ n # cand => server[n].source = cand
  /\ n = orig => server[n].readOnly
  /\ n \notin {cand, orig} => server[n].running

VerifiedInv ==
  /\ step = "verify" => todo \subseteq Others
  /\ step # "verify" => verified = {}
  /\ \A n \in verified : VerifiedAs(n)

IInv ==
  /\ TypeOK
  /\ PlanInv
  /\ FenceInv
  /\ PublishedInv
  /\ SampleInv
  /\ DrainInv
  /\ NoLostWrite
  /\ VerifiedInv

(* As long as no server restarts, at most one server is open to ordinary      *)
(* writes, whatever fails and however often the switchover is run again: the  *)
(* locks, the promotion and the assessment of the next run keep it so.        *)
AtMostOneWriter == crashes = 0 => Cardinality({n \in Nodes : ~server[n].readOnly}) <= 1

(* When the run is recorded as succeeded the topology is the one promised,    *)
(* on every server that has not crashed since it was verified.                *)
SucceededTopology ==
  status = "succeeded" =>
    /\ cand \in verified => server[cand].source = NoSource /\ ~server[cand].readOnly
    /\ \A n \in verified \ {cand} : server[n].source = cand
    /\ orig \in verified => server[orig].readOnly
    /\ \A n \in verified \ {cand, orig} : server[n].running

(* The candidate is promoted holding nothing the old primary does not have.   *)
PromotedWithoutErrantGTIDs ==
  crashes = 0 /\ At("promote-candidate") /\ stmt = 1 =>
    server[cand].executed \subseteq server[orig].executed

(* The writer endpoint leaves the old primary only when that one is closed    *)
(* and the new one is open and complete.                                      *)
EndpointFollowsHandover ==
  [][endpoint' # endpoint /\ crashes = 0 =>
       /\ ~server[endpoint'].readOnly /\ server[orig].readOnly
       /\ \A t \in Trx : ~Accepts(orig, t) /\ t \in server[orig].executed
                           => t \in server[endpoint'].executed]_vars

(* Every run ends: a plan is made or refused, and an execution succeeds or    *)
(* fails, even when a client never ends its transaction on the old primary.   *)
RunTerminates == status \in {"planning", "running"} ~> status \in {"refused", "failed", "succeeded"}

(* After a last run that succeeded behind a full fence all nodes converge.    *)
Converges ==
  <>[](status = "succeeded" /\ orig \in fenced /\ server[orig].superReadOnly)
    => <>[](\A n, m \in Nodes : server[n].executed = server[m].executed)
=============================================================================
