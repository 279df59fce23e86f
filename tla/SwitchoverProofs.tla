-------------------------- MODULE SwitchoverProofs --------------------------
(***************************************************************************)
(* Machine-checked proofs about Switchover, for any set of nodes and       *)
(* transactions, any number of runs and crashes, and every number of       *)
(* stable samples that exceeds PublishLag by two.                          *)
(***************************************************************************)
EXTENDS Switchover, DiscoveryProofs

-----------------------------------------------------------------------------
(* Type correctness. *)

LEMMA InitType == Init => TypeOK
<1> SUFFICES ASSUME Init PROVE TypeOK
  OBVIOUS
<1> USE SwitchoverAssumption, ServersAssumption DEF Init, ServersInit
<1>1. server \in [Nodes -> ServerStates]
  BY DEF ServerStates
<1>2. trx \in [Trx -> TrxStates]
  BY DEF TrxStates
<1>3. crashes \in 0..MaxCrashes
  OBVIOUS
<1>4. view \in [Nodes -> NodeStates \cup {Unseen}]
  OBVIOUS
<1>5. sample \in [active : SUBSET Trx, gtid : SUBSET Trx, have : BOOLEAN, stable : 0..StableSamples]
  BY DEF NoSample
<1> QED
  BY <1>1, <1>2, <1>3, <1>4, <1>5 DEF TypeOK, ServersTypeOK

LEMMA AfterType == ASSUME NEW s \in StepNames PROVE After(s) \in StepNames
<1> SUFFICES ASSUME NEW r, r = After(s) PROVE r \in StepNames
  OBVIOUS
<1>1. CASE s = "promote-candidate"
  <2>1. CASE Others = {}
    BY <1>1, <2>1, Zenon DEF After, StepNames
  <2>2. CASE Others # {}
    BY <1>1, <2>2, Zenon DEF After, StepNames
  <2> QED BY <2>1, <2>2
<1>2. CASE s = "repoint-old-primary"
  BY <1>2, SwitchoverAssumption DEF After, StepNames
<1>3. CASE s = "verify"
  BY <1>3 DEF After, StepNames
<1> QED
  BY <1>1, <1>2, <1>3 DEF After, StepNames

LEMMA StepCompletedType ==
  ASSUME TypeOK, step \in StepNames, StepCompleted
  PROVE  /\ step' \in StepNames
         /\ stmt' \in 1..4
         /\ todo' \subseteq Nodes
         /\ status' \in {"none", "planning", "refused", "running", "failed", "succeeded"}
<1>1. step' \in StepNames
  BY AfterType DEF StepCompleted
<1> QED
  BY <1>1 DEF TypeOK, StepCompleted, Others, Repointable

(* StepCompleted, NextStatement and StepFailed keep the executor's position  *)
(* well formed.                                                              *)
PositionOK ==
  /\ step \in StepNames \cup {"none"}
  /\ stmt \in 1..4
  /\ todo \subseteq Nodes
  /\ status \in {"none", "planning", "refused", "running", "failed", "succeeded"}

LEMMA PositionType ==
  ASSUME TypeOK, step \in StepNames,
         \/ StepCompleted
         \/ stmt # 4 /\ NextStatement
         \/ StepFailed
         \/ todo' \subseteq Nodes /\ stmt' \in 1..4 /\ UNCHANGED <<step, status>>
  PROVE  PositionOK'
<1>1. CASE StepCompleted
  BY <1>1, StepCompletedType DEF PositionOK
<1>2. CASE stmt # 4 /\ NextStatement
  BY <1>2 DEF TypeOK, PositionOK, NextStatement
<1>3. CASE StepFailed
  BY <1>3 DEF TypeOK, PositionOK, StepFailed
<1>4. CASE todo' \subseteq Nodes /\ stmt' \in 1..4 /\ UNCHANGED <<step, status>>
  BY <1>4 DEF TypeOK, PositionOK
<1> QED
  BY <1>1, <1>2, <1>3, <1>4

(* The other variables are well formed after a step that leaves them alone.  *)
LEMMA FrameType ==
  ASSUME TypeOK, PositionOK', ServersTypeOK', fenced' \subseteq Nodes, verified' \subseteq Nodes,
         UNCHANGED <<view, plan, sample, runs>>, endpoint' \in Nodes
  PROVE  TypeOK'
BY DEF TypeOK, PositionOK

LEMMA FenceType ==
  ASSUME TypeOK, NEW n \in Nodes, step \in StepNames, Fence(n)
  PROVE  TypeOK'
<1> DEFINE super == stmt = 1 /\ n \in HasSuperReadOnly
           state == IF super THEN SuperReadOnlyOn(server[n]) ELSE ReadOnlyOn(server[n])
<1>1. /\ \/ Executed(n, state) /\ StepCompleted /\ fenced' = fenced \cup {n}
         \/ super /\ Errored(n, state) /\ NextStatement /\ UNCHANGED fenced
         \/ Errored(n, state) /\ StepFailed /\ UNCHANGED fenced
      /\ UNCHANGED <<trx, crashes, view, plan, sample, endpoint, runs, verified>>
  BY Zenon DEF Fence
<1>2. server[n] \in ServerStates
  BY DEF TypeOK, ServersTypeOK
<1>3. state \in ServerStates
  BY <1>2, StatementType
<1> HIDE DEF state
<1>4. server' \in [Nodes -> ServerStates]
  BY <1>1, <1>3, StatementOutcome DEF TypeOK, ServersTypeOK
<1>5. ServersTypeOK'
  BY <1>1, <1>4 DEF TypeOK, ServersTypeOK
<1>6. PositionOK'
  BY <1>1, PositionType
<1>7. fenced' \subseteq Nodes
  BY <1>1 DEF TypeOK
<1> QED
  BY <1>1, <1>5, <1>6, <1>7, FrameType DEF TypeOK

LEMMA StatementStepType ==
  ASSUME TypeOK, NEW n \in Nodes, NEW s \in ServerStates, NEW last \in 3..4, NEW done \in BOOLEAN,
         step \in StepNames, Statement(n, s, last, done),
         done => \/ StepCompleted
                 \/ todo' \subseteq Nodes /\ stmt' \in 1..4 /\ UNCHANGED <<step, status>>
  PROVE  TypeOK'
<1>1. /\ Executed(n, s) \/ Errored(n, s)
      /\ (stmt < last /\ NextStatement) \/ done \/ StepFailed
      /\ UNCHANGED <<trx, crashes, view, plan, sample, endpoint, runs, fenced, verified>>
  BY Zenon DEF Statement
<1>2. server' \in [Nodes -> ServerStates]
  BY <1>1, StatementOutcome DEF TypeOK, ServersTypeOK
<1>3. ServersTypeOK'
  BY <1>1, <1>2 DEF TypeOK, ServersTypeOK
<1>4. stmt < last => stmt # 4
  BY DEF TypeOK
<1>5. PositionOK'
  BY <1>1, <1>4, PositionType
<1> QED
  BY <1>1, <1>3, <1>5, FrameType DEF TypeOK

LEMMA RepointReplicasType ==
  ASSUME TypeOK, RepointReplicas
  PROVE  TypeOK'
<1>1. PICK n \in todo : Statement(n, RepointStatement(stmt, server[n], cand), 3, NextNode(n))
  BY DEF RepointReplicas
<1>2. n \in Nodes /\ cand \in Nodes
  BY <1>1 DEF TypeOK, cand
<1>3. RepointStatement(stmt, server[n], cand) \in ServerStates
  BY <1>2, StatementType DEF TypeOK, ServersTypeOK
<1>4. NextNode(n) \in BOOLEAN
  BY DEF NextNode, StepCompleted
<1>5. NextNode(n) => \/ StepCompleted
                     \/ todo' \subseteq Nodes /\ stmt' \in 1..4 /\ UNCHANGED <<step, status>>
  BY DEF NextNode, TypeOK
<1>6. step \in StepNames
  BY DEF RepointReplicas, At, StepNames
<1> QED
  BY <1>1, <1>2, <1>3, <1>4, <1>5, <1>6, StatementStepType

LEMMA SampleType ==
  ASSUME TypeOK, SampleInv, CountActiveWrites \/ ReadGTIDExecuted \/ PollAgain
  PROVE  TypeOK'
<1> USE DEF TypeOK, ServersTypeOK, serverVars, At, StepNames
<1>1. CASE CountActiveWrites
  BY <1>1 DEF CountActiveWrites, ActiveWrites, NextStatement
<1>2. CASE ReadGTIDExecuted
  <2> DEFINE gtid == server[orig].executed
  <2>1. gtid \subseteq Trx
    BY DEF orig, ServerStates
  <2>2. sample.stable < StableSamples
    BY <1>2 DEF ReadGTIDExecuted, SampleInv
  <2>3. StableCount(gtid) \in 0..StableSamples
    BY <2>2, SwitchoverAssumption DEF StableCount
  <2>4. /\ sample' = [sample EXCEPT !.gtid = gtid, !.have = TRUE, !.stable = StableCount(gtid)]
        /\ stmt' = IF StableCount(gtid) >= StableSamples THEN 4 ELSE 3
        /\ UNCHANGED <<serverVars, step, todo, status, view, plan, endpoint, runs, fenced, verified>>
    BY <1>2, Zenon DEF ReadGTIDExecuted
  <2> HIDE DEF gtid
  <2>5. sample' \in [active : SUBSET Trx, gtid : SUBSET Trx, have : BOOLEAN, stable : 0..StableSamples]
    BY <2>1, <2>3, <2>4
  <2>6. stmt' \in 1..4
    BY <2>4
  <2> QED
    BY <2>4, <2>5, <2>6
<1>3. CASE PollAgain
  <2>1. trx' = [t \in Trx |-> IF trx[t].state = "leaving"
                              THEN [trx[t] EXCEPT !.age = @ + 1] ELSE trx[t]]
    BY <1>3 DEF PollAgain, Elapse
  <2>2. ASSUME NEW t \in Trx, trx[t].state = "leaving"
        PROVE  [trx[t] EXCEPT !.age = @ + 1] \in TrxStates
    <3>1. trx[t].age < PublishLag
      BY <1>3, <2>2 DEF PollAgain, Elapse
    <3>2. trx[t] \in TrxStates
      OBVIOUS
    <3>3. trx[t].age + 1 \in 0..PublishLag
      BY <3>1, <3>2, ServersAssumption DEF TrxStates
    <3> QED
      BY <3>2, <3>3 DEF TrxStates
  <2>3. trx' \in [Trx -> TrxStates]
    BY <2>1, <2>2
  <2> QED
    BY <1>3, <2>3 DEF PollAgain
<1> QED
  BY <1>1, <1>2, <1>3

LEMMA BuildPlanType ==
  ASSUME TypeOK, NEW o \in Nodes, NEW c \in Nodes, BuildPlan(o, c)
  PROVE  TypeOK'
<1>1. sample' \in [active : SUBSET Trx, gtid : SUBSET Trx, have : BOOLEAN, stable : 0..StableSamples]
  BY SwitchoverAssumption DEF BuildPlan, NoSample
<1>2. /\ plan' \in [OriginalPrimary : Nodes, Candidate : Nodes]
      /\ step' \in StepNames
  BY Zenon DEF BuildPlan, StepNames
<1>3. /\ stmt' = 1 /\ todo' = {} /\ status' = "running" /\ fenced' = {} /\ verified' = {}
      /\ view' = [n \in Nodes |-> Unseen]
      /\ UNCHANGED <<serverVars, endpoint, runs>>
  BY Zenon DEF BuildPlan
<1> QED
  BY <1>1, <1>2, <1>3 DEF TypeOK, ServersTypeOK, serverVars

LEMMA PlanningType ==
  ASSUME TypeOK, Run \/ Planning
  PROVE  TypeOK'
<1>1. CASE Run
  BY <1>1, SwitchoverAssumption DEF Run, TypeOK, ServersTypeOK, serverVars
<1>2. ASSUME NEW n \in Nodes, Inspect(n) PROVE TypeOK'
  <2>1. PICK seen : seen \in NodeStates /\ view' = [view EXCEPT ![n] = seen]
    <3>1. Inspections(n) \subseteq NodeStates
      BY InspectionType DEF TypeOK
    <3> QED
      BY <1>2, <3>1, Zenon DEF Inspect
  <2>2. view' \in [Nodes -> NodeStates \cup {Unseen}]
    BY <2>1 DEF TypeOK
  <2> QED
    BY <1>2, <2>2 DEF Inspect, TypeOK, ServersTypeOK, serverVars
<1>3. ASSUME NEW o \in Nodes, NEW c \in Nodes, BuildPlan(o, c) PROVE TypeOK'
  BY <1>3, BuildPlanType
<1>4. CASE PlanRefused
  BY <1>4 DEF PlanRefused, TypeOK, ServersTypeOK, serverVars
<1> QED
  BY <1>1, <1>2, <1>3, <1>4 DEF Planning

LEMMA VerifyType ==
  ASSUME TypeOK, VerifyCluster
  PROVE  TypeOK'
<1>1. step \in StepNames
  BY DEF VerifyCluster, At, StepNames
<1>2. /\ UNCHANGED <<serverVars, view, plan, sample, endpoint, runs, fenced>>
      /\ \/ verified' = verified
         \/ \E n \in Nodes : verified' = verified \cup {n}
      /\ \/ StepFailed
         \/ StepCompleted
         \/ stmt # 4 /\ NextStatement
         \/ todo' \subseteq Nodes /\ stmt' \in 1..4 /\ UNCHANGED <<step, status>>
  <2>1. CASE stmt = 1 /\ VerifyNode(cand, PromotedOK(server[cand]), NextStatement)
    <3>1. cand \in Nodes /\ stmt # 4
      BY <2>1 DEF TypeOK, cand
    <3> QED
      BY <2>1, <3>1, Zenon DEF VerifyNode
  <2>2. CASE /\ stmt = 2
             /\ VerifyNode(orig, DemotedOK(server[orig]),
                           IF todo = {} THEN StepCompleted ELSE NextStatement)
    <3>1. orig \in Nodes /\ stmt # 4
      BY <2>2 DEF TypeOK, orig
    <3> QED
      BY <2>2, <3>1, Zenon DEF VerifyNode
  <2>3. ASSUME NEW n \in todo,
               VerifyNode(n, Follows(n, cand),
                  IF todo = {n} THEN StepCompleted
                  ELSE todo' = todo \ {n} /\ UNCHANGED <<step, stmt, status>>)
        PROVE  <1>2
    BY <2>3 DEF VerifyNode, TypeOK
  <2> QED
    BY <2>1, <2>2, <2>3 DEF VerifyCluster
<1>3. PositionOK'
  BY <1>1, <1>2, PositionType
<1> QED
  BY <1>2, <1>3, FrameType DEF TypeOK, ServersTypeOK, serverVars

LEMMA ExecutionType ==
  ASSUME TypeOK, SampleInv, Execution
  PROVE  TypeOK'
<1> USE DEF At, StepNames
<1>1. CASE PrecheckWriterEndpoint
  <2>1. PositionOK'
    BY <1>1, PositionType DEF PrecheckWriterEndpoint
  <2> QED
    BY <1>1, <2>1, FrameType DEF PrecheckWriterEndpoint, TypeOK, ServersTypeOK, serverVars
<1>2. CASE LockCandidate
  BY <1>2, FenceType DEF LockCandidate, TypeOK, cand
<1>3. CASE LockOldPrimary
  BY <1>3, FenceType DEF LockOldPrimary, TypeOK, orig
<1>4. CASE CountActiveWrites \/ ReadGTIDExecuted \/ PollAgain
  BY <1>4, SampleType
<1>5. CASE WaitForExecutedGTIDSet \/ CatchUpTimeout
  <2>1. /\ UNCHANGED <<serverVars, view, plan, sample, endpoint, runs, fenced, verified>>
        /\ StepCompleted \/ StepFailed
        /\ step \in StepNames
    BY <1>5 DEF WaitForExecutedGTIDSet, CatchUpTimeout
  <2>2. PositionOK'
    BY <2>1, PositionType
  <2> QED
    BY <2>1, <2>2, FrameType DEF TypeOK, ServersTypeOK, serverVars
<1>6. CASE PromoteCandidate
  <2>1. cand \in Nodes
    BY DEF TypeOK, cand
  <2>2. PromoteStatement(stmt, server[cand]) \in ServerStates
    BY <2>1, StatementType DEF TypeOK, ServersTypeOK
  <2>3. StepCompleted \in BOOLEAN
    BY DEF StepCompleted
  <2> QED
    BY <1>6, <2>1, <2>2, <2>3, StatementStepType DEF PromoteCandidate
<1>7. CASE RepointReplicas
  BY <1>7, RepointReplicasType
<1>8. CASE RepointOldPrimary
  <2>1. orig \in Nodes /\ cand \in Nodes
    BY DEF TypeOK, orig, cand
  <2>2. RepointStatement(stmt, server[orig], cand) \in ServerStates
    BY <2>1, StatementType DEF TypeOK, ServersTypeOK
  <2>3. StepCompleted \in BOOLEAN
    BY DEF StepCompleted
  <2> QED
    BY <1>8, <2>1, <2>2, <2>3, StatementStepType DEF RepointOldPrimary
<1>9. CASE SwitchWriterEndpoint
  <2>1. PositionOK'
    BY <1>9, PositionType DEF SwitchWriterEndpoint
  <2>2. endpoint' \in Nodes
    BY <1>9 DEF SwitchWriterEndpoint, TypeOK, cand
  <2> QED
    BY <1>9, <2>1, <2>2, FrameType DEF SwitchWriterEndpoint, TypeOK, ServersTypeOK, serverVars
<1>10. CASE VerifyWriterEndpoint
  <2>1. PositionOK'
    BY <1>10, PositionType DEF VerifyWriterEndpoint
  <2> QED
    BY <1>10, <2>1, FrameType DEF VerifyWriterEndpoint, TypeOK, ServersTypeOK, serverVars
<1>11. CASE VerifyCluster
  BY <1>11, VerifyType
<1> QED
  BY <1>1, <1>2, <1>3, <1>4, <1>5, <1>6, <1>7, <1>8, <1>9, <1>10, <1>11 DEF Execution

LEMMA EnvironmentType ==
  ASSUME TypeOK, Environment
  PROVE  TypeOK'
<1>1. ServersTypeOK'
  BY ClientsType, ReplicationType, FaultsType DEF Environment, TypeOK
<1>2. CASE UNCHANGED executorVars
  BY <1>1, <1>2 DEF executorVars, TypeOK
<1>3. ASSUME NEW n \in Nodes, fenced' = fenced \ {n}, verified' = verified \ {n},
             UNCHANGED <<step, stmt, todo, view, plan, sample, endpoint, status, runs>>
      PROVE  TypeOK'
  BY <1>1, <1>3 DEF TypeOK
<1> QED
  BY <1>2, <1>3 DEF Environment

LEMMA TypeStep ==
  ASSUME TypeOK, SampleInv, [Next]_vars
  PROVE  TypeOK'
<1>1. CASE UNCHANGED vars
  BY <1>1 DEF vars, TypeOK, ServersTypeOK
<1> QED
  BY <1>1, PlanningType, ExecutionType, EnvironmentType DEF Next

-----------------------------------------------------------------------------
(* What a step of the execution may do to the plan, its position, the fence  *)
(* and the servers.  The invariants below follow from this and the three     *)
(* sampling actions.                                                         *)

Phase(s) == IF s \in BeforeCatchUp THEN 1 ELSE IF s = "wait-candidate-catchup" THEN 2 ELSE 3

FlowOK ==
  /\ step \in StepNames /\ step' \in StepNames
  /\ plan' = plan
  /\ Phase(step') = Phase(step) \/ (Phase(step') = 2 /\ Phase(step) = 1 /\ stmt' = 1)
                                \/ (Phase(step') = 3 /\ Phase(step) = 2)
  /\ \A n \in Nodes : server'[n].executed = server[n].executed /\ server'[n].up = server[n].up
  /\ Phase(step) # 1 => /\ fenced' = fenced
                        /\ server'[orig].readOnly = server[orig].readOnly
                        /\ server'[orig].superReadOnly = server[orig].superReadOnly
  /\ Phase(step) = 1 /\ Phase(step') # 1 => server'[orig].readOnly
  /\ \A n \in fenced' : n \in fenced \/ server[n].up
  /\ \A t \in Trx : trx'[t].node = trx[t].node /\ trx'[t].state = trx[t].state

LEMMA AfterFacts ==
  /\ After("precheck-writer-endpoint") = "lock-candidate"
  /\ After("lock-candidate") = "lock-old-primary"
  /\ After("lock-old-primary") = "wait-candidate-catchup"
  /\ After("wait-candidate-catchup") = "promote-candidate"
  /\ \A s \in AfterCatchUp : After(s) \in AfterCatchUp
<1>1. After("precheck-writer-endpoint") = "lock-candidate" /\ After("lock-candidate") = "lock-old-primary"
  BY DEF After
<1>2. After("lock-old-primary") = "wait-candidate-catchup"
  BY DEF After
<1>3. After("wait-candidate-catchup") = "promote-candidate"
  BY DEF After
<1>4. ASSUME NEW s \in AfterCatchUp PROVE After(s) \in AfterCatchUp
  <2>1. CASE s = "promote-candidate"
    <3>1. CASE Others = {}
      BY <2>1, <3>1, Zenon DEF After, AfterCatchUp
    <3>2. CASE Others # {}
      BY <2>1, <3>2, Zenon DEF After, AfterCatchUp
    <3> QED BY <3>1, <3>2
  <2>2. CASE s = "repoint-old-primary"
    BY <2>2, SwitchoverAssumption, Zenon DEF After, AfterCatchUp
  <2>3. CASE s \in {"repoint-replicas", "switch-writer-endpoint", "verify-writer-endpoint", "verify"}
    BY <2>3, Zenon DEF After, AfterCatchUp
  <2> QED
    BY <2>1, <2>2, <2>3 DEF AfterCatchUp
<1> QED
  BY <1>1, <1>2, <1>3, <1>4

(* Steps after the catch-up stay after the catch-up.                         *)
LEMMA LateFlow ==
  ASSUME step \in AfterCatchUp, StepCompleted \/ StepFailed \/ NextStatement \/ UNCHANGED step
  PROVE  /\ step' \in AfterCatchUp /\ step \in StepNames /\ step' \in StepNames
         /\ Phase(step) = 3 /\ Phase(step') = 3
<1>1. step' \in AfterCatchUp
  BY AfterFacts DEF StepCompleted, StepFailed, NextStatement
<1> QED
  BY <1>1 DEF AfterCatchUp, StepNames, Phase, BeforeCatchUp

(* A statement on the old primary that does not open it, or any statement on *)
(* another server, leaves the fence in place.                                *)
LEMMA LateStatementFlow ==
  ASSUME TypeOK, step \in AfterCatchUp, NEW n \in Nodes, NEW s \in ServerStates,
         NEW last, NEW done \in BOOLEAN, Statement(n, s, last, done),
         done => StepCompleted \/ UNCHANGED step,
         s.executed = server[n].executed, s.up = server[n].up,
         n = orig => s.readOnly = server[n].readOnly /\ s.superReadOnly = server[n].superReadOnly
  PROVE  FlowOK
<1>1. /\ Executed(n, s) \/ Errored(n, s)
      /\ NextStatement \/ done \/ StepFailed
      /\ UNCHANGED <<trx, crashes, view, plan, sample, endpoint, runs, fenced, verified>>
  BY Zenon DEF Statement
<1>2. /\ \A m \in Nodes \ {n} : server'[m] = server[m]
      /\ server'[n] = s \/ server'[n] = server[n]
  BY <1>1, StatementOutcome DEF TypeOK, ServersTypeOK
<1>3. /\ step \in StepNames /\ step' \in StepNames
      /\ Phase(step) = 3 /\ Phase(step') = 3
  BY <1>1, LateFlow
<1>4. orig \in Nodes
  BY DEF TypeOK, orig
<1>5. \A m \in Nodes : server'[m].executed = server[m].executed /\ server'[m].up = server[m].up
  BY <1>2
<1>6. /\ server'[orig].readOnly = server[orig].readOnly
      /\ server'[orig].superReadOnly = server[orig].superReadOnly
  BY <1>2, <1>4
<1> QED
  BY <1>1, <1>3, <1>5, <1>6 DEF FlowOK

(* StepCompleted moves to another step, unlike the other two outcomes.       *)
LEMMA StepCompletedMoves ==
  ASSUME step \in BeforeCatchUp \cup {"wait-candidate-catchup"}, StepCompleted
  PROVE  step' # step
BY AfterFacts DEF StepCompleted, BeforeCatchUp

LEMMA FenceFlow ==
  ASSUME TypeOK, PlanInv, LockCandidate \/ LockOldPrimary
  PROVE  FlowOK
<1>1. PICK n \in {cand, orig} : Fence(n) /\ (n = orig \/ step = "lock-candidate")
                                /\ (n = cand \/ step = "lock-old-primary")
  BY DEF LockCandidate, LockOldPrimary, At
<1> DEFINE super == stmt = 1 /\ n \in HasSuperReadOnly
           state == IF super THEN SuperReadOnlyOn(server[n]) ELSE ReadOnlyOn(server[n])
<1>2. /\ \/ Executed(n, state) /\ StepCompleted /\ fenced' = fenced \cup {n}
         \/ super /\ Errored(n, state) /\ NextStatement /\ UNCHANGED fenced
         \/ Errored(n, state) /\ StepFailed /\ UNCHANGED fenced
      /\ UNCHANGED <<trx, crashes, view, plan, sample, endpoint, runs, verified>>
  BY <1>1, Zenon DEF Fence
<1>3. n \in Nodes /\ server[n] \in ServerStates
  BY <1>1 DEF TypeOK, ServersTypeOK, orig, cand
<1>4. /\ state \in ServerStates
      /\ state.executed = server[n].executed /\ state.up = server[n].up /\ state.readOnly
  BY <1>3, StatementType, StatementFrame
<1> HIDE DEF state
<1>5. /\ \A m \in Nodes \ {n} : server'[m] = server[m]
      /\ (server'[n] = state /\ server[n].up) \/ server'[n] = server[n]
      /\ Executed(n, state) => server[n].up /\ server'[n] = state
  BY <1>2, <1>3, <1>4, StatementOutcome DEF TypeOK, ServersTypeOK, Executed
<1>6. \A m \in Nodes : server'[m].executed = server[m].executed /\ server'[m].up = server[m].up
  BY <1>4, <1>5
<1>7. step \in {"lock-candidate", "lock-old-primary"}
  BY DEF LockCandidate, LockOldPrimary, At
<1>8. CASE StepCompleted
  <2>1. /\ step' = After(step) /\ stmt' = 1 /\ UNCHANGED <<plan, trx>>
        /\ \A m \in fenced' : m \in fenced \/ server[m].up
        /\ server'[n].readOnly
    <3>1. ~NextStatement /\ ~StepFailed
      BY <1>7, <1>8, StepCompletedMoves DEF NextStatement, StepFailed, BeforeCatchUp
    <3>2. Executed(n, state) /\ fenced' = fenced \cup {n} /\ UNCHANGED <<plan, trx>>
      BY <1>2, <3>1
    <3>3. server[n].up /\ server'[n] = state
      BY <1>5, <3>2
    <3> QED
      BY <1>4, <1>8, <3>2, <3>3 DEF StepCompleted
  <2>2. CASE step = "lock-candidate"
    BY <1>6, <2>1, <2>2, AfterFacts DEF FlowOK, StepNames, Phase, BeforeCatchUp
  <2>3. CASE step = "lock-old-primary"
    <3>1. n = orig
      BY <1>1, <2>3
    <3> QED
      BY <1>6, <2>1, <2>3, <3>1, AfterFacts DEF FlowOK, StepNames, Phase, BeforeCatchUp
  <2> QED
    BY <1>7, <2>2, <2>3
<1>9. CASE NextStatement \/ StepFailed
  <2>1. step' = step
    BY <1>9 DEF NextStatement, StepFailed
  <2>2. ~StepCompleted
    BY <1>7, <2>1, StepCompletedMoves DEF BeforeCatchUp
  <2>3. UNCHANGED <<fenced, plan, trx>>
    BY <1>2, <2>2
  <2> QED
    BY <1>6, <1>7, <2>1, <2>3 DEF FlowOK, StepNames, Phase, BeforeCatchUp
<1> QED
  BY <1>2, <1>8, <1>9

LEMMA ExecutionFlow ==
  ASSUME TypeOK, PlanInv, Execution
  PROVE  FlowOK
<1> USE DEF At
<1>1. orig \in Nodes /\ cand \in Nodes
  BY DEF TypeOK, orig, cand
<1>2. CASE PrecheckWriterEndpoint
  <2>1. /\ UNCHANGED <<server, trx, plan, fenced>>
        /\ step = "precheck-writer-endpoint"
        /\ step' \in {"precheck-writer-endpoint", "lock-candidate"}
    BY <1>2, AfterFacts DEF PrecheckWriterEndpoint, StepCompleted, StepFailed, serverVars
  <2> QED
    BY <2>1 DEF FlowOK, StepNames, Phase, BeforeCatchUp
<1>3. CASE LockCandidate \/ LockOldPrimary
  BY <1>3, FenceFlow
<1>4. CASE CountActiveWrites \/ ReadGTIDExecuted
  <2>1. UNCHANGED <<server, trx, plan, fenced, step>> /\ step = "wait-candidate-catchup"
    BY <1>4 DEF CountActiveWrites, ReadGTIDExecuted, NextStatement, serverVars
  <2> QED
    BY <2>1 DEF FlowOK, StepNames, Phase, BeforeCatchUp
<1>5. CASE PollAgain
  <2>1. UNCHANGED <<server, plan, fenced, step>> /\ step = "wait-candidate-catchup"
    BY <1>5 DEF PollAgain
  <2>2. \A t \in Trx : trx'[t].node = trx[t].node /\ trx'[t].state = trx[t].state
    BY <1>5 DEF PollAgain, Elapse, TypeOK, ServersTypeOK, TrxStates
  <2> QED
    BY <2>1, <2>2 DEF FlowOK, StepNames, Phase, BeforeCatchUp
<1>6. CASE WaitForExecutedGTIDSet \/ CatchUpTimeout
  <2>1. /\ UNCHANGED <<server, trx, plan, fenced>>
        /\ step = "wait-candidate-catchup"
        /\ step' \in {"wait-candidate-catchup", "promote-candidate"}
    BY <1>6, AfterFacts DEF WaitForExecutedGTIDSet, CatchUpTimeout, StepCompleted, StepFailed,
                            serverVars
  <2> QED
    BY <2>1 DEF FlowOK, StepNames, Phase, BeforeCatchUp
<1>7. CASE PromoteCandidate
  <2> DEFINE s == PromoteStatement(stmt, server[cand])
  <2>1. server[cand] \in ServerStates
    BY <1>1 DEF TypeOK, ServersTypeOK
  <2>2. s \in ServerStates /\ s.executed = server[cand].executed /\ s.up = server[cand].up
    BY <1>1, <2>1, StatementType, StatementFrame
  <2>3. step \in AfterCatchUp /\ step # "none"
    BY <1>7 DEF PromoteCandidate, AfterCatchUp
  <2>4. cand # orig
    BY <2>3 DEF PlanInv
  <2>5. Statement(cand, s, 4, StepCompleted) /\ StepCompleted \in BOOLEAN
    BY <1>7 DEF PromoteCandidate, StepCompleted
  <2> HIDE DEF s
  <2> QED
    BY <1>1, <2>2, <2>3, <2>4, <2>5, LateStatementFlow
<1>8. ASSUME NEW n \in Nodes, NEW done \in BOOLEAN, step \in AfterCatchUp,
             Statement(n, RepointStatement(stmt, server[n], cand), 3, done),
             done => StepCompleted \/ UNCHANGED step
      PROVE  FlowOK
  <2> DEFINE s == RepointStatement(stmt, server[n], cand)
  <2>1. server[n] \in ServerStates
    BY DEF TypeOK, ServersTypeOK
  <2>2. /\ s \in ServerStates /\ s.executed = server[n].executed /\ s.up = server[n].up
        /\ s.readOnly = server[n].readOnly /\ s.superReadOnly = server[n].superReadOnly
    BY <1>1, <2>1, StatementType, StatementFrame
  <2>3. Statement(n, s, 3, done)
    BY <1>8
  <2> HIDE DEF s
  <2> QED
    BY <1>8, <2>2, <2>3, LateStatementFlow
<1>9. CASE RepointReplicas
  <2>1. PICK n \in todo : Statement(n, RepointStatement(stmt, server[n], cand), 3, NextNode(n))
    BY <1>9 DEF RepointReplicas
  <2>2. /\ n \in Nodes /\ NextNode(n) \in BOOLEAN
        /\ NextNode(n) => StepCompleted \/ UNCHANGED step
    BY DEF TypeOK, NextNode, StepCompleted
  <2>3. step \in AfterCatchUp
    BY <1>9 DEF RepointReplicas, AfterCatchUp
  <2> QED
    BY <1>8, <2>1, <2>2, <2>3
<1>10. CASE RepointOldPrimary
  <2>1. step \in AfterCatchUp /\ StepCompleted \in BOOLEAN
    BY <1>10 DEF RepointOldPrimary, AfterCatchUp, StepCompleted
  <2> QED
    BY <1>1, <1>8, <1>10, <2>1 DEF RepointOldPrimary
<1>11. CASE SwitchWriterEndpoint \/ VerifyWriterEndpoint \/ VerifyCluster
  <2>1. /\ UNCHANGED <<server, trx, plan, fenced>>
        /\ step \in AfterCatchUp
        /\ StepCompleted \/ StepFailed \/ NextStatement \/ UNCHANGED step
    <3>1. CASE SwitchWriterEndpoint \/ VerifyWriterEndpoint
      BY <3>1 DEF SwitchWriterEndpoint, VerifyWriterEndpoint, AfterCatchUp, serverVars
    <3>2. CASE VerifyCluster
      BY <3>2, Zenon DEF VerifyCluster, VerifyNode, AfterCatchUp, serverVars
    <3> QED
      BY <1>11, <3>1, <3>2
  <2>2. /\ step \in StepNames /\ step' \in StepNames
        /\ Phase(step) = 3 /\ Phase(step') = 3
    BY <2>1, LateFlow
  <2> QED
    BY <2>1, <2>2 DEF FlowOK
<1> QED
  BY <1>2, <1>3, <1>4, <1>5, <1>6, <1>7, <1>9, <1>10, <1>11 DEF Execution

-----------------------------------------------------------------------------
(* The parts of IInv, one kind of step after the other. *)

Rest == PlanInv /\ FenceInv /\ PublishedInv /\ SampleInv /\ DrainInv /\ NoLostWrite

(* A selected candidate is never the primary it is to replace.               *)
LEMMA CandidateDiffers ==
  ASSUME NEW o \in Nodes, NEW c \in Nodes, IsCandidate(view, o, c)
  PROVE  o # c
<1>1. CASE IsDefaultCandidate(view, o, c)
  <2>1. RoleOf(view, o, c) = "replica"
    BY <1>1 DEF IsDefaultCandidate, Eligible
  <2>2. o = c => RoleOf(view, o, c) = "primary"
    BY Zenon DEF RoleOf
  <2> QED
    BY <2>1, <2>2
<1>2. CASE IsPinnedCandidate(view, o, c)
  BY <1>2 DEF IsPinnedCandidate
<1> QED
  BY <1>1, <1>2 DEF IsCandidate

LEMMA PlanningRest ==
  ASSUME Rest, Run \/ Planning
  PROVE  Rest'
<1>1. CASE Run \/ PlanRefused \/ \E n \in Nodes : Inspect(n)
  <2>1. UNCHANGED <<server, trx, step, stmt, plan, sample, fenced>>
    BY <1>1 DEF Run, PlanRefused, Inspect, serverVars
  <2> QED
    BY <2>1 DEF Rest, PlanInv, FenceInv, FenceHolds, PublishedInv, SampleInv, DrainInv, Drained,
                NoLostWrite, Excluded, Accepts, orig, cand
<1>2. ASSUME NEW o \in Nodes, NEW c \in Nodes, BuildPlan(o, c) PROVE Rest'
  <2>1. /\ UNCHANGED <<server, trx>>
        /\ step' \in BeforeCatchUp
        /\ fenced' = {}
        /\ plan' = [OriginalPrimary |-> o, Candidate |-> c]
        /\ sample'.stable = 0
        /\ IsCandidate(view, o, c)
    BY <1>2 DEF BuildPlan, CanPlan, BeforeCatchUp, serverVars, NoSample
  <2>2. PlanInv'
    BY <2>1, CandidateDiffers DEF PlanInv, orig, cand
  <2>3. FenceInv' /\ PublishedInv'
    BY <2>1 DEF FenceInv, FenceHolds, Rest, PublishedInv
  <2>4. SampleInv' /\ DrainInv' /\ NoLostWrite'
    BY <2>1 DEF SampleInv, DrainInv, NoLostWrite, AfterCatchUp, BeforeCatchUp
  <2> QED
    BY <2>2, <2>3, <2>4 DEF Rest
<1> QED
  BY <1>1, <1>2 DEF Planning

(* What every step of the execution preserves, by its flow alone.            *)
LEMMA FlowRest ==
  ASSUME TypeOK, TypeOK', Rest, FlowOK
  PROVE  PlanInv' /\ FenceInv' /\ PublishedInv'
<1>1. PlanInv'
  BY DEF Rest, PlanInv, FlowOK, StepNames, orig, cand
<1>2. FenceInv'
  <2>1. \A n \in fenced' : server'[n].up
    BY DEF FlowOK, Rest, FenceInv, TypeOK
  <2>2. ASSUME FenceHolds' PROVE server'[orig].readOnly
    BY <2>2 DEF FlowOK, Rest, FenceInv, FenceHolds, Phase, StepNames, BeforeCatchUp, orig
  <2> QED
    BY <2>1, <2>2 DEF FenceInv, FlowOK, orig
<1>3. PublishedInv'
  BY DEF FlowOK, Rest, PublishedInv, TypeOK, ServersTypeOK, TrxStates
<1> QED
  BY <1>1, <1>2, <1>3

(* Up to the lock of the old primary.                                        *)
LEMMA EarlyRest ==
  ASSUME TypeOK, Rest, PrecheckWriterEndpoint \/ LockCandidate \/ LockOldPrimary, FlowOK
  PROVE  SampleInv' /\ DrainInv' /\ NoLostWrite'
<1>1. /\ UNCHANGED <<sample, trx>> /\ step \in BeforeCatchUp
  <2>1. ASSUME NEW n, Fence(n) PROVE UNCHANGED <<sample, trx>>
    BY <2>1, Zenon DEF Fence
  <2> QED
    BY <2>1 DEF PrecheckWriterEndpoint, LockCandidate, LockOldPrimary, At, BeforeCatchUp, serverVars
<1>2. sample.stable = 0
  BY <1>1 DEF Rest, SampleInv
<1>3. step' \in BeforeCatchUp \/ (step' = "wait-candidate-catchup" /\ stmt' = 1)
  BY <1>1 DEF FlowOK, Phase, BeforeCatchUp
<1>4. SampleInv'
  BY <1>1, <1>2, <1>3, SwitchoverAssumption DEF SampleInv, BeforeCatchUp
<1>5. DrainInv'
  <2>1. SUFFICES ASSUME step' = "wait-candidate-catchup", NEW t \in Trx
                 PROVE  /\ ~((stmt' = 2 /\ sample'.active = {}) \/ sample'.stable > 0)
                        /\ trx'[t].age >= sample'.stable
                        /\ stmt' = 1
    BY DEF DrainInv, Drained
  <2>2. trx[t].age \in Nat
    BY ServersAssumption DEF TypeOK, ServersTypeOK, TrxStates
  <2> QED
    BY <1>1, <1>2, <1>3, <2>1, <2>2 DEF BeforeCatchUp
<1>6. NoLostWrite'
  BY <1>3 DEF NoLostWrite, AfterCatchUp, BeforeCatchUp
<1> QED
  BY <1>4, <1>5, <1>6

(* From the promotion on.                                                    *)
LEMMA LateRest ==
  ASSUME TypeOK, Rest, step \in AfterCatchUp, FlowOK
  PROVE  SampleInv' /\ DrainInv' /\ NoLostWrite'
<1>1. step' \in AfterCatchUp /\ Phase(step) # 1 /\ orig' = orig /\ cand' = cand
  BY DEF FlowOK, AfterCatchUp, Phase, BeforeCatchUp, StepNames, orig, cand
<1>2. SampleInv' /\ DrainInv'
  BY <1>1 DEF SampleInv, DrainInv, AfterCatchUp, BeforeCatchUp
<1>3. NoLostWrite'
  <2>1. orig \in Nodes /\ cand \in Nodes
    BY DEF TypeOK, orig, cand
  <2>2. /\ fenced' = fenced
        /\ server'[orig].readOnly = server[orig].readOnly
        /\ server'[orig].superReadOnly = server[orig].superReadOnly
        /\ server'[cand].executed = server[cand].executed
        /\ \A t \in Trx : trx'[t].node = trx[t].node /\ trx'[t].state = trx[t].state
    BY <1>1, <2>1 DEF FlowOK
  <2> QED
    BY <1>1, <2>2 DEF Rest, NoLostWrite, Accepts
<1> QED
  BY <1>2, <1>3

(* A COMMIT in progress when sampling ends would have outlived PublishLag.    *)
LEMMA NoneLeaving ==
  ASSUME TypeOK, Rest, step = "wait-candidate-catchup", stmt = 4, FenceHolds,
         NEW t \in Trx, Excluded(t)
  PROVE  trx[t].state \in {"idle", "committed"} /\ (trx[t].state = "committed" => t \in sample.gtid)
<1>1. sample.stable = StableSamples
  BY DEF Rest, SampleInv
<1>2. Drained(t)
  BY DEF Rest, DrainInv
<1>3. trx[t].age \in 0..PublishLag /\ trx[t].state \in {"idle", "active", "leaving", "committed"}
  BY DEF TypeOK, ServersTypeOK, TrxStates
<1>4. trx[t].state # "active"
  BY <1>1, <1>2, SwitchoverAssumption DEF Drained
<1>5. trx[t].state # "leaving"
  BY <1>1, <1>2, <1>3, SwitchoverAssumption, ServersAssumption DEF Drained
<1> QED
  BY <1>2, <1>3, <1>4, <1>5 DEF Drained

LEMMA SamplingRest ==
  ASSUME TypeOK, Rest, CountActiveWrites \/ ReadGTIDExecuted \/ PollAgain
  PROVE  SampleInv' /\ DrainInv' /\ NoLostWrite'
<1>1. /\ step = "wait-candidate-catchup" /\ step' = step
      /\ UNCHANGED <<server, plan, fenced>>
  BY DEF CountActiveWrites, ReadGTIDExecuted, PollAgain, At, NextStatement, serverVars
<1>2. NoLostWrite'
  BY <1>1 DEF NoLostWrite, AfterCatchUp
<1>3. /\ sample.stable \in Nat /\ orig \in Nodes
      /\ \A t \in Trx : trx[t].age \in Nat
    BY SwitchoverAssumption, ServersAssumption DEF TypeOK, ServersTypeOK, TrxStates, orig
<1>4. orig' = orig /\ FenceHolds' = FenceHolds
  BY <1>1 DEF orig, FenceHolds
<1>5. CASE CountActiveWrites
  <2>1. /\ stmt = 1 /\ stmt' = 2 /\ UNCHANGED trx
        /\ sample' = [sample EXCEPT !.active = ActiveWrites(orig)]
    BY <1>5 DEF CountActiveWrites, NextStatement, serverVars
  <2>2. sample'.active = ActiveWrites(orig) /\ sample'.stable = sample.stable
    BY <2>1 DEF TypeOK
  <2>3. SampleInv'
    BY <1>1, <2>1, <2>2 DEF Rest, SampleInv, BeforeCatchUp
  <2>4. ASSUME FenceHolds, NEW t \in Trx, Excluded(t)' PROVE Drained(t)'
    <3>1. Excluded(t)
      BY <1>1, <1>4, <2>1, <2>4 DEF Excluded, Accepts
    <3>2. Drained(t)
      BY <1>1, <2>4, <3>1 DEF Rest, DrainInv
    <3>3. sample'.active = {} => trx[t].state # "active"
      BY <2>2, <3>1 DEF ActiveWrites, Excluded
    <3> QED
      BY <2>1, <2>2, <3>2, <3>3 DEF Drained
  <2> QED
    BY <1>2, <1>4, <2>3, <2>4 DEF DrainInv
<1>6. CASE ReadGTIDExecuted
  <2> DEFINE gtid == server[orig].executed
  <2>1. /\ stmt = 2 /\ UNCHANGED trx
        /\ sample' = [sample EXCEPT !.gtid = gtid, !.have = TRUE, !.stable = StableCount(gtid)]
        /\ stmt' = IF StableCount(gtid) >= StableSamples THEN 4 ELSE 3
    BY <1>6, Zenon DEF ReadGTIDExecuted, serverVars
  <2> HIDE DEF gtid
  <2>2. sample'.gtid = gtid /\ sample'.stable = StableCount(gtid)
    BY <2>1 DEF TypeOK
  <2>3. /\ StableCount(gtid) \in Nat /\ StableCount(gtid) <= sample.stable + 1
        /\ sample.active # {} => StableCount(gtid) = 0
    BY <1>3 DEF StableCount
  <2>4. sample.stable < StableSamples
    BY <1>1, <2>1 DEF Rest, SampleInv
  <2>5. SampleInv'
    BY <1>1, <1>3, <2>1, <2>2, <2>3, <2>4, SwitchoverAssumption DEF SampleInv, BeforeCatchUp
  <2>6. ASSUME FenceHolds, NEW t \in Trx, Excluded(t)' PROVE Drained(t)'
    <3>1. Excluded(t)
      BY <1>1, <1>4, <2>1, <2>6 DEF Excluded, Accepts
    <3>2. Drained(t)
      BY <1>1, <2>6, <3>1 DEF Rest, DrainInv
    <3>3. sample'.stable > 0 => trx'[t].state # "active"
      BY <2>1, <2>2, <2>3, <3>2 DEF Drained
    <3>4. trx[t].state = "leaving" => trx[t].age + 1 >= sample'.stable
      BY <1>3, <2>1, <2>2, <2>3, <3>2 DEF Drained
    <3>5. trx[t].state = "committed" => t \in sample'.gtid
      BY <2>2, <3>1 DEF Rest, PublishedInv, Excluded, gtid
    <3>6. stmt' \notin {1, 2}
      BY <2>1
    <3> QED
      BY <2>1, <3>3, <3>4, <3>5, <3>6 DEF Drained
  <2> QED
    BY <1>2, <1>4, <2>5, <2>6 DEF DrainInv
<1>7. CASE PollAgain
  <2>1. stmt = 3 /\ stmt' = 1 /\ UNCHANGED sample
    BY <1>7 DEF PollAgain
  <2>2. \A t \in Trx : /\ trx'[t].node = trx[t].node /\ trx'[t].state = trx[t].state
                       /\ trx[t].state = "leaving" => trx'[t].age = trx[t].age + 1
    BY <1>7 DEF PollAgain, Elapse, TypeOK, ServersTypeOK, TrxStates
  <2>3. SampleInv'
    BY <1>1, <2>1 DEF Rest, SampleInv, BeforeCatchUp
  <2>4. ASSUME FenceHolds, NEW t \in Trx, Excluded(t)' PROVE Drained(t)'
    <3>1. Excluded(t)
      BY <1>1, <1>4, <2>2, <2>4 DEF Excluded, Accepts
    <3>2. Drained(t)
      BY <1>1, <2>4, <3>1 DEF Rest, DrainInv
    <3> QED
      BY <2>1, <2>2, <3>2 DEF Drained
  <2> QED
    BY <1>2, <1>4, <2>3, <2>4 DEF DrainInv
<1> QED
  BY <1>5, <1>6, <1>7

(* The end of the catch-up: the candidate has the whole sampled set.          *)
LEMMA CaughtUpRest ==
  ASSUME TypeOK, Rest, WaitForExecutedGTIDSet \/ CatchUpTimeout
  PROVE  SampleInv' /\ DrainInv' /\ NoLostWrite'
<1>1. /\ step = "wait-candidate-catchup"
      /\ UNCHANGED <<server, trx, plan, sample, fenced>>
  BY DEF WaitForExecutedGTIDSet, CatchUpTimeout, At, serverVars
<1>2. CASE WaitForExecutedGTIDSet
  <2>1. /\ stmt = 4 /\ step' = "promote-candidate"
        /\ sample.gtid \subseteq server[cand].executed
    BY <1>1, <1>2, AfterFacts DEF WaitForExecutedGTIDSet, StepCompleted
  <2>2. SampleInv' /\ DrainInv'
    BY <2>1 DEF SampleInv, DrainInv, BeforeCatchUp
  <2>3. ASSUME orig \in fenced, NEW t \in Trx, Excluded(t)
        PROVE  trx[t].state = "idle" \/ (trx[t].state = "committed" /\ t \in server[cand].executed)
    <3>1. FenceHolds
      BY <1>1, <2>3 DEF FenceHolds, BeforeCatchUp
    <3> QED
      BY <1>1, <2>1, <2>3, <3>1, NoneLeaving
  <2>4. NoLostWrite'
    BY <1>1, <2>3 DEF NoLostWrite, Excluded, Accepts, orig, cand
  <2> QED
    BY <2>2, <2>4
<1>3. CASE CatchUpTimeout
  <2>1. UNCHANGED <<step, stmt>>
    BY <1>3 DEF CatchUpTimeout, StepFailed
  <2> QED
    BY <1>1, <2>1 DEF Rest, SampleInv, DrainInv, Drained, FenceHolds, NoLostWrite, Excluded,
                      Accepts, orig, cand
<1> QED
  BY <1>2, <1>3

LEMMA ExecutionRest ==
  ASSUME TypeOK, TypeOK', Rest, Execution
  PROVE  Rest'
<1>1. FlowOK
  BY ExecutionFlow DEF Rest
<1>2. PlanInv' /\ FenceInv' /\ PublishedInv'
  BY <1>1, FlowRest
<1>3. CASE step \in AfterCatchUp
  BY <1>1, <1>2, <1>3, LateRest DEF Rest
<1>4. CASE step \notin AfterCatchUp
  <2>1. \/ PrecheckWriterEndpoint \/ LockCandidate \/ LockOldPrimary
        \/ CountActiveWrites \/ ReadGTIDExecuted \/ PollAgain
        \/ WaitForExecutedGTIDSet \/ CatchUpTimeout
    BY <1>4 DEF Execution, AfterCatchUp, At, PromoteCandidate, RepointReplicas, RepointOldPrimary,
                SwitchWriterEndpoint, VerifyWriterEndpoint, VerifyCluster
  <2> QED
    BY <1>1, <1>2, <2>1, EarlyRest, SamplingRest, CaughtUpRest DEF Rest
<1> QED
  BY <1>3, <1>4

-----------------------------------------------------------------------------
(* The environment: clients, replication, crashes and restarts.              *)

(* What may become of transaction t.                                         *)
TrxMove(t) ==
  \/ trx'[t] = trx[t]
  \/ trx'[t].state = "active" /\ Accepts(trx'[t].node, t)
  \/ trx'[t].state = "idle"
  \/ /\ trx'[t].node = trx[t].node /\ trx'[t].age = trx[t].age
     /\ \/ trx[t].state = "active" /\ trx'[t].state = "leaving"
        \/ /\ trx[t].state = "leaving" /\ trx'[t].state = "committed"
           /\ t \in server'[trx[t].node].executed

EnvOK ==
  /\ UNCHANGED <<step, stmt, plan, sample>>
  /\ \A n \in Nodes : server[n].executed \subseteq server'[n].executed
  /\ \A n \in fenced' : /\ n \in fenced
                        /\ server'[n].up
                        /\ server'[n].readOnly = server[n].readOnly
                        /\ server'[n].superReadOnly = server[n].superReadOnly
  /\ \A t \in Trx : TrxMove(t)

LEMMA EnvironmentFlow ==
  ASSUME TypeOK, FenceInv, Environment
  PROVE  EnvOK
<1> USE DEF TypeOK, ServersTypeOK
<1>1. CASE (Clients \/ Replication) /\ UNCHANGED executorVars
  <2>1. UNCHANGED <<step, stmt, plan, sample, fenced>>
    BY <1>1 DEF executorVars
  <2>2. \A n \in Nodes : /\ server'[n].up = server[n].up
                         /\ server'[n].readOnly = server[n].readOnly
                         /\ server'[n].superReadOnly = server[n].superReadOnly
                         /\ server[n].executed \subseteq server'[n].executed
    BY <1>1, TrafficFrame DEF Alike
  <2>3. ASSUME NEW t \in Trx, Rollback(t) \/ Commit(t) PROVE EnvOK
    <3>1. UNCHANGED server
      BY <2>3 DEF Rollback, Commit
    <3>2. \A u \in Trx : TrxMove(u)
      BY <2>3 DEF Rollback, Commit, TrxMove, TrxStates
    <3> QED
      BY <2>1, <3>1, <3>2 DEF EnvOK, FenceInv
  <2>4. ASSUME NEW t \in Trx, NEW n \in Nodes, Begin(t, n) PROVE EnvOK
    <3>1. UNCHANGED server
      BY <2>4 DEF Begin
    <3>2. \A u \in Trx : TrxMove(u)
      BY <2>4 DEF Begin, TrxMove
    <3> QED
      BY <2>1, <3>1, <3>2 DEF EnvOK, FenceInv
  <2>5. ASSUME NEW t \in Trx, Publish(t) PROVE EnvOK
    <3>1. trx[t].node \in Nodes
      BY DEF TrxStates
    <3>2. t \in server'[trx[t].node].executed
      BY <2>5, <3>1 DEF Publish, ServerStates
    <3>3. \A u \in Trx : TrxMove(u)
      BY <2>5, <3>2 DEF Publish, TrxMove, TrxStates
    <3> QED
      BY <2>1, <2>2, <3>3 DEF EnvOK, FenceInv
  <2>6. ASSUME NEW n \in Nodes, NEW t \in Trx, Fetch(n, t) \/ Apply(n, t) PROVE EnvOK
    <3>1. UNCHANGED trx
      BY <2>6 DEF Fetch, Apply
    <3> QED
      BY <2>1, <2>2, <3>1 DEF EnvOK, FenceInv, TrxMove
  <2> QED
    BY <1>1, <2>3, <2>4, <2>5, <2>6 DEF Clients, Replication
<1>2. ASSUME NEW n \in Nodes, Recover(n), UNCHANGED executorVars PROVE EnvOK
  <2>1. UNCHANGED <<step, stmt, plan, sample, fenced, trx>> /\ n \notin fenced
    BY <1>2 DEF executorVars, Recover, FenceInv
  <2>2. /\ \A m \in Nodes \ {n} : server'[m] = server[m]
        /\ server[n].executed \subseteq server'[n].executed
    BY <1>2, RecoverFrame
  <2> QED
    BY <2>1, <2>2 DEF EnvOK, FenceInv, TrxMove
<1>3. ASSUME NEW n \in Nodes, Crash(n), fenced' = fenced \ {n},
             UNCHANGED <<step, stmt, plan, sample>>
      PROVE  EnvOK
  <2>1. PICK kept \in SUBSET {t \in Trx : trx[t].node = n /\ trx[t].state = "leaving"} :
          /\ server' = [server EXCEPT ![n] = Crashed(@, kept)]
          /\ trx' = [t \in Trx |->
               IF trx[t].node # n \/ trx[t].state \in {"idle", "committed"} THEN trx[t]
               ELSE [trx[t] EXCEPT !.state = IF t \in kept THEN "committed" ELSE "idle"]]
    BY <1>3 DEF Crash, GoDown
  <2>2. /\ \A m \in Nodes \ {n} : server'[m] = server[m]
        /\ server'[n].executed = server[n].executed \cup kept
    BY <2>1, EventFrame
  <2>3. \A t \in Trx : TrxMove(t)
    <3>1. ASSUME NEW t \in Trx, trx'[t] # trx[t] PROVE TrxMove(t)
      <4>1. trx[t].node = n /\ trx'[t] = [trx[t] EXCEPT !.state = IF t \in kept THEN "committed" ELSE "idle"]
        BY <2>1, <3>1
      <4>2. CASE t \in kept
        BY <2>2, <4>1, <4>2 DEF TrxMove, TrxStates
      <4>3. CASE t \notin kept
        BY <4>1, <4>3 DEF TrxMove, TrxStates
      <4> QED
        BY <4>2, <4>3
    <3> QED
      BY <3>1 DEF TrxMove
  <2> QED
    BY <1>3, <2>2, <2>3 DEF EnvOK, FenceInv
<1> QED
  BY <1>1, <1>2, <1>3 DEF Environment

LEMMA EnvironmentRest ==
  ASSUME TypeOK, TypeOK', Rest, EnvOK
  PROVE  Rest'
<1>1. /\ orig \in Nodes /\ cand \in Nodes
      /\ orig' = orig /\ cand' = cand /\ UNCHANGED <<step, stmt, sample>>
  BY DEF EnvOK, TypeOK, orig, cand
<1>2. /\ orig \in fenced' => /\ orig \in fenced
                             /\ \A t \in Trx : Accepts(orig, t)' = Accepts(orig, t)
      /\ FenceHolds' => FenceHolds
  BY <1>1 DEF EnvOK, Accepts, FenceHolds
<1>3. PlanInv' /\ SampleInv'
  BY <1>1 DEF Rest, PlanInv, SampleInv
<1>4. FenceInv'
  BY <1>1, <1>2 DEF Rest, FenceInv, EnvOK, FenceHolds
<1>5. PublishedInv'
  <2>1. ASSUME NEW t \in Trx, trx'[t].state = "committed" PROVE t \in server'[trx'[t].node].executed
    <3>1. trx[t].node \in Nodes
      BY DEF TypeOK, ServersTypeOK, TrxStates
    <3>2. TrxMove(t) /\ server[trx[t].node].executed \subseteq server'[trx[t].node].executed
      BY <3>1 DEF EnvOK
    <3> QED
      BY <2>1, <3>2 DEF Rest, PublishedInv, TrxMove
  <2> QED
    BY <2>1 DEF PublishedInv
(* A transaction excluded now was excluded before, unless it has just begun.  *)
<1>6. ASSUME orig \in fenced', NEW t \in Trx, Excluded(t)'
      PROVE  \/ trx'[t].state = "idle"
             \/ Excluded(t) /\ trx'[t] = trx[t]
             \/ /\ Excluded(t) /\ trx'[t].age = trx[t].age
                /\ \/ trx[t].state = "active" /\ trx'[t].state = "leaving"
                   \/ trx[t].state = "leaving" /\ trx'[t].state = "committed"
  <2>1. TrxMove(t) /\ ~Accepts(orig, t)
    BY <1>1, <1>2, <1>6 DEF EnvOK, Excluded
  <2> QED
    BY <1>1, <1>6, <2>1 DEF TrxMove, Excluded
<1>7. DrainInv'
  <2>1. SUFFICES ASSUME step = "wait-candidate-catchup", FenceHolds', NEW t \in Trx, Excluded(t)'
                 PROVE  Drained(t)'
    BY <1>1 DEF DrainInv
  <2>2. orig \in fenced' /\ FenceHolds
    BY <1>1, <1>2, <2>1 DEF FenceHolds
  <2>3. CASE trx'[t].state = "idle"
    BY <2>3 DEF Drained
  <2>4. CASE Excluded(t) /\ trx'[t] = trx[t]
    BY <1>1, <2>1, <2>2, <2>4 DEF Rest, DrainInv, Drained
  <2>5. CASE Excluded(t) /\ trx'[t].age = trx[t].age
             /\ trx[t].state = "active" /\ trx'[t].state = "leaving"
    <3>1. Drained(t)
      BY <2>1, <2>2, <2>5 DEF Rest, DrainInv
    <3>2. sample.stable = 0 /\ trx[t].age \in Nat
      BY <2>5, <3>1, SwitchoverAssumption, ServersAssumption
         DEF Drained, TypeOK, ServersTypeOK, TrxStates
    <3> QED
      BY <1>1, <2>5, <3>2 DEF Drained
  <2>6. CASE Excluded(t) /\ trx'[t].age = trx[t].age
             /\ trx[t].state = "leaving" /\ trx'[t].state = "committed"
    <3>1. stmt # 4
      BY <2>1, <2>2, <2>6, NoneLeaving
    <3> QED
      BY <1>1, <2>6, <3>1 DEF Drained
  <2> QED
    BY <1>6, <2>1, <2>2, <2>3, <2>4, <2>5, <2>6
<1>8. NoLostWrite'
  <2>1. SUFFICES ASSUME step \in AfterCatchUp, orig \in fenced', NEW t \in Trx, Excluded(t)'
                 PROVE  \/ trx'[t].state = "idle"
                        \/ trx'[t].state = "committed" /\ t \in server'[cand].executed
    BY <1>1 DEF NoLostWrite, Excluded
  <2>2. Excluded(t) => \/ trx[t].state = "idle"
                       \/ trx[t].state = "committed" /\ t \in server[cand].executed
    BY <1>2, <2>1 DEF Rest, NoLostWrite, Excluded
  <2>3. server[cand].executed \subseteq server'[cand].executed
    BY <1>1 DEF EnvOK
  <2> QED
    BY <1>6, <2>1, <2>2, <2>3
<1> QED
  BY <1>3, <1>4, <1>5, <1>7, <1>8 DEF Rest

-----------------------------------------------------------------------------
(* Verification. *)

LEMMA StatementMoves ==
  ASSUME NEW n, NEW s, NEW last, NEW done \in BOOLEAN, Statement(n, s, last, done),
         done => StepCompleted \/ UNCHANGED step
  PROVE  (UNCHANGED step \/ StepCompleted) /\ UNCHANGED verified
<1>1. /\ NextStatement \/ done \/ StepFailed
      /\ UNCHANGED verified
  BY Zenon DEF Statement
<1> QED
  BY <1>1, Zenon DEF NextStatement, StepFailed

(* The executor goes to another step only by completing the one it is at,    *)
(* and only the last step verifies.                                          *)
LEMMA ExecutionMoves ==
  ASSUME Execution, ~VerifyCluster
  PROVE  (UNCHANGED step \/ StepCompleted) /\ UNCHANGED verified /\ step # "verify"
<1> USE DEF At
<1>1. CASE PrecheckWriterEndpoint \/ SwitchWriterEndpoint \/ VerifyWriterEndpoint
  BY <1>1 DEF PrecheckWriterEndpoint, SwitchWriterEndpoint, VerifyWriterEndpoint, StepFailed
<1>2. CASE LockCandidate \/ LockOldPrimary
  <2>1. ASSUME NEW n, Fence(n) PROVE (UNCHANGED step \/ StepCompleted) /\ UNCHANGED verified
    BY <2>1, Zenon DEF Fence, NextStatement, StepFailed
  <2> QED
    BY <1>2, <2>1 DEF LockCandidate, LockOldPrimary
<1>3. CASE CountActiveWrites \/ ReadGTIDExecuted \/ PollAgain
  BY <1>3 DEF CountActiveWrites, ReadGTIDExecuted, PollAgain, NextStatement
<1>4. CASE WaitForExecutedGTIDSet \/ CatchUpTimeout
  BY <1>4 DEF WaitForExecutedGTIDSet, CatchUpTimeout, StepFailed
<1>5. CASE PromoteCandidate \/ RepointOldPrimary
  <2>1. StepCompleted \in BOOLEAN
    BY DEF StepCompleted
  <2> QED
    BY <1>5, <2>1, StatementMoves DEF PromoteCandidate, RepointOldPrimary
<1>6. CASE RepointReplicas
  <2>1. ASSUME NEW n PROVE NextNode(n) \in BOOLEAN /\ (NextNode(n) => StepCompleted \/ UNCHANGED step)
    BY DEF NextNode, StepCompleted
  <2> QED
    BY <1>6, <2>1, StatementMoves DEF RepointReplicas
<1> QED
  BY <1>1, <1>2, <1>3, <1>4, <1>5, <1>6 DEF Execution

(* What VerifyPostSwitchover finds in order is as it should be.               *)
LEMMA VerifyFinds ==
  ASSUME TypeOK, PlanInv, VerifiedInv, VerifyCluster
  PROVE  /\ UNCHANGED <<server, plan>>
         /\ step' = "verify" /\ todo' \subseteq Others
         /\ \A n \in verified' : VerifiedAs(n)
<1>1. /\ step = "verify" /\ todo \subseteq Others /\ orig # cand
      /\ \A n \in verified : VerifiedAs(n)
      /\ cand \in Nodes /\ cand # NoSource
  BY NoSourceAssumption DEF VerifyCluster, At, VerifiedInv, PlanInv, TypeOK, cand
<1>2. StepCompleted => step' = "verify" /\ todo' = {}
  BY <1>1 DEF StepCompleted, After
<1>3. StepFailed \/ NextStatement => step' = "verify" /\ todo' = todo
  BY <1>1 DEF StepFailed, NextStatement
<1>4. ASSUME NEW n, NEW ok \in BOOLEAN, NEW next \in BOOLEAN, VerifyNode(n, ok, next),
             ok /\ server[n].up => VerifiedAs(n),
             next => step' = "verify" /\ todo' \subseteq Others
      PROVE  /\ UNCHANGED <<server, plan>>
             /\ step' = "verify" /\ todo' \subseteq Others
             /\ \A m \in verified' : VerifiedAs(m)
  <2>1. /\ \/ server[n].up /\ ok /\ next /\ verified' = verified \cup {n}
           \/ StepFailed /\ UNCHANGED verified
        /\ UNCHANGED <<serverVars, plan>>
    BY <1>4, Zenon DEF VerifyNode
  <2> QED
    BY <1>1, <1>3, <1>4, <2>1 DEF serverVars
<1>5. CASE stmt = 1 /\ VerifyNode(cand, PromotedOK(server[cand]), NextStatement)
  <2>1. server[cand].up /\ PromotedOK(server[cand]) => VerifiedAs(cand)
    BY <1>1 DEF PromotedOK, VerifiedAs
  <2>2. PromotedOK(server[cand]) \in BOOLEAN /\ NextStatement \in BOOLEAN
    BY DEF PromotedOK, NextStatement, TypeOK, ServersTypeOK, ServerStates, cand
  <2> QED
    BY <1>1, <1>3, <1>4, <1>5, <2>1, <2>2
<1>6. CASE /\ stmt = 2
           /\ VerifyNode(orig, DemotedOK(server[orig]),
                         IF todo = {} THEN StepCompleted ELSE NextStatement)
  <2> DEFINE next == IF todo = {} THEN StepCompleted ELSE NextStatement
  <2>1. server[orig].up /\ DemotedOK(server[orig]) => VerifiedAs(orig)
    BY <1>1 DEF DemotedOK, VerifiedAs
  <2>2. DemotedOK(server[orig]) \in BOOLEAN /\ next \in BOOLEAN
    BY DEF DemotedOK, NextStatement, StepCompleted, TypeOK, ServersTypeOK, ServerStates, orig
  <2>3. next => step' = "verify" /\ todo' \subseteq Others
    BY <1>1, <1>2, <1>3
  <2>4. VerifyNode(orig, DemotedOK(server[orig]), next)
    BY <1>6
  <2> HIDE DEF next
  <2> QED
    BY <1>4, <2>1, <2>2, <2>3, <2>4
<1>7. ASSUME NEW n \in todo,
             VerifyNode(n, Follows(n, cand),
                IF todo = {n} THEN StepCompleted
                ELSE todo' = todo \ {n} /\ UNCHANGED <<step, stmt, status>>)
      PROVE  /\ UNCHANGED <<server, plan>>
             /\ step' = "verify" /\ todo' \subseteq Others
             /\ \A m \in verified' : VerifiedAs(m)
  <2> DEFINE next == IF todo = {n} THEN StepCompleted
                     ELSE todo' = todo \ {n} /\ UNCHANGED <<step, stmt, status>>
  <2>1. n \in Nodes /\ n # cand /\ n # orig
    BY <1>1 DEF Others, Repointable
  <2>2. server[n].up /\ Follows(n, cand) => VerifiedAs(n)
    BY <2>1 DEF Follows, VerifiedAs
  <2>3. Follows(n, cand) \in BOOLEAN /\ next \in BOOLEAN
    BY <2>1 DEF Follows, StepCompleted, TypeOK, ServersTypeOK, ServerStates
  <2>4. next => step' = "verify" /\ todo' \subseteq Others
    BY <1>1, <1>2
  <2>5. VerifyNode(n, Follows(n, cand), next)
    BY <1>7
  <2> HIDE DEF next
  <2> QED
    BY <1>4, <2>2, <2>3, <2>4, <2>5
<1> QED
  BY <1>5, <1>6, <1>7 DEF VerifyCluster

LEMMA ExecutionVerified ==
  ASSUME TypeOK, PlanInv, VerifiedInv, Execution
  PROVE  VerifiedInv'
<1>1. CASE VerifyCluster
  BY <1>1, VerifyFinds DEF VerifiedInv, VerifiedAs, Others, orig, cand
<1>2. CASE ~VerifyCluster
  <2>1. /\ UNCHANGED step \/ StepCompleted
        /\ UNCHANGED verified /\ step # "verify"
    BY <1>2, ExecutionMoves
  <2>2. plan' = plan
    BY ExecutionFlow DEF FlowOK
  <2>3. verified' = {}
    BY <2>1 DEF VerifiedInv
  <2>4. step' = "verify" => todo' \subseteq Others'
    BY <2>1, <2>2 DEF StepCompleted, Others, orig, cand
  <2> QED
    BY <2>3, <2>4 DEF VerifiedInv
<1> QED
  BY <1>1, <1>2

(* A server that was verified and has not crashed since was not restarted.   *)
LEMMA EnvironmentVerified ==
  ASSUME TypeOK, VerifiedInv, Environment
  PROVE  VerifiedInv'
<1>1. UNCHANGED <<step, todo, plan>> /\ verified' \subseteq verified
  BY DEF Environment, executorVars
<1>2. ASSUME NEW n \in verified'
      PROVE  /\ server'[n].up = server[n].up
             /\ server'[n].readOnly = server[n].readOnly
             /\ server'[n].source = server[n].source
             /\ server'[n].running = server[n].running
  <2>1. n \in Nodes /\ server[n].up
    BY <1>1 DEF VerifiedInv, VerifiedAs, TypeOK
  <2>2. CASE Clients \/ Replication
    BY <2>1, <2>2, TrafficFrame DEF TypeOK, Alike
  <2>3. ASSUME NEW m \in Nodes, Recover(m) PROVE server'[n] = server[n]
    BY <2>1, <2>3, RecoverFrame DEF Recover, TypeOK
  <2>4. ASSUME NEW m \in Nodes, Crash(m), verified' = verified \ {m} PROVE server'[n] = server[n]
    BY <2>1, <2>4, GoDownType DEF Crash, TypeOK
  <2> QED
    BY <2>2, <2>3, <2>4 DEF Environment
<1> QED
  BY <1>1, <1>2 DEF VerifiedInv, VerifiedAs, Others, orig, cand

LEMMA StepVerified ==
  ASSUME TypeOK, PlanInv, VerifiedInv, [Next]_vars
  PROVE  VerifiedInv'
<1>1. CASE Run \/ PlanRefused \/ (\E n \in Nodes : Inspect(n)) \/ UNCHANGED vars
  <2>1. UNCHANGED <<server, step, todo, plan, verified>>
    BY <1>1 DEF Run, PlanRefused, Inspect, vars, serverVars
  <2> QED
    BY <2>1 DEF VerifiedInv, VerifiedAs, Others, orig, cand
<1>2. ASSUME NEW o \in Nodes, NEW c \in Nodes, BuildPlan(o, c) PROVE VerifiedInv'
  BY <1>2 DEF BuildPlan, VerifiedInv
<1> QED
  BY <1>1, <1>2, ExecutionVerified, EnvironmentVerified DEF Next, Planning

-----------------------------------------------------------------------------
(* The theorems. *)

LEMMA InitRest == Init => Rest
BY SwitchoverAssumption DEF Init, ServersInit, Rest, PlanInv, FenceInv, FenceHolds, PublishedInv,
   SampleInv, DrainInv, NoLostWrite, AfterCatchUp, BeforeCatchUp, NoSample, orig, cand

LEMMA StepRest ==
  ASSUME TypeOK, TypeOK', Rest, [Next]_vars
  PROVE  Rest'
<1>1. CASE Run \/ Planning
  BY <1>1, PlanningRest
<1>2. CASE Execution
  BY <1>2, ExecutionRest
<1>3. CASE Environment
  BY <1>3, EnvironmentFlow, EnvironmentRest DEF Rest
<1>4. CASE UNCHANGED vars
  BY <1>4 DEF vars, Rest, PlanInv, FenceInv, FenceHolds, PublishedInv, SampleInv, DrainInv, Drained,
              NoLostWrite, Excluded, Accepts, orig, cand
<1> QED
  BY <1>1, <1>2, <1>3, <1>4 DEF Next

(* The invariant is inductive: TypeOK, Rest and VerifiedInv make up IInv.     *)
THEOREM Inductive == Spec => []IInv
<1>1. Init => IInv
  <2>1. Init => VerifiedInv
    BY DEF Init, VerifiedInv
  <2> QED
    BY <2>1, InitType, InitRest DEF IInv, Rest
<1>2. IInv /\ [Next]_vars => IInv'
  <2> SUFFICES ASSUME IInv, [Next]_vars PROVE IInv'
    OBVIOUS
  <2>1. TypeOK /\ Rest /\ VerifiedInv
    BY DEF IInv, Rest
  <2>2. TypeOK'
    BY <2>1, TypeStep DEF Rest
  <2>3. Rest'
    BY <2>1, <2>2, StepRest
  <2>4. VerifiedInv'
    BY <2>1, StepVerified DEF Rest
  <2> QED
    BY <2>2, <2>3, <2>4 DEF IInv, Rest
<1> QED
  BY <1>1, <1>2, PTL DEF Spec

(* Every variable of the switchover keeps its type: in particular the sample  *)
(* count of WaitForStableGTIDAfterReadOnly never passes StableSamples and no  *)
(* statement index leaves its script.                                         *)
THEOREM TypeCorrect == Spec => []TypeOK
<1>1. IInv => TypeOK
  BY DEF IInv
<1> QED
  BY <1>1, Inductive, PTL

(* From the promotion on the candidate has every write that the locked old    *)
(* primary ever committed, for any cluster, load, number of runs and crashes. *)
THEOREM NoLostWriteHolds == Spec => []NoLostWrite
<1>1. IInv => NoLostWrite
  BY DEF IInv
<1> QED
  BY <1>1, Inductive, PTL

(* A run recorded as succeeded has the topology it promises on every server   *)
(* that has not crashed since it was verified: the verification of one node   *)
(* is not undone by that of the next, nor by the runs that follow.            *)
THEOREM SucceededTopologyHolds == Spec => []SucceededTopology
<1>1. IInv => SucceededTopology
  BY DEF IInv, VerifiedInv, VerifiedAs, SucceededTopology
<1> QED
  BY <1>1, Inductive, PTL
=============================================================================
