--------------------------- MODULE FailoverProofs ---------------------------
(***************************************************************************)
(* Machine-checked proofs about Failover, for any set of nodes and         *)
(* transactions, any salvage policy and fencing steps, and any number of   *)
(* runs and crashes.                                                       *)
(***************************************************************************)
EXTENDS Failover, DiscoveryProofs, SequenceTheorems

-----------------------------------------------------------------------------
(* The order of the steps. *)

LEMMA RankFacts ==
  /\ Rank("none") = 0
  /\ Rank("precheck-writer-endpoint") = 1
  /\ Rank("fence-old-primary") = 2
  /\ Rank("recover-from-old-primary-binlog") = 3
  /\ Rank("recover-from-replica") = 4
  /\ Rank("promote-candidate") = 5
  /\ Rank("repoint-replicas") = 6
  /\ Rank("switch-writer-endpoint") = 7
  /\ Rank("verify-writer-endpoint") = 8
  /\ Rank("verify-cluster") = 9
BY DEF Rank

(* The executor skips omitted steps only: it enters the fence, the promotion  *)
(* and the verification in every run, and every salvage that is planned.      *)
LEMMA EnterFacts ==
  ASSUME NEW s, NEW p, EnterAfter(s, p)
  PROVE  /\ step' \in StepNames /\ stmt' = 1 /\ item' = 1
         /\ Rank(step') > Rank(s)
         /\ Rank(s) < 2 => Rank(step') <= 2
         /\ Rank(s) < 3 /\ p.Binlog => Rank(step') <= 3
         /\ Rank(s) < 4 /\ Donors(p) # {} => Rank(step') <= 4
         /\ Rank(s) < 5 => Rank(step') <= 5
         /\ step' = "recover-from-replica" => todo' = Donors(p)
         /\ step' = "repoint-replicas" => todo' = p.RepointReplicaIDs
         /\ step' = "verify-cluster" => todo' = Verifiable(p)
         /\ step' \notin {"recover-from-replica", "repoint-replicas", "verify-cluster"} => todo' = {}
<1>1. PICK next \in StepNames \ Omitted(p) :
        /\ Rank(next) > Rank(s)
        /\ \A other \in StepNames \ Omitted(p) :
             Rank(other) > Rank(s) => Rank(next) <= Rank(other)
        /\ Enter(next, p)
  BY DEF EnterAfter
<1>2. step' = next /\ stmt' = 1 /\ item' = 1
  BY <1>1 DEF Enter
<1>3. /\ "fence-old-primary" \in StepNames \ Omitted(p)
      /\ p.Binlog => "recover-from-old-primary-binlog" \in StepNames \ Omitted(p)
      /\ Donors(p) # {} => "recover-from-replica" \in StepNames \ Omitted(p)
      /\ "promote-candidate" \in StepNames \ Omitted(p)
  BY DEF StepNames, Omitted
<1>4. /\ Rank(s) < 2 => Rank(step') <= 2
      /\ Rank(s) < 3 /\ p.Binlog => Rank(step') <= 3
      /\ Rank(s) < 4 /\ Donors(p) # {} => Rank(step') <= 4
      /\ Rank(s) < 5 => Rank(step') <= 5
  BY <1>1, <1>2, <1>3, RankFacts
<1>5. /\ step' = "recover-from-replica" => todo' = Donors(p)
      /\ step' = "repoint-replicas" => todo' = p.RepointReplicaIDs
      /\ step' = "verify-cluster" => todo' = Verifiable(p)
      /\ step' \notin {"recover-from-replica", "repoint-replicas", "verify-cluster"} => todo' = {}
  BY <1>1, <1>2, Zenon DEF Enter
<1> QED
  BY <1>1, <1>2, <1>4, <1>5

LEMMA FencingLen ==
  Len(FencingSteps) \in Nat \ {0} /\ DOMAIN FencingSteps = 1..Len(FencingSteps)
BY FailoverAssumption, EmptySeq, LenProperties

-----------------------------------------------------------------------------
(* Type correctness. *)

LEMMA InitType == Init => TypeOK
<1> SUFFICES ASSUME Init PROVE TypeOK
  OBVIOUS
<1> USE FailoverAssumption, ServersAssumption DEF Init, ServersInit
<1>1. ServersTypeOK
  BY DEF ServersTypeOK, ServerStates, TrxStates
<1>2. view \in [Nodes -> NodeStates \cup {Unseen}]
  OBVIOUS
<1>3. plan \in Plans
  BY DEF Plans
<1>4. original \in [readOnly : BOOLEAN, superReadOnly : BOOLEAN, applied : BOOLEAN]
  BY DEF Untouched
<1>5. item \in 1..Len(FencingSteps)
  BY FencingLen
<1>6. runs \in 0..MaxRuns
  OBVIOUS
<1>7. /\ step = "none" /\ stmt = 1 /\ todo = {} /\ endpoint \in Nodes
      /\ status = "none" /\ isolated = FALSE /\ restarted = {}
  OBVIOUS
<1>8. step \in StepNames \cup {"none"} /\ stmt \in 1..7 /\ todo \subseteq Nodes /\ restarted \subseteq Nodes
  BY <1>7
<1>9. /\ status \in {"none", "planning", "refused", "blocked", "running", "failed", "succeeded"}
      /\ isolated \in BOOLEAN
  BY <1>7
<1> QED
  BY <1>1, <1>2, <1>3, <1>4, <1>5, <1>6, <1>7, <1>8, <1>9, Zenon DEF TypeOK

-----------------------------------------------------------------------------
(* What a step of the executor may do at most: to its position, to the plan,  *)
(* to the servers.                                                            *)

(* The executor goes on to another step, fails, or goes on within the step.   *)
Moves(p) ==
  \/ StepCompleted(p)
  \/ StepFailed
  \/ \E i \in 1..7 : GoTo(i) /\ (step = "promote-candidate" => i <= 4)
  \/ /\ step = "fence-old-primary" /\ item # Len(FencingSteps) /\ item' = item + 1 /\ stmt' = 1
     /\ UNCHANGED <<step, todo, status>>
  \/ todo' \subseteq todo /\ stmt' \in {1, stmt} /\ UNCHANGED <<step, item, status>>

SameModes(r, s) == r.readOnly = s.readOnly /\ r.superReadOnly = s.superReadOnly

ExecOK ==
  /\ status = "running"
  /\ ServersTypeOK' /\ DownInv'
  /\ UNCHANGED <<view, runs>>
  /\ plan' \in Plans
  /\ \E S \in SUBSET Nodes : plan' = [plan EXCEPT !.SkippedReplicaIDs = S]
  /\ step # "repoint-replicas" => plan' = plan
  /\ original' \in [readOnly : BOOLEAN, superReadOnly : BOOLEAN, applied : BOOLEAN]
  /\ step # "recover-from-old-primary-binlog" => original' = original
  /\ endpoint' \in Nodes
  /\ isolated' \in BOOLEAN /\ restarted' \subseteq restarted
  /\ step # "fence-old-primary" => UNCHANGED isolated /\ (old \in restarted => old \in restarted')
  /\ step # "verify-cluster" => restarted \subseteq restarted' \cup {old}
  /\ \A n \in Nodes : server[n].executed \subseteq server'[n].executed
  /\ step # "fence-old-primary" => /\ server'[old].up = server[old].up
                                   /\ server'[old].executed = server[old].executed
  /\ step = "fence-old-primary" => \A n \in Nodes \ {old} : server'[n] = server[n]
  /\ step \notin {"fence-old-primary", "recover-from-old-primary-binlog", "promote-candidate"} =>
       \A n \in Nodes : SameModes(server'[n], server[n])
  /\ step = "verify-cluster" => UNCHANGED server
  /\ Moves(plan')

(* Steps that leave the servers alone.                                        *)
LEMMA QuietExec ==
  ASSUME TypeOK, DownInv, status = "running",
         UNCHANGED <<serverVars, view, plan, original, runs, isolated, restarted>>,
         endpoint' \in Nodes, Moves(plan)
  PROVE  ExecOK
<1>1. UNCHANGED <<server, trx, crashes>>
  BY DEF serverVars
<1>2. ServersTypeOK' /\ DownInv'
  BY <1>1 DEF TypeOK, ServersTypeOK, DownInv
<1>3. plan' = [plan EXCEPT !.SkippedReplicaIDs = plan.SkippedReplicaIDs]
      /\ plan.SkippedReplicaIDs \in SUBSET Nodes
  BY DEF TypeOK, Plans
<1>4. plan' = plan
  OBVIOUS
<1>5. Moves(plan')
  BY <1>4
<1> HIDE DEF Moves
<1> QED
  BY <1>1, <1>2, <1>3, <1>4, <1>5 DEF ExecOK, TypeOK, SameModes

(* One SQL statement of the recovery or the promotion, on the candidate.      *)
LEMMA StatementExec ==
  ASSUME TypeOK, DownInv, old # cand, status = "running",
         step \in {"recover-from-old-primary-binlog", "recover-from-replica", "promote-candidate"},
         NEW s \in ServerStates, Executed(cand, s) \/ Errored(cand, s),
         s.executed = server[cand].executed, s.up = server[cand].up,
         step = "recover-from-replica" => SameModes(s, server[cand]),
         UNCHANGED <<trx, crashes, view, plan, original, endpoint, runs, isolated, restarted>>,
         Moves(plan)
  PROVE  ExecOK
<1>1. cand \in Nodes /\ old \in Nodes
  BY DEF TypeOK, Plans, cand, old
<1>2. /\ server' \in [Nodes -> ServerStates]
      /\ \A m \in Nodes \ {cand} : server'[m] = server[m]
      /\ server'[cand] = s \/ server'[cand] = server[cand]
  BY <1>1, StatementOutcome DEF TypeOK, ServersTypeOK
<1>3. ServersTypeOK'
  BY <1>2 DEF TypeOK, ServersTypeOK
<1>4. \A m \in Nodes : /\ server'[m].up = server[m].up
                       /\ server'[m].executed = server[m].executed
                       /\ step = "recover-from-replica" => SameModes(server'[m], server[m])
  BY <1>2 DEF SameModes
<1>5. DownInv'
  BY <1>4 DEF DownInv, TypeOK, ServersTypeOK, TrxStates
<1>6. plan' = [plan EXCEPT !.SkippedReplicaIDs = plan.SkippedReplicaIDs]
      /\ plan.SkippedReplicaIDs \in SUBSET Nodes
  BY DEF TypeOK, Plans
<1>7. Moves(plan')
  OBVIOUS
<1> HIDE DEF Moves
<1> QED
  BY <1>1, <1>3, <1>4, <1>5, <1>6, <1>7 DEF ExecOK, TypeOK

(* Whatever a step of the recovery goes on with is one of these moves.        *)
LEMMA FenceMoves ==
  ASSUME TypeOK, step = "fence-old-primary", FenceDone \/ FenceFailed
  PROVE  Moves(plan)
BY DEF FenceDone, FenceFailed, Moves

LEMMA BinlogMoves ==
  ASSUME step # "promote-candidate"
  PROVE  /\ BinlogFailed => Moves(plan)
         /\ BinlogEnded => Moves(plan)
         /\ \A i \in 1..7 : GoTo(i) => Moves(plan)
BY DEF BinlogFailed, BinlogEnded, Moves

LEMMA DonorMoves ==
  ASSUME NEW n, NextDonor(n) \/ DonorFailed(n)
  PROVE  Moves(plan)
BY DEF NextDonor, DonorFailed, Moves

(* The steps of the executor, each within these limits.                       *)
LEMMA FenceExec == ASSUME TypeOK, DownInv, Fence PROVE ExecOK
<1>1. old \in Nodes /\ status = "running" /\ step = "fence-old-primary"
  BY DEF TypeOK, Plans, old, Fence, FenceSkipped, FenceReadOnly, FenceLost, Stonith, OtherFence,
         Fencing, At
<1>2. CASE FenceSkipped \/ FenceLost \/ OtherFence
  <2>1. Moves(plan)
    BY <1>1, <1>2, FenceMoves DEF FenceSkipped, FenceLost, OtherFence
  <2>2. UNCHANGED <<serverVars, view, plan, original, endpoint, runs, isolated, restarted>>
    BY <1>2 DEF FenceSkipped, FenceLost, OtherFence
  <2>3. endpoint' \in Nodes
    BY <2>2 DEF TypeOK
  <2> QED
    BY <1>1, <2>1, <2>2, <2>3, QuietExec
<1>3. CASE FenceReadOnly
  <2> DEFINE super == stmt = 1 /\ old \in HasSuperReadOnly
             s == IF super THEN SuperReadOnlyOn(server[old]) ELSE ReadOnlyOn(server[old])
  <2>1. /\ Executed(old, s) \/ Errored(old, s)
        /\ FenceDone \/ FenceFailed \/ GoTo(2)
        /\ UNCHANGED <<trx, crashes, view, plan, original, endpoint, runs, isolated, restarted>>
    BY <1>3 DEF FenceReadOnly
  <2>2. s \in ServerStates /\ s.executed = server[old].executed /\ s.up = server[old].up
    BY <1>1, StatementType, StatementFrame DEF TypeOK, ServersTypeOK
  <2> HIDE DEF s
  <2>3. /\ server' \in [Nodes -> ServerStates]
        /\ \A m \in Nodes \ {old} : server'[m] = server[m]
        /\ server'[old] = s \/ server'[old] = server[old]
    BY <1>1, <2>1, <2>2, StatementOutcome DEF TypeOK, ServersTypeOK
  <2>4. ServersTypeOK'
    BY <2>1, <2>3 DEF TypeOK, ServersTypeOK
  <2>5. \A m \in Nodes : server'[m].up = server[m].up /\ server'[m].executed = server[m].executed
    BY <2>2, <2>3
  <2>6. DownInv'
    BY <2>1, <2>5 DEF DownInv, TypeOK, ServersTypeOK, TrxStates
  <2>7. Moves(plan)
    BY <1>1, <2>1, FenceMoves, BinlogMoves
  <2>8. plan' = plan /\ Moves(plan')
    BY <2>1, <2>7
  <2>9. plan' = [plan EXCEPT !.SkippedReplicaIDs = plan.SkippedReplicaIDs]
        /\ plan.SkippedReplicaIDs \in SUBSET Nodes
    BY <2>8 DEF TypeOK, Plans
  <2> HIDE DEF Moves
  <2> QED
    BY <1>1, <2>1, <2>3, <2>4, <2>5, <2>6, <2>8, <2>9 DEF ExecOK, TypeOK
<1>4. CASE Stonith
  <2>1. /\ FenceDone \/ FenceFailed
        /\ UNCHANGED <<crashes, view, plan, original, endpoint, runs>>
        /\ \/ GoDown(old) /\ isolated' = TRUE /\ restarted' = restarted \ {old}
           \/ UNCHANGED <<server, trx, isolated, restarted>>
    BY <1>4 DEF Stonith
  <2>2. Moves(plan)
    BY <1>1, <2>1, FenceMoves
  <2>3. plan' = plan /\ Moves(plan')
    BY <2>1, <2>2
  <2>4. plan' = [plan EXCEPT !.SkippedReplicaIDs = plan.SkippedReplicaIDs]
        /\ plan.SkippedReplicaIDs \in SUBSET Nodes
    BY <2>3 DEF TypeOK, Plans
  <2>5. /\ ServersTypeOK' /\ DownInv'
        /\ \A m \in Nodes \ {old} : server'[m] = server[m]
        /\ \A m \in Nodes : server[m].executed \subseteq server'[m].executed
    <3>1. CASE GoDown(old)
      BY <1>1, <2>1, <3>1, GoDownType DEF Alike, TypeOK, ServersTypeOK
    <3>2. CASE UNCHANGED <<server, trx, isolated, restarted>>
      BY <2>1, <3>2 DEF TypeOK, ServersTypeOK, DownInv
    <3> QED
      BY <2>1, <3>1, <3>2
  <2>6. isolated' \in BOOLEAN /\ restarted' \subseteq restarted /\ restarted \subseteq restarted' \cup {old}
    BY <2>1 DEF TypeOK
  <2> HIDE DEF Moves
  <2> QED
    BY <1>1, <2>1, <2>3, <2>4, <2>5, <2>6 DEF ExecOK, TypeOK
<1> QED
  BY <1>2, <1>3, <1>4 DEF Fence

LEMMA RecoveryStatements ==
  ASSUME NEW s \in ServerStates
  PROVE  /\ \A r \in {SuperReadOnlyOff(s), ReadOnlyOff(s), StopReplica(s), ResetReplicaAll(s)} :
              r \in ServerStates /\ r.executed = s.executed /\ r.up = s.up
         /\ \A r \in {SuperReadOnlyOn(s), ReadOnlyOn(s)} :
              r \in ServerStates /\ r.executed = s.executed /\ r.up = s.up
         /\ SameModes(StopReplica(s), s) /\ SameModes(ResetReplicaAll(s), s)
BY DEF ServerStates, SuperReadOnlyOn, ReadOnlyOn, SuperReadOnlyOff, ReadOnlyOff, StopReplica,
       ResetReplicaAll, SameModes

LEMMA BinlogExec == ASSUME TypeOK, DownInv, old # cand, BinlogSalvageStep PROVE ExecOK
<1>1. /\ old \in Nodes /\ cand \in Nodes /\ server[cand] \in ServerStates
      /\ status = "running" /\ step = "recover-from-old-primary-binlog"
  BY DEF TypeOK, ServersTypeOK, Plans, old, cand, BinlogSalvageStep, GetReadOnlyState,
         DisableReadOnly, ApplyBinlogDump, EnableReadOnly, AtBinlog, At
<1>2. plan.SkippedReplicaIDs \in SUBSET Nodes
      /\ plan = [plan EXCEPT !.SkippedReplicaIDs = plan.SkippedReplicaIDs]
  BY DEF TypeOK, Plans
<1>3. CASE GetReadOnlyState
  <2>1. /\ UNCHANGED <<serverVars, view, plan, endpoint, runs, isolated, restarted>>
        /\ BinlogFailed \/ GoTo(2) \/ GoTo(3) \/ GoTo(4)
        /\ \/ original' = original
           \/ original' = [readOnly |-> server[cand].readOnly,
                           superReadOnly |-> server[cand].superReadOnly, applied |-> FALSE]
    BY <1>3 DEF GetReadOnlyState
  <2>2. original' \in [readOnly : BOOLEAN, superReadOnly : BOOLEAN, applied : BOOLEAN]
    <3>1. server[cand].readOnly \in BOOLEAN /\ server[cand].superReadOnly \in BOOLEAN
      BY <1>1 DEF ServerStates
    <3>2. original \in [readOnly : BOOLEAN, superReadOnly : BOOLEAN, applied : BOOLEAN]
      BY DEF TypeOK
    <3>3. [readOnly |-> server[cand].readOnly, superReadOnly |-> server[cand].superReadOnly,
           applied |-> FALSE] \in [readOnly : BOOLEAN, superReadOnly : BOOLEAN, applied : BOOLEAN]
      BY <3>1, Zenon
    <3> QED
      BY <2>1, <3>2, <3>3, Zenon
  <2>3. UNCHANGED <<server, trx, crashes>>
    BY <2>1 DEF serverVars
  <2>4. ServersTypeOK' /\ DownInv'
    BY <2>3 DEF TypeOK, ServersTypeOK, DownInv
  <2>5. plan' = plan /\ Moves(plan')
    BY <1>1, <2>1, BinlogMoves
  <2> HIDE DEF Moves
  <2> QED
    BY <1>1, <1>2, <2>1, <2>2, <2>3, <2>4, <2>5 DEF ExecOK, TypeOK
<1>4. CASE DisableReadOnly \/ EnableReadOnly
  <2>1. PICK s \in {SuperReadOnlyOn(server[cand]), ReadOnlyOn(server[cand]),
                     SuperReadOnlyOff(server[cand]), ReadOnlyOff(server[cand])} :
          /\ Executed(cand, s) \/ Errored(cand, s)
          /\ BinlogFailed \/ BinlogEnded \/ GoTo(3) \/ GoTo(4) \/ GoTo(6) \/ GoTo(7)
          /\ UNCHANGED <<trx, crashes, view, plan, original, endpoint, runs, isolated, restarted>>
    BY <1>4 DEF DisableReadOnly, EnableReadOnly, SetCandidate
  <2>2. s \in ServerStates /\ s.executed = server[cand].executed /\ s.up = server[cand].up
    BY <1>1, <2>1, RecoveryStatements
  <2>3. Moves(plan)
    BY <1>1, <2>1, BinlogMoves
  <2> QED
    BY <1>1, <2>1, <2>2, <2>3, StatementExec
<1>5. CASE ApplyBinlogDump
  <2>1. PICK T \in SUBSET BinlogTrx, applied \in BOOLEAN :
          /\ T # {} \/ applied => server[cand].up /\ ~server[cand].superReadOnly
          /\ server' = [server EXCEPT ![cand] = Salvaged(@, T)]
          /\ original' = [original EXCEPT !.applied = applied]
          /\ GoTo(5) \/ StepCompleted(plan) \/ BinlogFailed
          /\ UNCHANGED <<trx, crashes, view, plan, endpoint, runs, isolated, restarted>>
    BY <1>5, Zenon DEF ApplyBinlogDump
  <2>2. T \subseteq Trx
    BY <1>1, <2>1 DEF BinlogTrx, TypeOK, ServersTypeOK, ServerStates
  <2>3. /\ Salvaged(server[cand], T) \in ServerStates
        /\ server[cand].executed \subseteq Salvaged(server[cand], T).executed
        /\ Salvaged(server[cand], T).up = server[cand].up
    BY <1>1, <2>2 DEF Salvaged, ServerStates
  <2>4. /\ server' \in [Nodes -> ServerStates]
        /\ \A m \in Nodes : /\ server[m].executed \subseteq server'[m].executed
                            /\ server'[m].up = server[m].up
        /\ server'[old] = server[old]
    BY <1>1, <2>1, <2>3 DEF TypeOK, ServersTypeOK
  <2>5. ServersTypeOK' /\ DownInv'
    BY <2>1, <2>4 DEF TypeOK, ServersTypeOK, DownInv, TrxStates
  <2>6. original' \in [readOnly : BOOLEAN, superReadOnly : BOOLEAN, applied : BOOLEAN]
    BY <2>1 DEF TypeOK
  <2>7. plan' = plan /\ Moves(plan')
    BY <1>1, <2>1, BinlogMoves DEF Moves
  <2> HIDE DEF Moves
  <2> QED
    BY <1>1, <1>2, <2>1, <2>4, <2>5, <2>6, <2>7 DEF ExecOK, TypeOK
<1> QED
  BY <1>3, <1>4, <1>5 DEF BinlogSalvageStep

LEMMA DonorExec == ASSUME TypeOK, DownInv, old # cand, DonorSalvage PROVE ExecOK
<1>1. PICK n \in todo : DonorSkipped(n) \/ RepointToDonor(n) \/ WaitForDonor(n) \/ QuiesceChannel(n)
  BY DEF DonorSalvage
<1>2. /\ n \in Nodes /\ cand \in Nodes /\ server[cand] \in ServerStates
      /\ status = "running" /\ step = "recover-from-replica"
      /\ stmt \in 1..7 /\ endpoint \in Nodes
  BY <1>1 DEF TypeOK, ServersTypeOK, Plans, cand, DonorSkipped, RepointToDonor, WaitForDonor,
              QuiesceChannel, AtDonor, At
<1>3. CASE DonorSkipped(n) \/ WaitForDonor(n)
  <2>1. /\ UNCHANGED <<serverVars, view, plan, original, endpoint, runs, isolated, restarted>>
        /\ DonorFailed(n) \/ NextDonor(n) \/ GoTo(5)
    BY <1>3, Zenon DEF DonorSkipped, WaitForDonor
  <2>2. Moves(plan)
    BY <1>2, <2>1, DonorMoves, BinlogMoves
  <2> QED
    BY <1>2, <2>1, <2>2, QuietExec
<1>4. CASE RepointToDonor(n) \/ QuiesceChannel(n)
  <2>1. PICK s \in {RepointStatement(stmt, server[cand], n), StopReplica(server[cand]),
                     ResetReplicaAll(server[cand])} :
          /\ Executed(cand, s) \/ Errored(cand, s)
          /\ DonorFailed(n) \/ GoTo(6) \/ GoTo(5) \/ (stmt <= 3 /\ GoTo(stmt + 1))
          /\ UNCHANGED <<trx, crashes, view, plan, original, endpoint, runs, isolated, restarted>>
    BY <1>4, Zenon DEF RepointToDonor, QuiesceChannel, SetCandidate
  <2>2. s \in ServerStates /\ s.executed = server[cand].executed /\ s.up = server[cand].up
        /\ SameModes(s, server[cand])
    BY <1>2, <2>1, StatementType, StatementFrame, RecoveryStatements DEF SameModes
  <2>3. Moves(plan)
    BY <1>2, <2>1, DonorMoves, BinlogMoves
  <2> QED
    BY <1>2, <2>1, <2>2, <2>3, StatementExec
<1> QED
  BY <1>1, <1>3, <1>4

LEMMA PromoteExec ==
  ASSUME TypeOK, DownInv, ScriptInv, old # cand, PromoteCandidate PROVE ExecOK
<1>1. /\ cand \in Nodes /\ server[cand] \in ServerStates /\ stmt \in 1..7
      /\ status = "running" /\ step = "promote-candidate"
  BY DEF TypeOK, ServersTypeOK, Plans, cand, PromoteCandidate, At
<1> DEFINE s == PromoteStatement(stmt, server[cand])
<1>2. /\ Executed(cand, s) \/ Errored(cand, s)
      /\ StepCompleted(plan) \/ (stmt # 4 /\ GoTo(stmt + 1)) \/ StepFailed
      /\ UNCHANGED <<trx, crashes, view, plan, original, endpoint, runs, isolated, restarted>>
  BY Zenon DEF PromoteCandidate, SetCandidate
<1>3. s \in ServerStates /\ s.executed = server[cand].executed /\ s.up = server[cand].up
  BY <1>1, StatementType, StatementFrame
<1>4. Moves(plan)
  BY <1>1, <1>2 DEF Moves, ScriptInv
<1> HIDE DEF s
<1> QED
  BY <1>1, <1>2, <1>3, <1>4, StatementExec

LEMMA RepointExec ==
  ASSUME TypeOK, DownInv, RepointReplicas PROVE ExecOK
<1>1. /\ status = "running" /\ step = "repoint-replicas"
      /\ old \in Nodes /\ cand \in Nodes /\ stmt \in 1..7
  BY DEF TypeOK, Plans, RepointReplicas, At, cand, old
<1>2. PICK n \in todo :
        LET s == RepointStatement(stmt, server[n], cand)
        IN \/ Executed(n, s) /\ stmt < 3 /\ GoTo(stmt + 1) /\ UNCHANGED plan
           \/ Executed(n, s) /\ stmt = 3 /\ NextReplica(n, plan)
           \/ Errored(n, s) /\ NextReplica(n, Skipping(n))
  BY DEF RepointReplicas
<1>3. UNCHANGED <<trx, crashes, view, original, endpoint, runs, isolated, restarted>>
  BY DEF RepointReplicas
<1> DEFINE s == RepointStatement(stmt, server[n], cand)
<1>4. n \in Nodes /\ server[n] \in ServerStates
  BY DEF TypeOK, ServersTypeOK
<1>5. s \in ServerStates /\ s.executed = server[n].executed /\ s.up = server[n].up
      /\ SameModes(s, server[n])
  BY <1>1, <1>4, StatementType, StatementFrame DEF SameModes
<1>6. Executed(n, s) \/ Errored(n, s)
  BY <1>2
<1>7. \/ plan' = plan /\ GoTo(stmt + 1) /\ stmt < 3
      \/ \E p \in {plan, Skipping(n)} : NextReplica(n, p)
  BY <1>2
<1> HIDE DEF s
<1>8. /\ server' \in [Nodes -> ServerStates]
      /\ \A m \in Nodes : /\ server'[m].up = server[m].up
                          /\ server'[m].executed = server[m].executed
                          /\ SameModes(server'[m], server[m])
  BY <1>4, <1>5, <1>6, StatementOutcome DEF TypeOK, ServersTypeOK, SameModes
<1>9. ServersTypeOK' /\ DownInv'
  BY <1>3, <1>8 DEF TypeOK, ServersTypeOK, DownInv, TrxStates
<1>10. /\ plan' \in Plans
       /\ \E S \in SUBSET Nodes : plan' = [plan EXCEPT !.SkippedReplicaIDs = S]
  <2>1. plan' = plan \/ plan' = Skipping(n)
    BY <1>7 DEF NextReplica
  <2>2. \E S \in SUBSET Nodes : plan = [plan EXCEPT !.SkippedReplicaIDs = S]
    <3>1. plan.SkippedReplicaIDs \in SUBSET Nodes
          /\ plan = [plan EXCEPT !.SkippedReplicaIDs = plan.SkippedReplicaIDs]
      BY DEF TypeOK, Plans
    <3> QED
      BY <3>1
  <2>3. plan.SkippedReplicaIDs \cup {n} \in SUBSET Nodes
    BY <1>4 DEF TypeOK, Plans
  <2>4. Skipping(n) = [plan EXCEPT !.SkippedReplicaIDs = plan.SkippedReplicaIDs \cup {n}]
    BY DEF Skipping
  <2>5. Skipping(n) \in Plans
    BY <2>3, <2>4 DEF TypeOK, Plans
  <2> QED
    BY <2>1, <2>2, <2>3, <2>4, <2>5 DEF TypeOK
<1>11. Moves(plan')
  BY <1>1, <1>7 DEF NextReplica, Moves, GoTo
<1> HIDE DEF Moves
<1> QED
  BY <1>1, <1>3, <1>8, <1>9, <1>10, <1>11 DEF ExecOK, TypeOK

LEMMA VerifyExec ==
  ASSUME TypeOK, DownInv, todo \subseteq Verifiable(plan), old # cand, VerifyCluster PROVE ExecOK
<1>1. /\ status = "running" /\ step = "verify-cluster" /\ old \in Nodes
  BY DEF TypeOK, Plans, VerifyCluster, At, old
<1>2. /\ UNCHANGED <<serverVars, view, plan, original, endpoint, runs, isolated>>
      /\ \/ restarted' = restarted
         \/ \E n \in todo \cup {cand} : restarted' = restarted \ {n}
      /\ \/ StepCompleted(plan) \/ GoTo(2) \/ StepFailed
         \/ todo' \subseteq todo /\ UNCHANGED <<step, stmt, item, status>>
  BY Zenon DEF VerifyCluster, VerifyNode
<1>3. plan' = plan /\ Moves(plan')
  BY <1>1, <1>2 DEF Moves
<1>4. plan.SkippedReplicaIDs \in SUBSET Nodes
      /\ plan = [plan EXCEPT !.SkippedReplicaIDs = plan.SkippedReplicaIDs]
  BY DEF TypeOK, Plans
<1>5. UNCHANGED <<server, trx, crashes>>
  BY <1>2 DEF serverVars
<1>6. ServersTypeOK' /\ DownInv'
  BY <1>5 DEF TypeOK, ServersTypeOK, DownInv
<1>7. old \notin todo \cup {cand}
  BY DEF Verifiable, old, cand
<1>8. restarted' \subseteq restarted /\ (old \in restarted => old \in restarted')
  BY <1>2, <1>7
<1> HIDE DEF Moves
<1> QED
  BY <1>1, <1>2, <1>3, <1>4, <1>5, <1>6, <1>8 DEF ExecOK, TypeOK, SameModes

LEMMA EndpointExec ==
  ASSUME TypeOK, DownInv,
         PrecheckWriterEndpoint \/ SwitchWriterEndpoint \/ VerifyWriterEndpoint \/ Kill
  PROVE  ExecOK
<1>1. /\ status = "running"
      /\ UNCHANGED <<serverVars, view, plan, original, runs, isolated, restarted>>
      /\ endpoint' \in {endpoint, cand}
      /\ StepCompleted(plan) \/ StepFailed
  BY DEF PrecheckWriterEndpoint, SwitchWriterEndpoint, VerifyWriterEndpoint, Kill, At
<1>2. endpoint' \in Nodes
  BY <1>1 DEF TypeOK, Plans, cand
<1>3. Moves(plan)
  BY <1>1 DEF Moves
<1> QED
  BY <1>1, <1>2, <1>3, QuietExec

(* What every step of the executor needs to be well-defined; whoever else     *)
(* changes the servers beside it.                                             *)
WellFormed ==
  /\ TypeOK /\ ScriptInv /\ DownInv
  /\ Executing => old # cand
  /\ Executing /\ step = "verify-cluster" => todo \subseteq Verifiable(plan)

(* Every step of the executor, and its end by a kill.                         *)
LEMMA ExecutionExec ==
  ASSUME WellFormed, Execution \/ Kill
  PROVE  ExecOK
<1>1. status = "running"
  BY Zenon DEF Execution, Kill, PrecheckWriterEndpoint, SwitchWriterEndpoint, VerifyWriterEndpoint,
     PromoteCandidate, RepointReplicas, VerifyCluster, Fence, FenceSkipped, FenceReadOnly,
     FenceLost, Stonith, OtherFence, Fencing, BinlogSalvageStep, GetReadOnlyState,
     DisableReadOnly, ApplyBinlogDump, EnableReadOnly, AtBinlog, DonorSalvage,
     DonorSkipped, RepointToDonor, WaitForDonor, QuiesceChannel, AtDonor, At
<1>2. TypeOK /\ ScriptInv /\ DownInv /\ old # cand
  BY <1>1 DEF WellFormed, Executing
<1>3. VerifyCluster => todo \subseteq Verifiable(plan)
  BY <1>1 DEF WellFormed, Executing, VerifyCluster, At
<1> QED
  BY <1>2, <1>3, FenceExec, BinlogExec, DonorExec, PromoteExec, RepointExec, VerifyExec, EndpointExec
  DEF Execution

(* It leaves the executor in a step of the script, at a statement of it.      *)
LEMMA ExecType == ASSUME TypeOK, ScriptInv, ExecOK PROVE TypeOK' /\ ScriptInv'
<1>1. Len(FencingSteps) \in Nat \ {0}
  BY FencingLen
<1>2. /\ step' \in StepNames \cup {"none"} /\ stmt' \in 1..7 /\ item' \in 1..Len(FencingSteps)
      /\ todo' \subseteq Nodes /\ status' \in {"running", "failed", "succeeded"}
      /\ step' = "promote-candidate" => stmt' <= 4
  <2>1. CASE StepCompleted(plan')
    <3>1. CASE step = "verify-cluster"
      BY <2>1, <3>1 DEF StepCompleted, progress, TypeOK, ScriptInv
    <3>2. CASE step # "verify-cluster"
      <4>1. EnterAfter(step, plan') /\ status' = status
        BY <2>1, <3>2 DEF StepCompleted
      <4>2. \A p \in Plans : Donors(p) \subseteq Nodes /\ p.RepointReplicaIDs \subseteq Nodes
                             /\ Verifiable(p) \subseteq Nodes
        BY DEF Plans, Donors, Verifiable, Repointable
      <4>3. /\ step' \in StepNames /\ stmt' = 1 /\ item' = 1
            /\ todo' \in {{}, Donors(plan'), plan'.RepointReplicaIDs, Verifiable(plan')}
        BY <4>1, EnterFacts, Zenon
      <4>4. todo' \subseteq Nodes
        BY <4>2, <4>3 DEF ExecOK
      <4>5. status' = "running"
        BY <4>1 DEF ExecOK
      <4> QED
        BY <1>1, <4>3, <4>4, <4>5
    <3> QED
      BY <3>1, <3>2
  <2>2. CASE StepFailed
    BY <2>2 DEF StepFailed, progress, TypeOK, ScriptInv
  <2>3. CASE \E i \in 1..7 : GoTo(i) /\ (step = "promote-candidate" => i <= 4)
    BY <2>3 DEF GoTo, TypeOK, ExecOK, ScriptInv
  <2>4. CASE /\ step = "fence-old-primary" /\ item # Len(FencingSteps) /\ item' = item + 1 /\ stmt' = 1
             /\ UNCHANGED <<step, todo, status>>
    BY <1>1, <2>4 DEF TypeOK, ExecOK, ScriptInv
  <2>5. CASE todo' \subseteq todo /\ stmt' \in {1, stmt} /\ UNCHANGED <<step, item, status>>
    BY <2>5 DEF TypeOK, ExecOK, ScriptInv
  <2> QED
    BY <2>1, <2>2, <2>3, <2>4, <2>5 DEF ExecOK, Moves
<1> QED
  BY <1>2 DEF ExecOK, TypeOK, ScriptInv

-----------------------------------------------------------------------------
(* The inductive invariant over a step of the executor. *)

LEMMA RankOrder ==
  ASSUME step \in StepNames \cup {"none"}
  PROVE  /\ Rank(step) \in 0..9
         /\ Rank(step) = 2 => step = "fence-old-primary"
         /\ Rank(step) = 3 => step = "recover-from-old-primary-binlog"
         /\ Rank(step) = 4 => step = "recover-from-replica"
         /\ Rank(step) = 5 => step = "promote-candidate"
         /\ Rank(step) = 9 => step = "verify-cluster"
BY RankFacts DEF StepNames

(* The plan keeps its nodes and gaps; the executor stays in its step or goes  *)
(* on by the rules of EnterAfter.                                             *)
LEMMA ExecFlow ==
  ASSUME TypeOK, ScriptInv, ExecOK
  PROVE  /\ old' = old /\ cand' = cand /\ old \in Nodes /\ cand \in Nodes
         /\ plan'.Missing = plan.Missing /\ plan'.Binlog = plan.Binlog
         /\ plan'.GTIDExecuted = plan.GTIDExecuted /\ Donors(plan') = Donors(plan)
         /\ Executing /\ Executing'
         /\ Rank(step) \in 0..9 /\ Rank(step') \in 0..9 /\ Rank(step') >= Rank(step)
         /\ status' = "succeeded" => step = "verify-cluster"
         /\ \/ step' = step
            \/ /\ status' = "running" /\ stmt' = 1 /\ item' = 1 /\ step # "verify-cluster"
               /\ Rank(step') > Rank(step)
               /\ Rank(step) < 2 => Rank(step') <= 2
               /\ Rank(step) < 3 /\ plan.Binlog => Rank(step') <= 3
               /\ Rank(step) < 4 /\ Donors(plan) # {} => Rank(step') <= 4
               /\ Rank(step) < 5 => Rank(step') <= 5
               /\ step' = "recover-from-replica" => todo' = Donors(plan)
               /\ step' = "verify-cluster" => todo' = Verifiable(plan')
<1>1. /\ plan'.OldPrimary = plan.OldPrimary /\ plan'.Candidate = plan.Candidate
      /\ plan'.Missing = plan.Missing /\ plan'.Binlog = plan.Binlog
      /\ plan'.GTIDExecuted = plan.GTIDExecuted
  BY DEF ExecOK, TypeOK, Plans
<1>2. old' = old /\ cand' = cand /\ old \in Nodes /\ cand \in Nodes
  BY <1>1 DEF old, cand, TypeOK, Plans
<1>3. Donors(plan') = Donors(plan)
  BY <1>1 DEF Donors
<1>4. status = "running" /\ status' \in {"running", "failed", "succeeded"}
      /\ (status' = "succeeded" => step = "verify-cluster")
      /\ (step' = step \/ (step # "verify-cluster" /\ EnterAfter(step, plan') /\ status' = status))
  BY DEF ExecOK, Moves, StepCompleted, StepFailed, GoTo, progress
<1>5. step \in StepNames \cup {"none"} /\ step' \in StepNames \cup {"none"}
  BY ExecType DEF TypeOK
<1>6. Rank(step) \in 0..9 /\ Rank(step') \in 0..9
  BY <1>5, RankFacts DEF StepNames
<1>7. CASE step' = step
  BY <1>1, <1>2, <1>3, <1>4, <1>6, <1>7 DEF Executing
<1>8. CASE step # "verify-cluster" /\ EnterAfter(step, plan') /\ status' = status
  BY <1>1, <1>2, <1>3, <1>4, <1>6, <1>8, EnterFacts DEF Executing
<1> QED
  BY <1>4, <1>7, <1>8

(* It stays well-formed.                                                      *)
LEMMA ExecWellFormed == ASSUME WellFormed, ExecOK PROVE WellFormed'
<1>1. TypeOK /\ ScriptInv /\ DownInv' /\ Executing /\ old # cand
  BY DEF WellFormed, ExecOK, Executing
<1>2. TypeOK' /\ ScriptInv' /\ old' # cand'
  BY <1>1, ExecType, ExecFlow
<1>3. step' = "verify-cluster" => todo' \subseteq Verifiable(plan')
  <2>1. CASE step = "verify-cluster"
    <3>1. plan' = plan /\ todo \subseteq Verifiable(plan)
      BY <1>1, <2>1 DEF WellFormed, ExecOK
    <3>2. todo' \subseteq todo
      BY <2>1 DEF ExecOK, Moves, StepCompleted, StepFailed, GoTo, progress
    <3> QED
      BY <3>1, <3>2 DEF Verifiable
  <2>2. CASE step # "verify-cluster"
    BY <1>1, <2>2, ExecFlow
  <2> QED
    BY <2>1, <2>2
<1> QED
  BY <1>1, <1>2, <1>3 DEF WellFormed

LEMMA IInvWellFormed == IInv => WellFormed
BY DEF IInv, WellFormed, PlanInv, VerifyInv

LEMMA PlanStep ==
  ASSUME TypeOK, ScriptInv, ViewInv, PlanInv, ExecOK PROVE PlanInv' /\ ViewInv'
<1>1. PlanInv'
  BY ExecFlow DEF PlanInv, ExecOK
<1>2. \A n \in Nodes : view'[n] = Unseen
  BY DEF ViewInv, ExecOK
<1> QED
  BY <1>1, <1>2 DEF ViewInv

(* Fencing: the old primary only ever goes down, and a step that must take it *)
(* down is passed only once it has.                                           *)
LEMMA FenceOwn ==
  ASSUME TypeOK, Fence
  PROVE  /\ \/ ~server'[old].up
            \/ /\ server'[old].up = server[old].up
               /\ UNCHANGED <<isolated, restarted>>
         /\ \/ step' = step /\ item' = item
            \/ /\ \/ step' = step /\ item' = item + 1
                  \/ item = Len(FencingSteps)
               /\ FencingSteps[item] = [kind |-> "stonith", required |-> TRUE] => ~server'[old].up
<1>1. old \in Nodes
  BY DEF TypeOK, Plans, old
<1>2. /\ FenceDone => \/ step' = step /\ item' = item + 1
                      \/ item = Len(FencingSteps)
      /\ StepFailed => step' = step /\ item' = item
      /\ GoTo(2) => step' = step /\ item' = item
  BY DEF FenceDone, StepFailed, progress, GoTo
<1>3. FenceFailed => StepFailed \/ (FenceDone /\ ~FencingSteps[item].required)
  BY DEF FenceFailed
<1>4. CASE FenceSkipped \/ FenceLost \/ OtherFence
  <2>1. server' = server /\ UNCHANGED <<isolated, restarted>>
    BY <1>4 DEF FenceSkipped, FenceLost, OtherFence, serverVars
  <2>2. FencingSteps[item].kind # "stonith" /\ (FenceDone \/ FenceFailed)
    BY <1>4 DEF FenceSkipped, FenceLost, OtherFence, Fencing
  <2> QED
    BY <1>2, <1>3, <2>1, <2>2
<1>5. CASE FenceReadOnly
  <2>1. FencingSteps[item].kind # "stonith" /\ (FenceDone \/ FenceFailed \/ GoTo(2))
        /\ UNCHANGED <<isolated, restarted>>
    BY <1>5 DEF FenceReadOnly, Fencing
  <2>2. server'[old].up = server[old].up
    <3> DEFINE s == IF stmt = 1 /\ old \in HasSuperReadOnly
                    THEN SuperReadOnlyOn(server[old]) ELSE ReadOnlyOn(server[old])
    <3>1. s.up = server[old].up /\ s \in ServerStates
      BY <1>1, StatementType, StatementFrame DEF TypeOK, ServersTypeOK
    <3>2. Executed(old, s) \/ Errored(old, s)
      BY <1>5 DEF FenceReadOnly
    <3> HIDE DEF s
    <3> QED
      BY <1>1, <3>1, <3>2, StatementOutcome DEF TypeOK, ServersTypeOK
  <2> QED
    BY <1>2, <1>3, <2>1, <2>2
<1>6. CASE Stonith
  <2>1. CASE GoDown(old)
    <3>1. ~server'[old].up
      BY <1>1, <2>1, GoDownType DEF TypeOK
    <3>2. FenceDone \/ FenceFailed
      BY <1>6 DEF Stonith
    <3> QED
      BY <1>2, <1>3, <3>1, <3>2
  <2>2. CASE UNCHANGED <<server, trx, isolated, restarted>> /\ FenceFailed
    BY <1>2, <1>3, <2>2
  <2> QED
    BY <1>6, <2>1, <2>2 DEF Stonith
<1> QED
  BY <1>4, <1>5, <1>6 DEF Fence

LEMMA FenceStep ==
  ASSUME TypeOK, ScriptInv, FenceInv, ExecOK, step = "fence-old-primary" => Fence \/ Kill
  PROVE  FenceInv'
<1> USE ExecFlow
<1>1. CASE step # "fence-old-primary"
  <2>1. Isolated' => Isolated
    BY <1>1 DEF ExecOK, Isolated
  <2>2. server'[old].up = server[old].up /\ (old' \notin restarted' => old \notin restarted)
    BY <1>1 DEF ExecOK
  <2>3. Isolated' => ~server'[old'].up
    BY <2>1, <2>2 DEF FenceInv
  <2>4. step' = "fence-old-primary" => item' = 1
    BY <1>1
  <2>5. Rank(step') > 2 => Rank(step) > 2
    BY <1>1, RankOrder DEF TypeOK
  <2>6. Rank(step') > 2 /\ StonithRequired /\ old' \notin restarted' => ~server'[old'].up
    BY <2>2, <2>5, RankFacts DEF FenceInv
  <2> QED
    BY <2>3, <2>4, <2>6, RankFacts DEF FenceInv, StonithRequired
<1>2. CASE step = "fence-old-primary" /\ Kill
  <2>1. UNCHANGED <<step, item, server, restarted, isolated>>
    BY <1>2 DEF Kill, StepFailed, progress, serverVars
  <2> QED
    BY <2>1, RankFacts DEF FenceInv, StonithRequired, Isolated
<1>3. CASE step = "fence-old-primary" /\ Fence
  <2>1. ~server'[old].up => FenceInv'
    BY DEF FenceInv
  <2>2. ASSUME server'[old].up
        PROVE  FenceInv'
    <3>1. server[old].up /\ UNCHANGED <<isolated, restarted>>
      BY <1>3, <2>2, FenceOwn
    <3>2. ~Isolated'
      BY <3>1 DEF FenceInv, Isolated
    <3>3. \A i \in 1..(item - 1) : old \notin restarted =>
            FencingSteps[i] # [kind |-> "stonith", required |-> TRUE]
      BY <1>3, <3>1 DEF FenceInv
    <3>4. CASE step' = step /\ item' = item
      BY <1>3, <3>1, <3>2, <3>3, <3>4, RankFacts DEF FenceInv
    <3>5. CASE ~(step' = step /\ item' = item)
      <4>1. /\ (step' = step /\ item' = item + 1) \/ item = Len(FencingSteps)
            /\ FencingSteps[item] # [kind |-> "stonith", required |-> TRUE]
        BY <1>3, <2>2, <3>5, FenceOwn
      <4>2. \A i \in 1..item : old \notin restarted =>
              FencingSteps[i] # [kind |-> "stonith", required |-> TRUE]
        BY <3>3, <4>1 DEF TypeOK
      <4>3. CASE step' = step /\ item' = item + 1
        BY <1>3, <3>2, <3>1, <4>2, <4>3, RankFacts DEF FenceInv, TypeOK
      <4>4. CASE step' # step /\ item = Len(FencingSteps)
        <5>1. old \notin restarted => ~StonithRequired
          BY <4>2, <4>4, FencingLen DEF StonithRequired
        <5>2. step' # "fence-old-primary"
          BY <1>3, <4>4
        <5> QED
          BY <3>1, <3>2, <5>1, <5>2 DEF FenceInv, StonithRequired
      <4>5. CASE step' = step /\ item = Len(FencingSteps) /\ item' # item + 1
        <5>1. item' \in 1..Len(FencingSteps)
          BY ExecType DEF TypeOK
        <5>2. 1..(item' - 1) \subseteq 1..item
          <6>1. \A len \in Nat : \A k \in 1..len : 1..(k - 1) \subseteq 1..len
            OBVIOUS
          <6> QED
            BY <4>5, <5>1, <6>1, FencingLen
        <5>3. \A i \in 1..(item' - 1) : old \notin restarted =>
                FencingSteps[i] # [kind |-> "stonith", required |-> TRUE]
          BY <4>2, <5>2
        <5> QED
          BY <1>3, <3>1, <3>2, <4>5, <5>3, RankFacts DEF FenceInv
      <4> QED
        BY <4>1, <4>3, <4>4, <4>5
    <3> QED
      BY <3>4, <3>5
  <2> QED
    BY <2>1, <2>2
<1> QED
  BY <1>1, <1>2, <1>3

(* The salvage of the binlogs is left for the next step only when all of them *)
(* were applied, unless availability comes first.                             *)
LEMMA BinlogOwn ==
  ASSUME TypeOK, PlanInv, BinlogInv, Required, Isolated, BinlogSalvageStep,
         original'.applied \/ step' # step
  PROVE  server[old].executed \subseteq server'[cand].executed
<1>1. /\ old \in Nodes /\ cand \in Nodes /\ server[cand] \in ServerStates
      /\ status = "running" /\ step = "recover-from-old-primary-binlog"
  BY DEF TypeOK, ServersTypeOK, Plans, old, cand, BinlogSalvageStep, GetReadOnlyState,
         DisableReadOnly, ApplyBinlogDump, EnableReadOnly, AtBinlog, At
<1>2. /\ BinlogFailed => step' = step
      /\ BinlogEnded => original.applied \/ step' = step
      /\ \A i \in 1..7 : GoTo(i) => step' = step
  BY DEF BinlogFailed, BinlogEnded, StepFailed, GoTo, progress
<1>3. original.applied => server[old].executed \subseteq server[cand].executed
  BY <1>1 DEF BinlogInv, Executing
<1>4. CASE GetReadOnlyState
  <2>1. server' = server
    BY <1>4 DEF GetReadOnlyState, serverVars
  <2>2. BinlogFailed \/ \E i \in 1..7 : GoTo(i)
    <3>1. BinlogFailed \/ GoTo(2) \/ GoTo(3) \/ GoTo(4)
      BY <1>4 DEF GetReadOnlyState
    <3> QED
      BY <3>1
  <2>3. original'.applied => original.applied
    BY <1>4 DEF GetReadOnlyState
  <2> QED
    BY <1>2, <1>3, <2>1, <2>2, <2>3
<1>5. CASE DisableReadOnly \/ EnableReadOnly
  <2>1. PICK s \in {SuperReadOnlyOn(server[cand]), ReadOnlyOn(server[cand]),
                     SuperReadOnlyOff(server[cand]), ReadOnlyOff(server[cand])} :
          /\ Executed(cand, s) \/ Errored(cand, s)
          /\ BinlogFailed \/ BinlogEnded \/ GoTo(3) \/ GoTo(4) \/ GoTo(6) \/ GoTo(7)
          /\ UNCHANGED original
    BY <1>5 DEF DisableReadOnly, EnableReadOnly, SetCandidate
  <2>2. s \in ServerStates /\ s.executed = server[cand].executed
    BY <1>1, <2>1, RecoveryStatements
  <2>3. server'[cand].executed = server[cand].executed
    BY <1>1, <2>1, <2>2, StatementOutcome DEF TypeOK, ServersTypeOK
  <2>4. original.applied
    BY <1>2, <2>1
  <2> QED
    BY <1>3, <2>3, <2>4
<1>6. CASE ApplyBinlogDump
  <2>1. PICK T \in SUBSET BinlogTrx, applied \in BOOLEAN :
          /\ applied => T = BinlogTrx
          /\ server' = [server EXCEPT ![cand] = Salvaged(@, T)]
          /\ original' = [original EXCEPT !.applied = applied]
          /\ GoTo(5) \/ (applied /\ StepCompleted(plan)) \/ BinlogFailed
    BY <1>6, Zenon DEF ApplyBinlogDump
  <2>2. original'.applied = applied
    BY <2>1 DEF TypeOK
  <2>3. T = BinlogTrx
    BY <1>2, <2>1, <2>2
  <2>4. server'[cand].executed = server[cand].executed \cup T
    BY <1>1, <2>1 DEF Salvaged, TypeOK, ServersTypeOK, ServerStates
  <2>5. plan.GTIDExecuted \subseteq server[cand].executed
    BY <1>1 DEF PlanInv, Executing
  <2> QED
    BY <2>3, <2>4, <2>5 DEF BinlogTrx
<1> QED
  BY <1>4, <1>5, <1>6 DEF BinlogSalvageStep

LEMMA BinlogStep ==
  ASSUME TypeOK, ScriptInv, PlanInv, BinlogInv, ExecOK,
         step = "recover-from-old-primary-binlog" => BinlogSalvageStep \/ Kill
  PROVE  BinlogInv'
<1>1. SUFFICES ASSUME Required
               PROVE  /\ Rank(step') < 3 => ~original'.applied
                      /\ Isolated' /\ \/ step' = "recover-from-old-primary-binlog" /\ original'.applied
                                      \/ Rank(step') > 3
                         => server'[old].executed \subseteq server'[cand].executed
  BY ExecFlow, RankFacts DEF BinlogInv, Required
<1>2. plan.Binlog /\ Executing
  BY <1>1, ExecFlow DEF PlanInv
<1>3. /\ Rank(step) < 3 => ~original.applied
      /\ Isolated /\ Rank(step) > 3 => server[old].executed \subseteq server[cand].executed
      /\ Isolated /\ step = "recover-from-old-primary-binlog" /\ original.applied
           => server[old].executed \subseteq server[cand].executed
  BY <1>1, <1>2, RankFacts DEF BinlogInv
<1>4. server[cand].executed \subseteq server'[cand].executed
  BY ExecFlow DEF ExecOK
<1>5. CASE step # "recover-from-old-primary-binlog"
  <2>1. original' = original
    BY <1>5 DEF ExecOK
  <2>2. Rank(step) # 3
    BY <1>5, RankOrder DEF TypeOK
  <2>3. Rank(step') > 3 => Rank(step) > 3
    BY <1>2, <2>2, ExecFlow
  <2>4. step' = "recover-from-old-primary-binlog" => ~original'.applied
    BY <1>3, <1>5, <2>1, ExecFlow, RankFacts
  <2>5. Rank(step) > 3 => step # "fence-old-primary"
    BY RankFacts
  <2>6. Rank(step) > 3 => /\ Isolated' => Isolated
                          /\ server'[old].executed = server[old].executed
    BY <2>5, ExecFlow DEF ExecOK, Isolated
  <2>7. Rank(step') < 3 => ~original'.applied
    BY <1>3, <2>1, ExecFlow
  <2>8. Isolated' /\ Rank(step') > 3 => server'[old].executed \subseteq server'[cand].executed
    BY <1>3, <1>4, <2>3, <2>6
  <2> QED
    BY <2>4, <2>7, <2>8, Zenon
<1>6. CASE step = "recover-from-old-primary-binlog"
  <2>1. Rank(step') >= 3
    BY <1>6, ExecFlow, RankFacts
  <2>2. Isolated' => Isolated /\ server'[old].executed = server[old].executed
    BY <1>6, ExecFlow DEF ExecOK, Isolated
  <2>3. CASE Kill
    <3>1. UNCHANGED <<step, original>>
      BY <2>3 DEF Kill, StepFailed, progress
    <3> QED
      BY <1>3, <1>4, <1>6, <2>1, <2>2, <3>1, RankFacts
  <2>4. CASE BinlogSalvageStep
    <3>1. ASSUME Isolated', original'.applied \/ step' # step
          PROVE  server'[old].executed \subseteq server'[cand].executed
      BY <1>1, <2>2, <2>4, <3>1, BinlogOwn
    <3>2. Rank(step') > 3 => step' # step
      BY <1>6, RankFacts
    <3>3. ~(Rank(step') < 3)
      BY <2>1, ExecFlow
    <3> QED
      BY <3>1, <3>2, <3>3, Zenon
  <2> QED
    BY <1>6, <2>3, <2>4
<1> QED
  BY <1>5, <1>6

(* A donor is left for the next only when the candidate has what it had.      *)
LEMMA DonorOwn ==
  ASSUME TypeOK, Required, DonorSalvage
  PROVE  \/ step' = step /\ todo' = todo
         \/ \E n \in todo : /\ plan.Missing[n] \subseteq server[cand].executed
                            /\ todo = {n} \/ (step' = step /\ todo' = todo \ {n})
<1>1. PICK n \in todo : DonorSkipped(n) \/ RepointToDonor(n) \/ WaitForDonor(n) \/ QuiesceChannel(n)
  BY DEF DonorSalvage
<1>2. /\ DonorFailed(n) => step' = step /\ todo' = todo
      /\ \A i : GoTo(i) => step' = step /\ todo' = todo
      /\ NextDonor(n) => todo = {n} \/ (step' = step /\ todo' = todo \ {n})
  BY DEF DonorFailed, NextDonor, StepFailed, GoTo, progress
<1>3. CASE DonorSkipped(n) \/ RepointToDonor(n) \/ QuiesceChannel(n)
  BY <1>2, <1>3 DEF DonorSkipped, RepointToDonor, QuiesceChannel, SetCandidate
<1>4. CASE WaitForDonor(n)
  BY <1>2, <1>4 DEF WaitForDonor
<1> QED
  BY <1>1, <1>3, <1>4

LEMMA DonorStep ==
  ASSUME TypeOK, ScriptInv, DonorInv, ExecOK,
         step = "recover-from-replica" => DonorSalvage \/ Kill
  PROVE  DonorInv'
<1>1. SUFFICES ASSUME Required
               PROVE  /\ step' = "recover-from-replica" =>
                           \A n \in Nodes \ todo' : plan.Missing[n] \subseteq server'[cand].executed
                      /\ Rank(step') > 4 =>
                           \A n \in Nodes : plan.Missing[n] \subseteq server'[cand].executed
  BY ExecFlow, RankFacts DEF DonorInv, Required
<1>2. /\ step = "recover-from-replica" =>
           \A n \in Nodes \ todo : plan.Missing[n] \subseteq server[cand].executed
      /\ Rank(step) > 4 => \A n \in Nodes : plan.Missing[n] \subseteq server[cand].executed
  BY <1>1, ExecFlow, RankFacts DEF DonorInv
<1>3. server[cand].executed \subseteq server'[cand].executed
  BY ExecFlow DEF ExecOK
<1>4. CASE step # "recover-from-replica"
  <2>1. Rank(step) # 4
    BY <1>4, RankOrder DEF TypeOK
  <2>2. step' = "recover-from-replica" => todo' = Donors(plan)
    BY <1>4, ExecFlow
  <2>3. Rank(step') > 4 => Rank(step) > 4 \/ Donors(plan) = {}
    BY <2>1, ExecFlow
  <2> QED
    BY <1>2, <1>3, <2>2, <2>3 DEF Donors
<1>5. CASE step = "recover-from-replica" /\ (Kill \/ (step' = step /\ todo' = todo))
  <2>1. step' = step /\ todo' = todo
    BY <1>5 DEF Kill, StepFailed, progress
  <2> QED
    BY <1>2, <1>3, <1>5, <2>1, RankFacts
<1>6. CASE step = "recover-from-replica" /\ DonorSalvage /\ ~(step' = step /\ todo' = todo)
  <2>1. PICK n \in todo : /\ plan.Missing[n] \subseteq server[cand].executed
                          /\ todo = {n} \/ (step' = step /\ todo' = todo \ {n})
    BY <1>1, <1>6, DonorOwn
  <2>2. CASE todo = {n}
    BY <1>2, <1>3, <1>6, <2>1, <2>2
  <2>3. CASE step' = step /\ todo' = todo \ {n}
    BY <1>2, <1>3, <1>6, <2>1, <2>3, RankFacts
  <2> QED
    BY <2>1, <2>2, <2>3
<1> QED
  BY <1>4, <1>5, <1>6

(* While the binlogs are applied the modes to be restored are remembered, and *)
(* the executor goes on only once they are restored.                          *)
LEMMA ClosingOwn ==
  ASSUME TypeOK, OpeningInv, Required, cand \notin restarted, BinlogSalvageStep, status' = "running"
  PROVE  \/ step' = step /\ stmt' # 1 /\ original'.readOnly /\ original'.superReadOnly
         \/ step' # step /\ Closed(server'[cand])
<1>1. /\ cand \in Nodes /\ server[cand] \in ServerStates
      /\ status = "running" /\ step = "recover-from-old-primary-binlog"
  BY DEF TypeOK, ServersTypeOK, Plans, cand, BinlogSalvageStep, GetReadOnlyState,
         DisableReadOnly, ApplyBinlogDump, EnableReadOnly, AtBinlog, At
<1>2. /\ StepCompleted(plan) => step' # step
      /\ ~BinlogFailed
      /\ \A i : GoTo(i) => step' = step /\ stmt' = i
  <2>1. StepCompleted(plan) => EnterAfter(step, plan)
    BY <1>1 DEF StepCompleted
  <2>2. StepCompleted(plan) => Rank(step') > Rank(step) /\ step' \in StepNames
    BY <2>1, EnterFacts
  <2>3. StepCompleted(plan) => step' # step
    BY <1>1, <2>2, RankFacts
  <2> QED
    BY <2>3 DEF BinlogFailed, StepFailed, GoTo
<1>3. IF stmt = 1 THEN Closed(server[cand]) ELSE original.readOnly /\ original.superReadOnly
  BY <1>1 DEF OpeningInv, At
<1>4. CASE GetReadOnlyState
  BY <1>2, <1>3, <1>4 DEF GetReadOnlyState, AtBinlog, Closed
<1>5. CASE DisableReadOnly
  <2>1. (GoTo(3) \/ GoTo(4) \/ GoTo(7)) /\ stmt # 1 /\ original' = original
    BY <1>2, <1>5 DEF DisableReadOnly, SetCandidate, AtBinlog
  <2> QED
    BY <1>2, <1>3, <2>1
<1>6. CASE ApplyBinlogDump
  <2>1. PICK applied \in BOOLEAN :
          /\ stmt = 4 /\ original' = [original EXCEPT !.applied = applied]
          /\ original.readOnly => GoTo(5)
    BY <1>6, Zenon DEF ApplyBinlogDump, AtBinlog
  <2>2. original'.readOnly = original.readOnly /\ original'.superReadOnly = original.superReadOnly
    BY <2>1 DEF TypeOK
  <2> QED
    BY <1>2, <1>3, <2>1, <2>2
<1>7. CASE EnableReadOnly
  <2>1. stmt # 1 /\ original.superReadOnly /\ original' = original
    BY <1>3, <1>7 DEF EnableReadOnly, AtBinlog, SetCandidate
  <2>2. GoTo(6) \/ (Executed(cand, SuperReadOnlyOn(server[cand])) /\ BinlogEnded)
    BY <1>2, <1>7, <2>1 DEF EnableReadOnly, SetCandidate
  <2>3. Executed(cand, SuperReadOnlyOn(server[cand])) => Closed(server'[cand])
    BY <1>1 DEF Executed, SuperReadOnlyOn, Closed, TypeOK, ServersTypeOK, ServerStates
  <2>4. BinlogEnded => step' # step
    BY <1>2 DEF BinlogEnded
  <2> QED
    BY <1>2, <1>3, <2>1, <2>2, <2>3, <2>4
<1> QED
  BY <1>4, <1>5, <1>6, <1>7 DEF BinlogSalvageStep

(* The promotion opens the candidate by its last two statements only, and     *)
(* ends after the last.                                                       *)
LEMMA PromoteOwn ==
  ASSUME TypeOK, PromoteCandidate, status' = "running"
  PROVE  \/ /\ step' = step /\ stmt' = stmt + 1
            /\ stmt' <= 3 => SameModes(server'[cand], server[cand])
         \/ step' # step /\ ~server'[cand].readOnly
<1>1. /\ cand \in Nodes /\ server[cand] \in ServerStates /\ stmt \in 1..7
      /\ status = "running" /\ step = "promote-candidate"
  BY DEF TypeOK, ServersTypeOK, Plans, cand, PromoteCandidate, At
<1>2. /\ Executed(cand, PromoteStatement(stmt, server[cand]))
      /\ IF stmt = 4 THEN StepCompleted(plan) ELSE GoTo(stmt + 1)
  BY DEF PromoteCandidate, SetCandidate, StepFailed
<1>3. server'[cand] = PromoteStatement(stmt, server[cand])
  BY <1>1, <1>2 DEF Executed, TypeOK, ServersTypeOK
<1>4. CASE stmt = 4
  <2>1. EnterAfter(step, plan)
    BY <1>1, <1>2, <1>4 DEF StepCompleted
  <2>2. step' # step
    BY <1>1, <2>1, EnterFacts, RankFacts
  <2>3. ~server'[cand].readOnly
    <3>1. PromoteStatement(4, server[cand]) = ReadOnlyOff(server[cand])
      BY DEF PromoteStatement
    <3>2. ~ReadOnlyOff(server[cand]).readOnly
      BY <1>1 DEF ReadOnlyOff, ServerStates
    <3> QED
      BY <1>3, <1>4, <3>1, <3>2
  <2> QED
    BY <2>2, <2>3
<1>5. CASE stmt # 4
  <2>1. step' = step /\ stmt' = stmt + 1
    BY <1>2, <1>5 DEF GoTo
  <2>2. stmt' <= 3 => stmt = 1 \/ stmt = 2
    BY <1>1, <2>1
  <2>3. stmt = 1 \/ stmt = 2 => SameModes(server'[cand], server[cand])
    BY <1>1, <1>3, RecoveryStatements DEF PromoteStatement
  <2> QED
    BY <2>1, <2>2, <2>3
<1> QED
  BY <1>4, <1>5

LEMMA ClosedStep ==
  ASSUME TypeOK, ScriptInv, PlanInv, OpeningInv, ClosedUntilPromoted, ExecOK,
         step = "recover-from-old-primary-binlog" => BinlogSalvageStep \/ Kill,
         step = "promote-candidate" => PromoteCandidate \/ Kill
  PROVE  OpeningInv' /\ ClosedUntilPromoted'
<1>1. SUFFICES ASSUME Required, cand \notin restarted', status' = "running", Rank(step') <= 5
               PROVE  /\ step' = "recover-from-old-primary-binlog" =>
                           IF stmt' = 1 THEN Closed(server'[cand])
                           ELSE original'.readOnly /\ original'.superReadOnly
                      /\ /\ step' # "recover-from-old-primary-binlog"
                         /\ Rank(step') < 5 \/ (step' = "promote-candidate" /\ stmt' <= 3)
                         => Closed(server'[cand])
  BY ExecFlow, RankFacts DEF OpeningInv, ClosedUntilPromoted, At, Closed, Required
<1>2. step # "verify-cluster" /\ Rank(step) <= 5 /\ Executing /\ ~Kill
  BY <1>1, ExecFlow, RankFacts DEF Kill, StepFailed
<1>3. old # cand /\ status = "running"
  BY <1>2 DEF PlanInv, ExecOK
<1>4. cand \notin restarted
  BY <1>1, <1>2, <1>3 DEF ExecOK
<1>5. CASE step = "recover-from-old-primary-binlog"
  BY <1>1, <1>2, <1>4, <1>5, ClosingOwn
<1>6. CASE step = "promote-candidate"
  <2>1. /\ step' # "recover-from-old-primary-binlog"
        /\ step' # step => ~(Rank(step') < 5) /\ step' # "promote-candidate"
    BY <1>6, ExecFlow, RankFacts
  <2>2. step' = step =>
          stmt' = stmt + 1 /\ (stmt' <= 3 => SameModes(server'[cand], server[cand]))
    BY <1>1, <1>2, <1>6, PromoteOwn
  <2>3. stmt <= 3 => Closed(server[cand])
    BY <1>1, <1>3, <1>4, <1>6 DEF ClosedUntilPromoted, At, Closed
  <2>4. step' = step /\ stmt' <= 3 => Closed(server'[cand])
    BY <2>2, <2>3 DEF Closed, SameModes, TypeOK
  <2> QED
    BY <1>6, <2>1, <2>4, RankFacts
<1>7. CASE step \notin {"recover-from-old-primary-binlog", "promote-candidate"}
  <2>1. Rank(step) < 5
    BY <1>2, <1>7, RankOrder DEF TypeOK
  <2>2. Closed(server[cand])
    BY <1>1, <1>3, <1>4, <1>7, <2>1, RankFacts DEF ClosedUntilPromoted, Closed
  <2>3. Closed(server'[cand])
    <3>1. CASE step = "fence-old-primary"
      BY <1>3, <2>2, <3>1, ExecFlow DEF ExecOK
    <3>2. CASE step # "fence-old-primary"
      BY <1>7, <2>2, <3>2, ExecFlow DEF ExecOK, SameModes, Closed
    <3> QED
      BY <3>1, <3>2
  <2>4. step' = "recover-from-old-primary-binlog" => stmt' = 1
    BY <1>7, ExecFlow
  <2> QED
    BY <2>3, <2>4
<1> QED
  BY <1>5, <1>6, <1>7

LEMMA VerifyOwn ==
  ASSUME TypeOK, old # cand, VerifyInv, VerifyCluster, status' \in {"running", "succeeded"}
  PROVE  \/ /\ stmt = 1 /\ PromotedOK(server[cand]) /\ restarted' = restarted \ {cand}
            /\ \/ status' = "running" /\ stmt' = 2 /\ UNCHANGED <<step, todo>>
               \/ status' = "succeeded" /\ todo = {} /\ UNCHANGED <<step, todo>>
         \/ \E n \in todo :
              /\ stmt = 2 /\ n # cand /\ restarted' = restarted \ {n}
              /\ server[n].source = cand /\ server[n].running
              /\ \/ status' = "running" /\ todo' = todo \ {n} /\ UNCHANGED <<step, stmt>>
                 \/ status' = "succeeded" /\ todo = {n} /\ UNCHANGED <<step, todo>>
<1>1. status = "running" /\ step = "verify-cluster"
  BY DEF VerifyCluster, At
<1>2. StepCompleted(plan) => status' = "succeeded" /\ UNCHANGED <<step, todo>>
  BY <1>1 DEF StepCompleted, progress
<1>3. ~StepFailed
  BY DEF StepFailed
<1>4. CASE /\ stmt = 1 /\ VerifyNode(cand, PromotedOK(server[cand]),
                             IF todo = {} THEN StepCompleted(plan) ELSE GoTo(2))
  BY <1>1, <1>2, <1>3, <1>4 DEF VerifyNode, GoTo
<1>5. CASE stmt = 2 /\ \E n \in todo : VerifyNode(n, Follows(n, cand),
                  IF todo = {n} THEN StepCompleted(plan)
                  ELSE todo' = todo \ {n} /\ UNCHANGED <<step, stmt, item, status>>)
  <2>1. PICK n \in todo : VerifyNode(n, Follows(n, cand),
                  IF todo = {n} THEN StepCompleted(plan)
                  ELSE todo' = todo \ {n} /\ UNCHANGED <<step, stmt, item, status>>)
    BY <1>5
  <2>2. n # cand
    BY <1>1 DEF VerifyInv, Executing, Verifiable, cand
  <2> QED
    BY <1>1, <1>2, <1>3, <1>5, <2>1, <2>2 DEF VerifyNode, Follows
<1> QED
  BY <1>4, <1>5 DEF VerifyCluster

(* What was verified stays so: nothing changes the servers meanwhile but      *)
(* clients, replication and faults.                                           *)
LEMMA VerifyStep ==
  ASSUME TypeOK, ScriptInv, PlanInv, OpenInv, VerifyInv, ExecOK,
         step = "verify-cluster" => VerifyCluster \/ Kill
  PROVE  VerifyInv' /\ SucceededTopology'
<1>1. old # cand /\ Executing /\ status = "running"
  BY ExecFlow DEF PlanInv, ExecOK
<1>2. CASE step # "verify-cluster"
  <2>1. status' # "succeeded"
    BY <1>2, ExecFlow
  <2>2. step' = "verify-cluster" => stmt' = 1 /\ todo' = Verifiable(plan')
    BY <1>2, ExecFlow
  <2> QED
    BY <2>1, <2>2 DEF VerifyInv, SucceededTopology
<1>3. CASE step = "verify-cluster"
  <2>1. plan' = plan /\ server' = server /\ cand' = cand
    BY <1>3, ExecFlow DEF ExecOK
  <2>2. Verifiable(plan') = Verifiable(plan) /\ cand \notin Verifiable(plan)
    BY <2>1 DEF Verifiable, cand
  <2>3. /\ todo \subseteq Verifiable(plan)
        /\ stmt = 2 /\ cand \notin restarted => PromotedOK(server[cand])
        /\ \A n \in Verifiable(plan) \ (todo \cup restarted) :
             server[n].source = cand /\ server[n].running
    BY <1>1, <1>3 DEF VerifyInv
  <2>4. CASE Kill \/ status' = "failed"
    <3>1. status' = "failed" /\ UNCHANGED <<step, stmt, todo>> /\ restarted' = restarted
      <4>1. CASE Kill
        BY <4>1 DEF Kill, StepFailed, progress
      <4>2. CASE VerifyCluster /\ status' = "failed"
        <5>1. ~StepCompleted(plan)
          BY <1>3, <4>2 DEF StepCompleted
        <5>2. \A i : ~GoTo(i)
          BY <1>1, <4>2 DEF GoTo
        <5>3. ~(UNCHANGED <<step, stmt, item, status>>)
          BY <1>1, <4>2
        <5>4. StepFailed /\ UNCHANGED restarted
          BY <4>2, <5>1, <5>2, <5>3 DEF VerifyCluster, VerifyNode
        <5> QED
          BY <4>2, <5>4 DEF StepFailed, progress
      <4> QED
        BY <1>3, <2>4, <4>1, <4>2
    <3> QED
      BY <2>1, <2>2, <2>3, <3>1 DEF VerifyInv, SucceededTopology
  <2>5. CASE VerifyCluster /\ status' # "failed"
    <3>1. status' \in {"running", "succeeded"}
      BY <2>5, ExecFlow DEF Executing
    <3>2. CASE /\ stmt = 1 /\ PromotedOK(server[cand]) /\ restarted' = restarted \ {cand}
               /\ \/ status' = "running" /\ stmt' = 2 /\ UNCHANGED <<step, todo>>
                  \/ status' = "succeeded" /\ todo = {} /\ UNCHANGED <<step, todo>>
      BY <2>1, <2>2, <2>3, <3>2 DEF VerifyInv, SucceededTopology
    <3>3. ASSUME NEW n \in todo,
                 stmt = 2 /\ n # cand /\ restarted' = restarted \ {n},
                 server[n].source = cand /\ server[n].running,
                 \/ status' = "running" /\ todo' = todo \ {n} /\ UNCHANGED <<step, stmt>>
                 \/ status' = "succeeded" /\ todo = {n} /\ UNCHANGED <<step, todo>>
          PROVE  VerifyInv' /\ SucceededTopology'
      <4>1. cand \notin restarted' => PromotedOK(server'[cand])
        BY <2>1, <2>3, <3>3
      <4>2. \A m \in Verifiable(plan) \ ((todo \ {n}) \cup restarted') :
              server'[m].source = cand /\ server'[m].running
        BY <2>1, <2>3, <3>3
      <4>3. CASE status' = "running" /\ todo' = todo \ {n} /\ UNCHANGED <<step, stmt>>
        BY <2>1, <2>2, <2>3, <4>1, <4>2, <4>3 DEF VerifyInv, SucceededTopology
      <4>4. CASE status' = "succeeded" /\ todo = {n} /\ UNCHANGED <<step, todo>>
        BY <2>1, <2>2, <2>3, <4>1, <4>2, <4>4 DEF VerifyInv, SucceededTopology
      <4> QED
        BY <3>3, <4>3, <4>4
    <3> QED
      BY <1>1, <2>5, <3>1, <3>2, <3>3, VerifyOwn
  <2> QED
    BY <1>3, <2>4, <2>5
<1> QED
  BY <1>2, <1>3

LEMMA OpenStep ==
  ASSUME TypeOK, ScriptInv, PlanInv, OpenInv, VerifyInv, ExecOK,
         step = "promote-candidate" => PromoteCandidate \/ Kill,
         step = "verify-cluster" => VerifyCluster \/ Kill
  PROVE  OpenInv'
<1>1. SUFFICES ASSUME Rank(step') > 5, cand \notin restarted'
               PROVE  ~server'[cand].readOnly
  BY ExecFlow, RankFacts DEF OpenInv
<1>2. old # cand /\ Executing /\ status = "running" /\ cand \in Nodes
  BY ExecFlow DEF PlanInv, ExecOK
<1>3. CASE step = "promote-candidate"
  <2>1. step' # step /\ status' = "running"
    BY <1>1, <1>3, ExecFlow, RankFacts
  <2>2. ~Kill
    BY <2>1 DEF Kill, StepFailed
  <2> QED
    BY <1>3, <2>1, <2>2, PromoteOwn
<1>4. CASE step = "verify-cluster"
  <2>1. server' = server
    BY <1>4 DEF ExecOK
  <2>2. cand \notin restarted => ~server[cand].readOnly
    BY <1>2, <1>4, RankFacts DEF OpenInv
  <2>3. ASSUME cand \in restarted PROVE ~server[cand].readOnly
    <3>1. restarted' # restarted
      BY <1>1, <2>3
    <3>2. VerifyCluster
      BY <1>4, <3>1 DEF Kill
    <3>3. PICK n \in todo \cup {cand} :
            restarted' = restarted \ {n} /\ (n = cand => PromotedOK(server[cand]) \/ n \in todo)
      BY <3>1, <3>2 DEF VerifyCluster, VerifyNode
    <3>4. cand \notin todo
      BY <1>2, <1>4 DEF VerifyInv, Verifiable, cand
    <3> QED
      BY <1>1, <2>3, <3>3, <3>4 DEF PromotedOK
  <2> QED
    BY <2>1, <2>2, <2>3
<1>5. CASE step \notin {"promote-candidate", "verify-cluster"}
  <2>1. Rank(step) > 5
    BY <1>1, <1>5, ExecFlow, RankOrder DEF TypeOK
  <2>2. cand \notin restarted
    BY <1>1, <1>2, <1>5 DEF ExecOK
  <2>3. SameModes(server'[cand], server[cand])
    BY <1>2, <1>5, <2>1, RankFacts DEF ExecOK
  <2> QED
    BY <1>2, <2>1, <2>2, <2>3, RankFacts DEF OpenInv, SameModes
<1> QED
  BY <1>3, <1>4, <1>5

(* The executor as a whole. *)
LEMMA ExecutionStep ==
  ASSUME IInv, Execution \/ Kill
  PROVE  IInv'
<1>1. /\ TypeOK /\ ScriptInv /\ DownInv /\ ViewInv /\ PlanInv /\ FenceInv
      /\ BinlogInv /\ DonorInv /\ OpeningInv /\ ClosedUntilPromoted
      /\ OpenInv /\ VerifyInv
  BY DEF IInv
<1>2. ExecOK
  BY ExecutionExec, IInvWellFormed
<1>3. /\ step = "fence-old-primary" => Fence \/ Kill
      /\ step = "recover-from-old-primary-binlog" => BinlogSalvageStep \/ Kill
      /\ step = "recover-from-replica" => DonorSalvage \/ Kill
      /\ step = "promote-candidate" => PromoteCandidate \/ Kill
      /\ step = "verify-cluster" => VerifyCluster \/ Kill
  <2>1. Fence => step = "fence-old-primary"
    BY DEF Fence, FenceSkipped, FenceReadOnly, FenceLost, Stonith, OtherFence, Fencing, At
  <2>2. BinlogSalvageStep => step = "recover-from-old-primary-binlog"
    BY DEF BinlogSalvageStep, GetReadOnlyState, DisableReadOnly, ApplyBinlogDump, EnableReadOnly,
           AtBinlog, At
  <2>3. DonorSalvage => step = "recover-from-replica"
    BY DEF DonorSalvage, DonorSkipped, RepointToDonor, WaitForDonor, QuiesceChannel, AtDonor, At
  <2>4. /\ PrecheckWriterEndpoint => step = "precheck-writer-endpoint"
        /\ PromoteCandidate => step = "promote-candidate"
        /\ RepointReplicas => step = "repoint-replicas"
        /\ SwitchWriterEndpoint => step = "switch-writer-endpoint"
        /\ VerifyWriterEndpoint => step = "verify-writer-endpoint"
        /\ VerifyCluster => step = "verify-cluster"
    BY DEF PrecheckWriterEndpoint, PromoteCandidate, RepointReplicas, SwitchWriterEndpoint,
           VerifyWriterEndpoint, VerifyCluster, At
  <2> QED
    BY <2>1, <2>2, <2>3, <2>4 DEF Execution
<1>4. TypeOK' /\ ScriptInv' /\ DownInv'
  BY <1>1, <1>2, ExecType DEF ExecOK
<1>5. ViewInv' /\ PlanInv'
  BY <1>1, <1>2, PlanStep
<1>6. FenceInv'
  BY <1>1, <1>2, <1>3, FenceStep
<1>7. BinlogInv'
  BY <1>1, <1>2, <1>3, BinlogStep
<1>8. DonorInv'
  BY <1>1, <1>2, <1>3, DonorStep
<1>9. OpeningInv' /\ ClosedUntilPromoted'
  BY <1>1, <1>2, <1>3, ClosedStep
<1>10. OpenInv'
  BY <1>1, <1>2, <1>3, OpenStep
<1>11. VerifyInv' /\ SucceededTopology'
  BY <1>1, <1>2, <1>3, VerifyStep
<1> QED
  BY <1>4, <1>5, <1>6, <1>7, <1>8, <1>9, <1>10, <1>11 DEF IInv

-----------------------------------------------------------------------------
(* The inductive invariant over a step of the environment. *)

(* Clients, replication and faults leave the servers that were not restarted  *)
(* in their modes and channels, and those that are down as they are.          *)
EnvOK ==
  /\ UNCHANGED <<step, stmt, item, todo, view, plan, original, endpoint, status, runs, isolated>>
  /\ restarted \subseteq restarted' /\ restarted' \subseteq Nodes
  /\ ServersTypeOK' /\ DownInv'
  /\ \A n \in Nodes : server[n].executed \subseteq server'[n].executed
  /\ \A n \in Nodes \ restarted' :
       /\ Alike(server'[n], server[n])
       /\ ~server[n].up => ~server'[n].up /\ server'[n].executed = server[n].executed

LEMMA EnvironmentOK == ASSUME TypeOK, DownInv, Environment PROVE EnvOK
<1> USE DEF TypeOK
<1>1. CASE (Clients \/ Replication) /\ UNCHANGED failoverVars
  <2>1. UNCHANGED <<step, stmt, item, todo, view, plan, original, endpoint, status, runs, isolated, restarted>>
    BY <1>1 DEF failoverVars, progress
  <2>2. ServersTypeOK'
    BY <1>1, ClientsType, ReplicationType
  <2> QED
    BY <1>1, <2>1, <2>2, TrafficFrame DEF EnvOK, Alike
<1>2. ASSUME NEW n \in Nodes, Crash(n), UNCHANGED failoverVars
      PROVE  EnvOK
  <2>1. UNCHANGED <<step, stmt, item, todo, view, plan, original, endpoint, status, runs, isolated, restarted>>
    BY <1>2 DEF failoverVars, progress
  <2>2. ServersTypeOK'
    BY <1>2, FaultsType
  <2>3. GoDown(n) /\ server[n].up
    BY <1>2 DEF Crash
  <2>4. /\ \A m \in Nodes \ {n} : server'[m] = server[m]
        /\ Alike(server'[n], server[n]) /\ DownInv'
    BY <2>3, GoDownType
  <2>5. \A m \in Nodes : Alike(server'[m], server[m])
    BY <2>4 DEF Alike
  <2>6. \A m \in Nodes : ~server[m].up => server'[m] = server[m]
    BY <2>3, <2>4
  <2> QED
    BY <2>1, <2>2, <2>4, <2>5, <2>6 DEF EnvOK, Alike
<1>3. ASSUME NEW n \in Nodes, Recover(n), restarted' = restarted \cup {n},
             UNCHANGED <<progress, view, plan, original, endpoint, status, runs, isolated>>
      PROVE  EnvOK
  <2>1. UNCHANGED <<step, stmt, item, todo, view, plan, original, endpoint, status, runs, isolated>>
    BY <1>3 DEF progress
  <2>2. ServersTypeOK'
    BY <1>3, FaultsType
  <2>3. /\ \A m \in Nodes \ {n} : server'[m] = server[m]
        /\ server'[n].executed = server[n].executed /\ DownInv'
    BY <1>3, RecoverFrame
  <2> QED
    BY <1>3, <2>1, <2>2, <2>3 DEF EnvOK, Alike
<1> QED
  BY <1>1, <1>2, <1>3 DEF Environment

LEMMA EnvironmentWellFormed == ASSUME WellFormed, Environment PROVE WellFormed'
<1>1. EnvOK
  BY EnvironmentOK DEF WellFormed
<1>2. TypeOK' /\ ScriptInv' /\ DownInv'
  BY <1>1 DEF WellFormed, EnvOK, TypeOK, ScriptInv
<1> QED
  BY <1>1, <1>2 DEF WellFormed, EnvOK, Executing, old, cand, Verifiable

LEMMA EnvironmentStep == ASSUME IInv, Environment PROVE IInv'
<1>1. /\ TypeOK /\ ScriptInv /\ DownInv /\ ViewInv /\ PlanInv /\ FenceInv
      /\ BinlogInv /\ DonorInv /\ OpeningInv /\ ClosedUntilPromoted
      /\ OpenInv /\ VerifyInv /\ SucceededTopology
  BY DEF IInv
<1>2. EnvOK
  BY <1>1, EnvironmentOK
<1>3. /\ UNCHANGED <<step, stmt, item, todo, view, plan, original, status, isolated>>
      /\ old' = old /\ cand' = cand /\ old \in Nodes /\ cand \in Nodes
      /\ (Executing' <=> Executing)
  BY <1>1, <1>2 DEF EnvOK, old, cand, Executing, TypeOK, Plans
<1>4. \A n \in Nodes : n \notin restarted' => n \notin restarted /\ Alike(server'[n], server[n])
  BY <1>2 DEF EnvOK
<1>5. \A n \in Nodes : server[n].executed \subseteq server'[n].executed
  BY <1>2 DEF EnvOK
<1>6. Executing /\ Isolated' =>
        Isolated /\ server'[old].executed = server[old].executed /\ ~server'[old].up
  BY <1>1, <1>2, <1>3, <1>4 DEF EnvOK, Isolated, FenceInv
<1>7. TypeOK' /\ ScriptInv' /\ DownInv'
  BY <1>1, <1>2, <1>3 DEF EnvOK, TypeOK, ScriptInv
<1>8. ViewInv'
  BY <1>1, <1>3, <1>4, <1>5 DEF ViewInv, Alike, Closed
<1>9. PlanInv'
  BY <1>1, <1>3, <1>5 DEF PlanInv
<1>10. FenceInv'
  <2>1. old \notin restarted' /\ ~server[old].up => ~server'[old].up
    BY <1>2, <1>3 DEF EnvOK
  <2> QED
    BY <1>1, <1>3, <1>4, <1>6, <2>1 DEF FenceInv, StonithRequired
<1>11. BinlogInv'
  BY <1>1, <1>3, <1>5, <1>6 DEF BinlogInv, Required
<1>12. DonorInv'
  BY <1>1, <1>3, <1>5 DEF DonorInv, Required
<1>13. OpeningInv' /\ ClosedUntilPromoted'
  BY <1>1, <1>3, <1>4 DEF OpeningInv, ClosedUntilPromoted, Required, At, Alike, Closed
<1>14. OpenInv'
  BY <1>1, <1>3, <1>4 DEF OpenInv, Alike
<1>15. VerifyInv' /\ SucceededTopology'
  <2>1. Verifiable(plan') = Verifiable(plan) /\ Verifiable(plan) \subseteq Nodes
    BY <1>3 DEF Verifiable, Repointable
  <2>2. cand \notin restarted' => cand \notin restarted
                               /\ (PromotedOK(server[cand]) => PromotedOK(server'[cand]))
    BY <1>3, <1>4 DEF PromotedOK, Alike
  <2>3. \A n \in Nodes \ restarted' : n \notin restarted /\ server'[n].source = server[n].source
                                   /\ server'[n].running = server[n].running
    BY <1>4 DEF Alike
  <2> QED
    BY <1>1, <1>3, <2>1, <2>2, <2>3 DEF VerifyInv, SucceededTopology
<1> QED
  BY <1>7, <1>8, <1>9, <1>10, <1>11, <1>12, <1>13, <1>14, <1>15 DEF IInv

-----------------------------------------------------------------------------
(* The inductive invariant over planning. *)

(* What it means that nothing blocks a plan: the primary is dead in the view, *)
(* the candidate is reachable and closed, and unless availability comes       *)
(* first, the binlogs of the old primary can be had.                          *)
LEMMA NothingBlocks ==
  ASSUME NEW o, NEW c, BlockingReasons(o, c) = {}
  PROVE  /\ view[o].health = "dead" /\ view[c].health # "dead" /\ ~Writable(view[c])
         /\ UnknownLoss(o) => o \in SSHSalvage /\ view[c].gtid # {}
<1>1. /\ "primary_failure_not_confirmed" \notin BlockingReasons(o, c)
      /\ "candidate_unreachable" \notin BlockingReasons(o, c)
      /\ "writable_before_promotion" \notin BlockingReasons(o, c)
      /\ "ssh_not_configured" \notin BlockingReasons(o, c)
      /\ "no_candidate_gtid" \notin BlockingReasons(o, c)
  OBVIOUS
<1>2. view[o].health = "dead"
  BY <1>1 DEF BlockingReasons
<1>3. view[c].health # "dead"
  BY <1>1 DEF BlockingReasons
<1>4. ~Writable(view[c])
  BY <1>1 DEF BlockingReasons
<1>5. UnknownLoss(o) => o \in SSHSalvage
  BY <1>1 DEF BlockingReasons
<1>6. UnknownLoss(o) /\ o \in SSHSalvage => view[c].gtid # {}
  BY <1>1 DEF BlockingReasons
<1> QED
  BY <1>2, <1>3, <1>4, <1>5, <1>6

LEMMA ReasonsType ==
  ASSUME NEW o, NEW c PROVE BlockingReasons(o, c) \subseteq Reasons
<1>1. ChannelErrors(view, o, c) \subseteq Reasons
  BY DEF ChannelErrors, Reasons
<1>2. NodeErrors(view, o, c) \subseteq Reasons
  <2>1. {"replica_missing_state"} \subseteq Reasons
    BY DEF Reasons
  <2> QED
    BY <1>1, <2>1 DEF NodeErrors, ReplicaErrors
<1>3. SemiSyncErrors(view, o) \subseteq Reasons
  <2>1. {"semisync_required_but_disabled", "semisync_replica_shortfall"} \subseteq Reasons
    BY DEF Reasons
  <2> QED
    BY <2>1, Zenon DEF SemiSyncErrors
<1>4. AssessmentErrors(o, c) \subseteq Reasons
  BY <1>2, <1>3 DEF AssessmentErrors
<1>5. BlockingReasons(o, c) \ AssessmentErrors(o, c) \subseteq Reasons
  BY DEF BlockingReasons, Reasons
<1> QED
  BY <1>4, <1>5

LEMMA PlanType ==
  ASSUME TypeOK, Discovered, NEW o \in Nodes, NEW c \in Nodes
  PROVE  Plan(o, c) \in Plans
<1>1. \A n \in Nodes : view[n] \in NodeStates
  BY DEF TypeOK, Discovered
<1>2. \A n \in Nodes : RecoveryGap(o, c, n) \subseteq Trx
  BY <1>1 DEF RecoveryGap, NodeStates
<1>3. BinlogSalvage(o, c) \in BOOLEAN
  BY DEF BinlogSalvage
<1>4. view[c].gtid \subseteq Trx
  BY <1>1 DEF NodeStates
<1>5. BlockingReasons(o, c) \in SUBSET Reasons
  BY ReasonsType
<1> QED
  BY <1>2, <1>3, <1>4, <1>5 DEF Plan, Plans, Repointable

LEMMA RunType == ASSUME TypeOK, Run PROVE TypeOK'
<1>1. UNCHANGED <<server, trx, crashes, step, stmt, item, todo, view, restarted>> /\ status' = "planning"
  BY DEF Run, serverVars, progress
<1>2. runs' \in 0..MaxRuns
  BY FailoverAssumption DEF Run, TypeOK
<1>3. ServersTypeOK'
  BY <1>1 DEF TypeOK, ServersTypeOK
<1> QED
  BY <1>1, <1>2, <1>3 DEF Run, TypeOK, Plans

LEMMA InspectType ==
  ASSUME TypeOK, NEW n \in Nodes, Inspect(n)
  PROVE  /\ TypeOK'
         /\ \E seen \in Inspections(n) :
              /\ view'[n] = seen /\ seen \in NodeStates
              /\ \A m \in Nodes \ {n} : view'[m] = view[m]
<1>1. UNCHANGED <<server, trx, crashes, step, stmt, item, todo>> /\ status' = "planning"
  BY DEF Inspect, serverVars, progress
<1>2. PICK seen \in Inspections(n) : view' = [view EXCEPT ![n] = seen]
  BY DEF Inspect
<1>3. seen \in NodeStates
  BY InspectionType DEF TypeOK
<1>4. ServersTypeOK'
  BY <1>1 DEF TypeOK, ServersTypeOK
<1>5. TypeOK'
  BY <1>1, <1>2, <1>3, <1>4 DEF Inspect, TypeOK, Plans
<1>6. view'[n] = seen /\ \A m \in Nodes \ {n} : view'[m] = view[m]
  BY <1>2 DEF TypeOK
<1> QED
  BY <1>3, <1>5, <1>6

LEMMA PlanRefusedType == ASSUME TypeOK, PlanRefused PROVE TypeOK'
<1>1. UNCHANGED <<server, trx, crashes, step, stmt, item, todo>> /\ status' = "refused"
  BY DEF PlanRefused, serverVars, progress
<1>2. ServersTypeOK'
  BY <1>1 DEF TypeOK, ServersTypeOK
<1> QED
  BY <1>1, <1>2 DEF PlanRefused, TypeOK, Plans

(* A plan is blocked, or its execution starts no later than with the fence.   *)
LEMMA BuildPlanType ==
  ASSUME TypeOK, NEW o \in Nodes, NEW c \in Nodes, BuildPlan(o, c)
  PROVE  /\ TypeOK'
         /\ UNCHANGED <<server, trx, crashes, endpoint, runs, restarted>>
         /\ \A n \in Nodes : view[n] # Unseen /\ view'[n] = Unseen
         /\ plan' = Plan(o, c) /\ original' = Untouched /\ isolated' = ~server[o].up
         /\ \/ status' = "blocked" /\ step' = "none"
            \/ /\ BlockingReasons(o, c) = {} /\ status' = "running"
               /\ step' \in {"precheck-writer-endpoint", "fence-old-primary"}
               /\ stmt' = 1 /\ item' = 1
<1>1. /\ UNCHANGED <<server, trx, crashes, endpoint, runs, restarted>>
      /\ plan' = Plan(o, c) /\ original' = Untouched /\ isolated' = ~server[o].up
      /\ view' = [n \in Nodes |-> Unseen]
      /\ Discovered
  BY DEF BuildPlan, serverVars
<1>2. Plan(o, c) \in Plans
  BY <1>1, PlanType
<1>3. /\ ServersTypeOK' /\ plan' \in Plans /\ view' \in [Nodes -> NodeStates \cup {Unseen}]
      /\ original' \in [readOnly : BOOLEAN, superReadOnly : BOOLEAN, applied : BOOLEAN]
      /\ endpoint' \in Nodes /\ runs' \in 0..MaxRuns /\ restarted' \subseteq Nodes
  BY <1>1, <1>2 DEF TypeOK, ServersTypeOK, Untouched
<1>4. isolated' \in BOOLEAN
  BY <1>1 DEF TypeOK, ServersTypeOK, ServerStates
<1>5. /\ step' \in StepNames \cup {"none"} /\ stmt' = 1 /\ item' = 1 /\ todo' = {}
      /\ \/ status' = "blocked" /\ step' = "none"
         \/ /\ BlockingReasons(o, c) = {} /\ status' = "running"
            /\ step' \in {"precheck-writer-endpoint", "fence-old-primary"}
  <2>1. CASE BlockingReasons(o, c) # {}
    BY <2>1 DEF BuildPlan
  <2>2. CASE BlockingReasons(o, c) = {}
    <3>1. status' = "running" /\ EnterAfter("none", Plan(o, c))
      BY <2>2 DEF BuildPlan
    <3> QED
      BY <2>2, <3>1, EnterFacts, RankFacts DEF StepNames
  <2> QED
    BY <2>1, <2>2
<1>6. TypeOK'
  BY <1>3, <1>4, <1>5, FencingLen DEF TypeOK
<1>7. \A n \in Nodes : view[n] # Unseen /\ view'[n] = Unseen
  BY <1>1 DEF Discovered
<1> QED
  BY <1>1, <1>5, <1>6, <1>7

(* Planning leaves the executor well-formed: a node that is to be replaced is *)
(* dead in the view, the one that replaces it is not.                         *)
LEMMA PlanningWellFormed == ASSUME WellFormed, Run \/ Planning PROVE WellFormed'
<1>1. TypeOK
  BY DEF WellFormed
<1>2. CASE Run \/ PlanRefused \/ \E n \in Nodes : Inspect(n)
  <2>1. TypeOK'
    BY <1>1, <1>2, RunType, PlanRefusedType, InspectType
  <2>2. UNCHANGED <<server, trx, step, stmt>> /\ status' \in {"planning", "refused"}
    BY <1>2 DEF Run, PlanRefused, Inspect, serverVars, progress
  <2> QED
    BY <2>1, <2>2 DEF WellFormed, ScriptInv, DownInv, Executing
<1>3. ASSUME NEW o \in Nodes, NEW c \in Nodes, BuildPlan(o, c) PROVE WellFormed'
  <2>1. /\ TypeOK' /\ UNCHANGED <<server, trx>> /\ plan' = Plan(o, c)
        /\ step' \in {"none", "precheck-writer-endpoint", "fence-old-primary"}
        /\ status' = "blocked" \/ (status' = "running" /\ BlockingReasons(o, c) = {})
    BY <1>1, <1>3, BuildPlanType
  <2>2. status' = "running" => o # c
    BY <2>1, NothingBlocks
  <2>3. old' = o /\ cand' = c
    BY <2>1 DEF old, cand, Plan
  <2> QED
    BY <2>1, <2>2, <2>3 DEF WellFormed, ScriptInv, DownInv, Executing
<1> QED
  BY <1>2, <1>3 DEF Planning

(* A run starts, or one that was never planned ends: nothing is executing.    *)
LEMMA IdleStep ==
  ASSUME IInv, TypeOK', ViewInv', ~Executing', UNCHANGED <<server, trx>>,
         UNCHANGED <<step, stmt>> \/ step' = "none"
  PROVE  IInv'
<1>1. ScriptInv' /\ DownInv'
  BY DEF IInv, ScriptInv, DownInv
<1>2. PlanInv' /\ FenceInv' /\ BinlogInv' /\ DonorInv' /\ OpenInv' /\ VerifyInv'
  BY DEF PlanInv, FenceInv, BinlogInv, DonorInv, OpenInv, VerifyInv
<1>3. status' # "running" /\ status' # "succeeded"
  BY DEF Executing
<1>4. OpeningInv' /\ ClosedUntilPromoted' /\ SucceededTopology'
  BY <1>3 DEF OpeningInv, ClosedUntilPromoted, SucceededTopology, At
<1> QED
  BY <1>1, <1>2, <1>4 DEF IInv

LEMMA RunStep == ASSUME IInv, Run PROVE IInv'
<1>1. TypeOK /\ ViewInv
  BY DEF IInv
<1>2. UNCHANGED <<server, trx, step, stmt, view, restarted>> /\ status' = "planning"
  BY DEF Run, serverVars, progress
<1>3. ViewInv'
  BY <1>1, <1>2 DEF ViewInv
<1> QED
  BY <1>1, <1>2, <1>3, RunType, IdleStep DEF Executing

LEMMA InspectStep == ASSUME IInv, NEW n \in Nodes, Inspect(n) PROVE IInv'
<1>1. TypeOK /\ ViewInv
  BY DEF IInv
<1>2. UNCHANGED <<server, trx, step, stmt>> /\ status' = "planning" /\ restarted' = restarted \ {n}
  BY DEF Inspect, serverVars, progress
<1>3. TypeOK'
  BY <1>1, InspectType
<1>4. PICK seen \in Inspections(n) : /\ view'[n] = seen /\ seen \in NodeStates
                                     /\ \A m \in Nodes \ {n} : view'[m] = view[m]
  BY <1>1, InspectType
<1>5. server[n] \in ServerStates
  BY <1>1 DEF TypeOK, ServersTypeOK
<1>6. /\ seen.health = "dead" => seen = DeadState
      /\ seen.gtid \subseteq server[n].executed
      /\ seen.health # "dead" /\ ~Writable(seen) => Closed(server[n])
  <2>1. CASE seen = DeadState
    BY <2>1 DEF DeadState
  <2>2. ASSUME NEW io, seen = Observation(n, io)
        PROVE  /\ seen.health # "dead" /\ seen.gtid = server[n].executed
               /\ ~Writable(seen) => Closed(server[n])
    BY <1>5, <2>2 DEF Observation, Writable, Closed, ServerStates
  <2> QED
    BY <2>1, <2>2 DEF Inspections
<1>7. ViewInv'
  BY <1>1, <1>2, <1>4, <1>6 DEF ViewInv
<1> QED
  BY <1>2, <1>3, <1>7, IdleStep DEF Executing

LEMMA PlanRefusedStep == ASSUME IInv, PlanRefused PROVE IInv'
<1>1. UNCHANGED <<server, trx, step, stmt>> /\ status' = "refused"
  BY DEF PlanRefused, serverVars, progress
<1>2. TypeOK'
  BY PlanRefusedType DEF IInv
<1>3. ViewInv'
  BY DEF PlanRefused, ViewInv
<1> QED
  BY <1>1, <1>2, <1>3, IdleStep DEF Executing

(* A plan is executed only if its old primary was seen dead and its candidate *)
(* was seen closed; the first step entered comes no later than the fence.     *)
LEMMA BuildPlanStep ==
  ASSUME IInv, NEW o \in Nodes, NEW c \in Nodes, BuildPlan(o, c)
  PROVE  IInv'
<1>1. TypeOK /\ ViewInv /\ DownInv
  BY DEF IInv
<1>2. /\ TypeOK'
      /\ UNCHANGED <<server, trx, restarted>>
      /\ \A n \in Nodes : view[n] # Unseen /\ view'[n] = Unseen
      /\ plan' = Plan(o, c) /\ original' = Untouched /\ isolated' = ~server[o].up
      /\ \/ status' = "blocked" /\ step' = "none"
         \/ /\ BlockingReasons(o, c) = {} /\ status' = "running"
            /\ step' \in {"precheck-writer-endpoint", "fence-old-primary"}
            /\ stmt' = 1 /\ item' = 1
  BY <1>1, BuildPlanType
<1>3. ViewInv'
  BY <1>2 DEF ViewInv
<1>4. CASE status' = "blocked" /\ step' = "none"
  BY <1>2, <1>3, <1>4, IdleStep DEF Executing
<1>5. CASE /\ BlockingReasons(o, c) = {} /\ status' = "running"
           /\ step' \in {"precheck-writer-endpoint", "fence-old-primary"}
           /\ stmt' = 1 /\ item' = 1
  <2>1. old' = o /\ cand' = c /\ plan'.GTIDExecuted = view[c].gtid
        /\ plan'.Binlog = BinlogSalvage(o, c)
    BY <1>2 DEF old, cand, Plan
  <2>2. /\ view[o].health = "dead" /\ view[c].health # "dead" /\ ~Writable(view[c])
        /\ UnknownLoss(o) => o \in SSHSalvage /\ view[c].gtid # {}
    BY <1>5, NothingBlocks
  <2>3. view[o].gtid = {} /\ view[c].gtid \subseteq server[c].executed
        /\ (c \notin restarted => Closed(server[c]))
    BY <1>1, <1>2, <2>2 DEF ViewInv, DeadState
  <2>4. Required => plan'.Binlog
    BY <2>1, <2>2, <2>3 DEF UnknownLoss, Required, BinlogSalvage
  <2>5. PlanInv'
    BY <1>2, <2>1, <2>2, <2>3, <2>4 DEF PlanInv, Required
  <2>6. FenceInv'
    <3>1. Isolated' => ~server'[old'].up
      BY <1>2, <2>1 DEF Isolated
    <3> QED
      BY <1>5, <3>1, RankFacts DEF FenceInv
  <2>7. BinlogInv' /\ DonorInv' /\ OpenInv' /\ VerifyInv' /\ SucceededTopology'
    BY <1>2, <1>5, RankFacts DEF BinlogInv, DonorInv, OpenInv, VerifyInv,
                                 SucceededTopology, Untouched
  <2>8. OpeningInv' /\ ClosedUntilPromoted'
    BY <1>2, <1>5, <2>1, <2>3, RankFacts DEF OpeningInv, ClosedUntilPromoted, At, Closed
  <2>9. ScriptInv' /\ DownInv'
    BY <1>1, <1>2, <1>5 DEF ScriptInv, DownInv
  <2> QED
    BY <1>2, <1>3, <2>5, <2>6, <2>7, <2>8, <2>9 DEF IInv
<1> QED
  BY <1>2, <1>4, <1>5

(* What a step of anybody leaves well-formed.                                 *)
LEMMA NextWellFormed == WellFormed /\ Next => WellFormed'
BY PlanningWellFormed, ExecutionExec, ExecWellFormed, EnvironmentWellFormed DEF Next

-----------------------------------------------------------------------------
(* The theorems. *)

LEMMA InitIInv == Init => IInv
<1> SUFFICES ASSUME Init PROVE IInv
  OBVIOUS
<1>1. TypeOK
  BY InitType
<1>2. /\ step = "none" /\ status = "none" /\ \A n \in Nodes : view[n] = Unseen
      /\ \A t \in Trx : trx[t].state \notin {"active", "leaving"}
  BY DEF Init, ServersInit
<1>3. DownInv
  BY <1>2 DEF DownInv
<1>4. ViewInv
  BY <1>2 DEF ViewInv
<1> QED
  BY <1>1, <1>2, <1>3, <1>4 DEF IInv, ScriptInv, PlanInv, FenceInv, BinlogInv, DonorInv, OpeningInv,
     ClosedUntilPromoted, OpenInv, VerifyInv, SucceededTopology, Executing, At

LEMMA StutterIInv == IInv /\ UNCHANGED vars => IInv'
<1> SUFFICES ASSUME IInv, UNCHANGED vars PROVE IInv'
  OBVIOUS
<1>1. UNCHANGED <<server, trx, crashes, step, stmt, item, todo, view, plan, original, endpoint,
                  status, runs, isolated, restarted>>
  BY DEF vars, serverVars, failoverVars, progress
<1>2. TypeOK'
  BY <1>1 DEF IInv, TypeOK, ServersTypeOK, Plans
<1> QED
  BY <1>1, <1>2 DEF IInv, ScriptInv, DownInv, ViewInv, PlanInv, FenceInv, BinlogInv, DonorInv,
     OpeningInv, ClosedUntilPromoted, OpenInv, VerifyInv, SucceededTopology, Executing, At,
     old, cand, Isolated, Required, StonithRequired, Verifiable

LEMMA NextIInv == IInv /\ [Next]_vars => IInv'
BY RunStep, InspectStep, BuildPlanStep, PlanRefusedStep, ExecutionStep, EnvironmentStep, StutterIInv
DEF Next, Planning

(* The inductive invariant: what the view, the plan, the fence and each stage *)
(* of the salvage have established, whatever fails and whoever restarts.      *)
THEOREM FailoverInductive == Spec => []IInv
<1>1. Init => IInv
  BY InitIInv
<1>2. IInv /\ [Next]_vars => IInv'
  BY NextIInv
<1> QED
  BY <1>1, <1>2, PTL DEF Spec

(* Every variable of the controller and of the servers keeps its type.        *)
THEOREM FailoverTypeCorrect == Spec => []TypeOK
<1>1. IInv => TypeOK
  BY DEF IInv
<1> QED
  BY <1>1, FailoverInductive, PTL

(* Data loss: a candidate is promoted only once it has everything the isolated *)
(* old primary and the planned donors had, unless availability comes first.   *)
THEOREM NoKnownLossHolds == Spec => []NoKnownLoss
<1>1. IInv => NoKnownLoss
  BY RankFacts, RankOrder DEF IInv, BinlogInv, DonorInv, NoKnownLoss, Promoting, TypeOK
<1> QED
  BY <1>1, FailoverInductive, PTL

(* Split brain: with a required STONITH step the candidate is promoted only   *)
(* after the old primary was taken down.                                      *)
THEOREM NoSplitBrainHolds == Spec => []NoSplitBrain
<1>1. IInv => NoSplitBrain
  BY RankFacts, RankOrder DEF IInv, FenceInv, NoSplitBrain, Promoting, TypeOK
<1> QED
  BY <1>1, FailoverInductive, PTL

(* The candidate, opened for the binlogs, is closed again before the executor *)
(* goes on to its promotion.                                                  *)
THEOREM ClosedUntilPromotedHolds == Spec => []ClosedUntilPromoted
<1>1. IInv => ClosedUntilPromoted
  BY DEF IInv
<1> QED
  BY <1>1, FailoverInductive, PTL

(* A failover recorded as succeeded has the topology it promises.             *)
THEOREM FailedOverTopologyHolds == Spec => []SucceededTopology
<1>1. IInv => SucceededTopology
  BY DEF IInv
<1> QED
  BY <1>1, FailoverInductive, PTL

(* Only the switch step moves the writer endpoint, and only to a candidate    *)
(* that is open and complete.                                                 *)
THEOREM EndpointFollowsFailoverHolds == Spec => EndpointFollowsFailover
<1>1. ASSUME IInv, Next, endpoint' # endpoint, endpoint' \notin restarted
      PROVE  /\ ~server[endpoint'].readOnly
             /\ Required /\ Isolated => server[old].executed \subseteq server[endpoint'].executed
  <2>1. SwitchWriterEndpoint
    <3>1. Planning => UNCHANGED endpoint
      BY DEF Planning, Inspect, BuildPlan, PlanRefused
    <3>2. Fence => UNCHANGED endpoint
      BY DEF Fence, FenceSkipped, FenceReadOnly, FenceLost, Stonith, OtherFence
    <3>3. BinlogSalvageStep => UNCHANGED endpoint
      BY DEF BinlogSalvageStep, GetReadOnlyState, DisableReadOnly, ApplyBinlogDump, EnableReadOnly,
             SetCandidate
    <3>4. DonorSalvage => UNCHANGED endpoint
      BY DEF DonorSalvage, DonorSkipped, RepointToDonor, WaitForDonor, QuiesceChannel, SetCandidate
    <3>5. PromoteCandidate \/ RepointReplicas \/ VerifyCluster => UNCHANGED endpoint
      BY DEF PromoteCandidate, SetCandidate, RepointReplicas, VerifyCluster, VerifyNode
    <3>6. Run \/ Kill \/ PrecheckWriterEndpoint \/ VerifyWriterEndpoint => UNCHANGED endpoint
      BY DEF Run, Kill, PrecheckWriterEndpoint, VerifyWriterEndpoint
    <3>7. Environment => UNCHANGED endpoint
      BY DEF Environment, failoverVars
    <3> QED
      BY <1>1, <3>1, <3>2, <3>3, <3>4, <3>5, <3>6, <3>7 DEF Next, Execution
  <2>2. endpoint' = cand /\ status = "running" /\ step = "switch-writer-endpoint"
    BY <1>1, <2>1 DEF SwitchWriterEndpoint, At
  <2> QED
    BY <1>1, <2>2, RankFacts DEF IInv, OpenInv, BinlogInv, Executing
<1>2. IInv /\ [Next]_vars =>
        [endpoint' # endpoint /\ endpoint' \notin restarted =>
           /\ ~server[endpoint'].readOnly
           /\ Required /\ Isolated => server[old].executed \subseteq server[endpoint'].executed]_vars
  BY <1>1
<1> QED
  BY <1>2, FailoverInductive, PTL DEF Spec, EndpointFollowsFailover
=============================================================================
