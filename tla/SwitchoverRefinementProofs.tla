--------------------- MODULE SwitchoverRefinementProofs ---------------------
(***************************************************************************)
(* Proofs about the abstract hand-over, that a switchover keeps one writer *)
(* and that it implements the hand-over, for any cluster, load and number  *)
(* of runs.  The invariant is HandoverInv: what SwitchoverProofs has       *)
(* shown, and where the writes are.                                        *)
(***************************************************************************)
EXTENDS PrimaryHandover, SwitchoverRefinement, SwitchoverProofs

-----------------------------------------------------------------------------
(* The abstract hand-over, for any servers and transactions. *)

(* OneCompleteWriter is not inductive: a transaction that was begun on a      *)
(* server closed since then could commit there, and the open server would     *)
(* lack it.  InFlight excludes that.                                           *)
WriterInv == HandoverTypeOK /\ OneCompleteWriter /\ InFlight

LEMMA WriterInit == HandoverInit => WriterInv
BY DEF HandoverInit, WriterInv, HandoverTypeOK, OneCompleteWriter, InFlight

(* What clients and replication do.                                           *)
LEMMA BeginWriteStep ==
  ASSUME WriterInv, NEW t \in Trx, NEW n \in Nodes, BeginWrite(t, n)
  PROVE  WriterInv'
BY DEF WriterInv, HandoverTypeOK, OneCompleteWriter, InFlight, BeginWrite

LEMMA AbortWriteStep ==
  ASSUME WriterInv, NEW t \in Trx, NEW n \in Nodes, AbortWrite(t, n)
  PROVE  WriterInv'
BY DEF WriterInv, HandoverTypeOK, OneCompleteWriter, InFlight, AbortWrite

(* A commit on a closed server finds all servers closed (InFlight); on the    *)
(* open one it is copied at once.                                             *)
LEMMA CommitWriteStep ==
  ASSUME WriterInv, NEW t \in Trx, NEW n \in Nodes, CommitWrite(t, n)
  PROVE  WriterInv'
<1> USE DEF WriterInv, CommitWrite
<1>1. HandoverTypeOK'
  BY DEF HandoverTypeOK
<1>2. InFlight'
  BY DEF InFlight
<1>3. OneCompleteWriter'
  <2> SUFFICES ASSUME NEW m \in open PROVE committed' \subseteq copies'[m]
    BY DEF OneCompleteWriter
  <2>1. m = n
    BY DEF OneCompleteWriter, InFlight
  <2> QED
    BY <2>1 DEF OneCompleteWriter, HandoverTypeOK
<1> QED
  BY <1>1, <1>2, <1>3

LEMMA CopyStep ==
  ASSUME WriterInv, NEW t \in Trx, NEW n \in Nodes, Copy(t, n)
  PROVE  WriterInv'
BY DEF WriterInv, HandoverTypeOK, OneCompleteWriter, InFlight, Copy

(* What the switchover does.                                                  *)
LEMMA SwitchStep ==
  ASSUME WriterInv, NEW n \in Nodes, Close(n) \/ Open(n) \/ Reroute(n)
  PROVE  WriterInv'
<1>1. CASE Close(n)
  BY <1>1 DEF WriterInv, HandoverTypeOK, OneCompleteWriter, InFlight, Close
<1>2. CASE Open(n)
  BY <1>2 DEF WriterInv, HandoverTypeOK, OneCompleteWriter, InFlight, Open
<1>3. CASE Reroute(n)
  BY <1>3 DEF WriterInv, HandoverTypeOK, OneCompleteWriter, InFlight, Reroute
<1> QED
  BY <1>1, <1>2, <1>3

LEMMA HandoverStep == WriterInv /\ [HandoverNext]_handoverVars => WriterInv'
<1> SUFFICES ASSUME WriterInv, [HandoverNext]_handoverVars PROVE WriterInv'
  OBVIOUS
<1>1. CASE UNCHANGED handoverVars
  BY <1>1 DEF handoverVars, WriterInv, HandoverTypeOK, OneCompleteWriter, InFlight
<1>2. CASE HandoverNext
  BY <1>2, BeginWriteStep, AbortWriteStep, CommitWriteStep, CopyStep, SwitchStep DEF HandoverNext
<1> QED
  BY <1>1, <1>2

(* In every handover there is one writer at most, and it lacks nothing that   *)
(* was ever committed: what a switchover that implements it inherits.         *)
THEOREM OneCompleteWriterHolds == HandoverSpec => []OneCompleteWriter
<1>1. WriterInv => OneCompleteWriter
  BY DEF WriterInv
<1> QED
  BY <1>1, WriterInit, HandoverStep, PTL DEF HandoverSpec

(* A transaction in flight on a closed server keeps all others closed.        *)
THEOREM InFlightHolds == HandoverSpec => []InFlight
<1>1. WriterInv => InFlight
  BY DEF WriterInv
<1> QED
  BY <1>1, WriterInit, HandoverStep, PTL DEF HandoverSpec

-----------------------------------------------------------------------------
(* What the statements do to the channel and the relay log of a server.      *)

(* A statement leaves channel and relay log alone, or empties the relay log;  *)
(* repointing gives the server the new source or none but the one it has.     *)
LEMMA StatementChannel ==
  ASSUME NEW s \in ServerStates, NEW p \in Nodes, NEW i
  PROVE  /\ \A r \in {SuperReadOnlyOn(s), ReadOnlyOn(s)} : r.source = s.source /\ r.relay = s.relay
         /\ \A r \in {PromoteStatement(i, s), RepointStatement(i, s, p)} :
              r.relay = {} \/ (r.source = s.source /\ r.relay = s.relay)
         /\ RepointStatement(i, s, p).source \in {s.source, p}
         /\ PromoteStatement(i, s).source \in {s.source, NoSource}
BY DEF ServerStates, SuperReadOnlyOn, ReadOnlyOn, PromoteStatement, RepointStatement,
       StopReplica, ResetReplicaAll, SuperReadOnlyOff, ReadOnlyOff, ChangeSource, StartReplica

(* The promotion opens the server with its last statement, and has taken its  *)
(* channel away before.                                                       *)
LEMMA PromotionMoves ==
  ASSUME NEW s \in ServerStates, NEW i \in 1..4
  PROVE  /\ i < 4 => PromoteStatement(i, s).readOnly = s.readOnly
         /\ i = 4 => ~PromoteStatement(i, s).readOnly
         /\ i = 2 => PromoteStatement(i, s).source = NoSource
         /\ i # 2 => PromoteStatement(i, s).source = s.source
<1>1. i = 1 => PromoteStatement(i, s) = StopReplica(s)
  BY DEF PromoteStatement
<1>2. i = 2 => PromoteStatement(i, s) = ResetReplicaAll(s)
  BY DEF PromoteStatement
<1>3. i = 3 => PromoteStatement(i, s) = SuperReadOnlyOff(s)
  BY DEF PromoteStatement
<1>4. i = 4 => PromoteStatement(i, s) = ReadOnlyOff(s)
  BY DEF PromoteStatement
<1>5. /\ StopReplica(s).readOnly = s.readOnly /\ StopReplica(s).source = s.source
      /\ ResetReplicaAll(s).readOnly = s.readOnly /\ ResetReplicaAll(s).source = NoSource
      /\ SuperReadOnlyOff(s).readOnly = s.readOnly /\ SuperReadOnlyOff(s).source = s.source
      /\ ~ReadOnlyOff(s).readOnly /\ ReadOnlyOff(s).source = s.source
  BY DEF ServerStates, StopReplica, ResetReplicaAll, SuperReadOnlyOff, ReadOnlyOff
<1>6. i \in {1, 2, 3, 4}
  OBVIOUS
<1> QED
  BY <1>1, <1>2, <1>3, <1>4, <1>5, <1>6

(* What a step of the execution does to server n: one statement, or nothing.  *)
SameServer(n) == server'[n] = server[n]

FencedServer(n) ==
  /\ server'[n].readOnly = server[n].readOnly \/ server'[n].readOnly
  /\ server'[n].source = server[n].source
  /\ server'[n].relay = server[n].relay
  /\ server'[n].executed = server[n].executed

(* Fencing a server closes it and changes nothing else a writer depends on.   *)
LEMMA FenceEffect ==
  ASSUME TypeOK, NEW n \in Nodes, Fence(n)
  PROVE  /\ \A m \in Nodes \ {n} : SameServer(m)
         /\ FencedServer(n)
         /\ UNCHANGED <<trx, crashes, view, plan, sample, endpoint, runs>>
         /\ \/ StepCompleted /\ fenced' = fenced \cup {n} /\ server'[n].readOnly
            \/ NextStatement /\ UNCHANGED fenced
            \/ StepFailed /\ UNCHANGED fenced
<1> DEFINE super == stmt = 1 /\ n \in HasSuperReadOnly
           state == IF super THEN SuperReadOnlyOn(server[n]) ELSE ReadOnlyOn(server[n])
<1>1. /\ \/ Executed(n, state) /\ StepCompleted /\ fenced' = fenced \cup {n}
         \/ super /\ Errored(n, state) /\ NextStatement /\ UNCHANGED fenced
         \/ Errored(n, state) /\ StepFailed /\ UNCHANGED fenced
      /\ UNCHANGED <<trx, crashes, view, plan, sample, endpoint, runs, verified>>
  BY Zenon DEF Fence
<1>2. server[n] \in ServerStates /\ server \in [Nodes -> ServerStates]
  BY DEF TypeOK, ServersTypeOK
<1>3. \E p : p \in Nodes
  OBVIOUS
<1>4. /\ state \in ServerStates /\ state.readOnly
      /\ state.source = server[n].source /\ state.relay = server[n].relay
      /\ state.executed = server[n].executed
  BY <1>2, <1>3, StatementType, StatementFrame, StatementChannel
<1> HIDE DEF state, super
<1>5. Executed(n, state) \/ Errored(n, state)
  BY <1>1
<1>6. /\ \A m \in Nodes \ {n} : server'[m] = server[m]
      /\ server'[n] = state \/ server'[n] = server[n]
      /\ Executed(n, state) => server'[n] = state
  BY <1>2, <1>4, <1>5, StatementOutcome DEF Executed
<1>7. FencedServer(n)
  BY <1>4, <1>6 DEF FencedServer
<1>8. \/ StepCompleted /\ fenced' = fenced \cup {n} /\ server'[n].readOnly
      \/ NextStatement /\ UNCHANGED fenced
      \/ StepFailed /\ UNCHANGED fenced
  BY <1>1, <1>4, <1>6
<1> QED
  BY <1>1, <1>6, <1>7, <1>8 DEF SameServer

(* A statement of a script: done, failed after or without effect.             *)
LEMMA StatementEffect ==
  ASSUME TypeOK, NEW n \in Nodes, NEW s \in ServerStates, NEW last, NEW done \in BOOLEAN,
         Statement(n, s, last, done)
  PROVE  /\ \A m \in Nodes \ {n} : SameServer(m)
         /\ SameServer(n) \/ server'[n] = s
         /\ UNCHANGED <<trx, crashes, view, plan, sample, endpoint, runs, fenced>>
         /\ \/ server'[n] = s /\ stmt < last /\ NextStatement
            \/ server'[n] = s /\ stmt = last /\ done
            \/ StepFailed
<1>1. /\ \/ Executed(n, s) /\ stmt < last /\ NextStatement
         \/ Executed(n, s) /\ stmt = last /\ done
         \/ Errored(n, s) /\ StepFailed
      /\ UNCHANGED <<trx, crashes, view, plan, sample, endpoint, runs, fenced, verified>>
  BY Zenon DEF Statement
<1>2. server \in [Nodes -> ServerStates]
  BY DEF TypeOK, ServersTypeOK
<1>3. Executed(n, s) \/ Errored(n, s)
  BY <1>1
<1>4. /\ \A m \in Nodes \ {n} : server'[m] = server[m]
      /\ server'[n] = s \/ server'[n] = server[n]
      /\ Executed(n, s) => server'[n] = s
  BY <1>2, <1>3, StatementOutcome DEF Executed
<1> QED
  BY <1>1, <1>4 DEF SameServer

(* Steps that send no statement that changes a server.                        *)
Quiet ==
  \/ PrecheckWriterEndpoint \/ CountActiveWrites \/ ReadGTIDExecuted \/ PollAgain
  \/ WaitForExecutedGTIDSet \/ CatchUpTimeout
  \/ SwitchWriterEndpoint \/ VerifyWriterEndpoint \/ VerifyCluster

LEMMA QuietEffect ==
  ASSUME TypeOK, Quiet
  PROVE  /\ UNCHANGED <<server, crashes, view, plan, fenced>>
         /\ \A t \in Trx : trx'[t].node = trx[t].node /\ trx'[t].state = trx[t].state
<1>1. CASE PollAgain
  BY <1>1 DEF PollAgain, Elapse, TypeOK, ServersTypeOK, TrxStates
<1>2. CASE VerifyCluster
  BY <1>2, Zenon DEF VerifyCluster, VerifyNode, serverVars
<1>3. CASE PrecheckWriterEndpoint \/ CountActiveWrites \/ ReadGTIDExecuted
           \/ WaitForExecutedGTIDSet \/ CatchUpTimeout
           \/ SwitchWriterEndpoint \/ VerifyWriterEndpoint
  BY <1>3 DEF PrecheckWriterEndpoint, CountActiveWrites, ReadGTIDExecuted, WaitForExecutedGTIDSet,
              CatchUpTimeout, SwitchWriterEndpoint, VerifyWriterEndpoint, serverVars
<1> QED
  BY <1>1, <1>2, <1>3 DEF Quiet

-----------------------------------------------------------------------------
(* LogInv. *)

(* What a step of the execution leaves of the logs of a server.               *)
LogKept(n) ==
  /\ server'[n].executed = server[n].executed
  /\ \/ server'[n].relay = {}
     \/ server'[n].relay = server[n].relay /\ server'[n].source = server[n].source

LEMMA ExecutionLogs ==
  ASSUME TypeOK, Execution
  PROVE  /\ \A n \in Nodes : LogKept(n)
         /\ \A t \in Trx : trx'[t].node = trx[t].node /\ trx'[t].state = trx[t].state
         /\ UNCHANGED crashes
<1>1. /\ orig \in Nodes /\ cand \in Nodes
      /\ \A n \in Nodes : server[n] \in ServerStates
  BY DEF TypeOK, ServersTypeOK, orig, cand
<1>2. CASE Quiet
  BY <1>2, QuietEffect DEF LogKept
<1>3. CASE LockCandidate \/ LockOldPrimary
  BY <1>1, <1>3, FenceEffect DEF LockCandidate, LockOldPrimary, LogKept, SameServer, FencedServer
<1>4. CASE PromoteCandidate
  <2>1. StepCompleted \in BOOLEAN
    BY DEF StepCompleted
  <2>2. PromoteStatement(stmt, server[cand]) \in ServerStates
    BY <1>1, StatementType
  <2> QED
    BY <1>1, <1>4, <2>1, <2>2, StatementEffect, StatementFrame, StatementChannel
       DEF PromoteCandidate, LogKept, SameServer
<1>5. ASSUME NEW n \in Nodes, NEW done \in BOOLEAN,
             Statement(n, RepointStatement(stmt, server[n], cand), 3, done)
      PROVE  /\ \A m \in Nodes : LogKept(m)
             /\ UNCHANGED <<trx, crashes>>
  <2>1. RepointStatement(stmt, server[n], cand) \in ServerStates
    BY <1>1, StatementType
  <2> QED
    BY <1>1, <1>5, <2>1, StatementEffect, StatementFrame, StatementChannel DEF LogKept, SameServer
<1>6. CASE RepointReplicas
  <2>1. \A n : NextNode(n) \in BOOLEAN
    BY DEF NextNode, StepCompleted
  <2> QED
    BY <1>5, <1>6, <2>1 DEF RepointReplicas, TypeOK
<1>7. CASE RepointOldPrimary
  <2>1. StepCompleted \in BOOLEAN
    BY DEF StepCompleted
  <2> QED
    BY <1>1, <1>5, <1>7, <2>1 DEF RepointOldPrimary
<1> QED
  BY <1>2, <1>3, <1>4, <1>6, <1>7 DEF Execution, Quiet

(* What clients, replication, crashes and restarts do to the logs: nothing    *)
(* is executed or fetched that was not committed.                             *)
LEMMA EnvironmentLogs ==
  ASSUME TypeOK, LogInv, Environment
  PROVE  LogInv'
<1> USE DEF TypeOK, ServersTypeOK
<1>1. ASSUME NEW t \in Trx, NEW n \in Nodes, Begin(t, n) \/ Rollback(t) \/ Commit(t) PROVE LogInv'
  BY <1>1 DEF Begin, Rollback, Commit, LogInv, TrxStates, ServerStates
<1>2. ASSUME NEW t \in Trx, Publish(t) PROVE LogInv'
  <2>1. trx[t].node \in Nodes
    BY DEF TrxStates
  <2>2. \A n \in Nodes : /\ server'[n].source = server[n].source
                         /\ server'[n].relay = server[n].relay
                         /\ server'[n].executed \subseteq server[n].executed \cup {t}
    BY <1>2, <2>1 DEF Publish, ServerStates
  <2>3. \A u \in Trx : trx[u].state = "committed" \/ u = t => trx'[u].state = "committed"
    BY <1>2 DEF Publish, TrxStates
  <2> QED
    BY <2>2, <2>3 DEF LogInv, ServerStates
<1>3. ASSUME NEW n \in Nodes, NEW t \in Trx, Fetch(n, t) PROVE LogInv'
  <2>1. /\ server[n].source \in Nodes /\ server[n].source # NoSource
        /\ t \in server[server[n].source].executed
    BY <1>3 DEF Fetch, IOThreadRunning, ServerStates
  <2>2. /\ \A m \in Nodes \ {n} : server'[m] = server[m]
        /\ server'[n].source = server[n].source
        /\ server'[n].relay = server[n].relay \cup {t}
        /\ server'[n].executed = server[n].executed
    BY <1>3 DEF Fetch, Fetched, ServerStates
  <2>3. trx[t].state = "committed" /\ UNCHANGED trx
    BY <1>3, <2>1 DEF LogInv, Fetch
  <2> QED
    BY <2>1, <2>2, <2>3 DEF LogInv
<1>4. ASSUME NEW n \in Nodes, NEW t \in Trx, Apply(n, t) PROVE LogInv'
  <2>1. /\ \A m \in Nodes \ {n} : server'[m] = server[m]
        /\ server'[n].source = server[n].source
        /\ server'[n].relay = server[n].relay \ {t}
        /\ server'[n].executed = server[n].executed \cup {t}
        /\ t \in server[n].relay
        /\ UNCHANGED trx
    BY <1>4 DEF Apply, Applied, ServerStates
  <2> QED
    BY <2>1 DEF LogInv
<1>5. ASSUME NEW n \in Nodes, Crash(n) PROVE LogInv'
  <2>1. PICK kept \in SUBSET {t \in Trx : trx[t].node = n /\ trx[t].state = "leaving"} :
          /\ server' = [server EXCEPT ![n] = Crashed(@, kept)]
          /\ trx' = [t \in Trx |->
               IF trx[t].node # n \/ trx[t].state \in {"idle", "committed"} THEN trx[t]
               ELSE [trx[t] EXCEPT !.state = IF t \in kept THEN "committed" ELSE "idle"]]
    BY <1>5 DEF Crash, GoDown
  <2>2. /\ \A m \in Nodes \ {n} : server'[m] = server[m]
        /\ server'[n].source = server[n].source
        /\ server'[n].relay = server[n].relay
        /\ server'[n].executed = server[n].executed \cup kept
    BY <2>1 DEF Crashed, ServerStates
  <2>3. \A t \in Trx : trx[t].state = "committed" \/ t \in kept => trx'[t].state = "committed"
    BY <2>1 DEF TrxStates
  <2> QED
    BY <2>2, <2>3 DEF LogInv, ServerStates
<1>6. ASSUME NEW n \in Nodes, Recover(n) PROVE LogInv'
  <2>1. PICK ro, start \in BOOLEAN : server' = [server EXCEPT ![n] = Restarted(@, ro, start)]
    BY <1>6 DEF Recover
  <2>2. /\ \A m \in Nodes \ {n} : server'[m] = server[m]
        /\ server'[n].source = server[n].source
        /\ server'[n].relay = server[n].relay
        /\ server'[n].executed = server[n].executed
        /\ UNCHANGED trx
    BY <1>6, <2>1 DEF Recover, Restarted, ServerStates
  <2> QED
    BY <2>2 DEF LogInv
<1> QED
  BY <1>1, <1>2, <1>3, <1>4, <1>5, <1>6 DEF Environment, Clients, Replication

LEMMA LogStep ==
  ASSUME TypeOK, LogInv, [Next]_vars
  PROVE  LogInv'
<1>1. CASE Execution
  BY <1>1, ExecutionLogs DEF LogInv, LogKept, TypeOK, ServersTypeOK, ServerStates
<1>2. CASE Run \/ Planning \/ UNCHANGED vars
  <2>1. UNCHANGED <<server, trx>>
    BY <1>2 DEF Run, Planning, Inspect, BuildPlan, PlanRefused, vars, serverVars
  <2> QED
    BY <2>1 DEF LogInv
<1> QED
  BY <1>1, <1>2, EnvironmentLogs DEF Next

LEMMA LogInit == Init => LogInv
<1> SUFFICES ASSUME Init, NEW n \in Nodes
             PROVE  /\ server[n].source = NoSource => server[n].relay = {}
                    /\ \A t \in server[n].executed \cup server[n].relay : trx[t].state = "committed"
  BY DEF LogInv
<1>1. server[n].relay = {} /\ server[n].executed = History
  BY DEF Init, ServersInit
<1>2. \A t \in History : trx[t].state = "committed"
  BY ServersAssumption DEF Init, ServersInit
<1> QED
  BY <1>1, <1>2
-----------------------------------------------------------------------------
(* CalmInv at the start and while a run is planned. *)

LEMMA InitCalm == ASSUME OrderlyCluster, Init PROVE CalmInv
<1> USE DEF Init, ServersInit
<1>1. \A n \in Nodes : server[n].up
  OBVIOUS
<1>2. ViewInv
  BY DEF ViewInv
<1>3. Head(InitialPrimary)
  <2>1. server[InitialPrimary].source = NoSource /\ ~Exempt(InitialPrimary)
    BY SwitchoverAssumption DEF OrderlyCluster, NeverExempt
  <2>2. \A n \in Nodes \ {InitialPrimary} : server[n].readOnly
    BY DEF OrderlyCluster
  <2>3. \A t \in Trx : /\ trx[t].state \notin {"active", "leaving"}
                       /\ trx[t].state = "committed" => t \in server[InitialPrimary].executed
    BY SwitchoverAssumption
  <2> QED
    BY <2>1, <2>2, <2>3 DEF Head
<1> QED
  BY <1>1, <1>2, <1>3, SwitchoverAssumption DEF CalmInv, HeadInv, CompleteInv

(* In a view that the assessment finds no error in, the primary is the head:  *)
(* any other node it looks at has a channel, or could not be inspected.       *)
LEMMA PrimaryIsHead ==
  ASSUME TypeOK, CalmInv, NEW o \in Nodes, Discovered, ~HasErrors(view, o)
  PROVE  Head(o)
<1>1. PICK h \in Nodes : Head(h)
  BY DEF CalmInv, HeadInv
<1>2. view[h].source = NoSource
  BY <1>1 DEF CalmInv, ViewInv, Discovered, Head
<1>3. NodeErrors(view, o, h) = {}
  BY DEF HasErrors
<1>4. ~IsObserver(h) /\ ~NodeSpec[h].ignoreFail
  BY <1>1 DEF Head, Exempt
<1>5. h # o => NodeErrors(view, o, h) = {"replica_missing_state"}
  BY <1>2, <1>4 DEF NodeErrors, ReplicaErrors
<1> QED
  BY <1>1, <1>3, <1>5

LEMMA CandidateMayBePrimary ==
  ASSUME NeverExempt, NEW o \in Nodes, NEW c \in Nodes, IsCandidate(view, o, c)
  PROVE  ~Exempt(c)
<1>1. ~NodeSpec[c].noMaster
  BY DEF IsCandidate, IsDefaultCandidate, IsPinnedCandidate, Eligible
<1> QED
  BY <1>1 DEF NeverExempt

LEMMA BuildPlanCalm ==
  ASSUME OrderlyCluster, TypeOK, CalmInv, NEW o \in Nodes, NEW c \in Nodes, BuildPlan(o, c)
  PROVE  CalmInv'
<1>1. /\ UNCHANGED <<server, trx, crashes>>
      /\ plan' = [OriginalPrimary |-> o, Candidate |-> c]
      /\ view' = [n \in Nodes |-> Unseen]
      /\ step' \in {"precheck-writer-endpoint", "lock-candidate"}
      /\ Discovered /\ ~HasErrors(view, o) /\ IsCandidate(view, o, c)
  BY DEF BuildPlan, CanPlan, serverVars
<1>2. orig' = o /\ cand' = c
  BY <1>1 DEF orig, cand
<1>3. Head(o) /\ ~Exempt(c)
  BY <1>1, PrimaryIsHead, CandidateMayBePrimary DEF OrderlyCluster
<1>4. Head(o)'
  BY <1>1, <1>3 DEF Head
<1>5. step' \notin AfterCatchUp /\ step' \in BeforeCatchUp /\ step' # "none"
  BY <1>1 DEF AfterCatchUp, BeforeCatchUp
<1>6. HeadInv'
  <2>1. Head(orig)' /\ ~Exempt(cand)'
    BY <1>2, <1>3, <1>4 DEF Head, Exempt
  <2> QED
    BY <1>4, <1>5, <2>1 DEF HeadInv, Promoted, AfterCatchUp, BeforeCatchUp
<1>7. CompleteInv'
  BY <1>5 DEF CompleteInv, BeforeCatchUp
<1>8. ViewInv'
  BY <1>1 DEF ViewInv
<1> QED
  BY <1>1, <1>6, <1>7, <1>8 DEF CalmInv

LEMMA InspectCalm ==
  ASSUME TypeOK, CalmInv, NEW n \in Nodes, Inspect(n)
  PROVE  CalmInv'
<1>1. /\ UNCHANGED <<server, trx, crashes, step, stmt, todo, plan, sample, fenced, status>>
      /\ status = "planning"
  BY DEF Inspect, serverVars
<1>2. PICK seen \in Inspections(n) : view' = [view EXCEPT ![n] = seen]
  BY DEF Inspect
<1>3. seen.source \in {NoSource, server[n].source}
  BY DEF Inspections, DeadState, Observation
<1>4. ViewInv'
  BY <1>1, <1>2, <1>3 DEF CalmInv, ViewInv, TypeOK
<1>5. HeadInv' /\ CompleteInv'
  BY <1>1 DEF CalmInv, HeadInv, CompleteInv, Head
<1> QED
  BY <1>1, <1>4, <1>5 DEF CalmInv

LEMMA PlanningCalm ==
  ASSUME OrderlyCluster, TypeOK, CalmInv, Run \/ Planning
  PROVE  CalmInv'
<1>1. CASE Run \/ PlanRefused
  <2>1. /\ UNCHANGED <<server, trx, crashes, step, stmt, todo, plan, sample, fenced>>
        /\ status' \in {"planning", "refused"}
    BY <1>1 DEF Run, PlanRefused, serverVars
  <2>2. HeadInv' /\ CompleteInv'
    BY <2>1 DEF CalmInv, HeadInv, CompleteInv, Head
  <2>3. ViewInv'
    BY <1>1, <2>1 DEF CalmInv, ViewInv, Run, PlanRefused
  <2> QED
    BY <2>1, <2>2, <2>3 DEF CalmInv
<1> QED
  BY <1>1, InspectCalm, BuildPlanCalm DEF Planning
-----------------------------------------------------------------------------
(* CalmInv while a plan is executed. *)

LEMMA PromotedFacts ==
  /\ After("promote-candidate") \in Promoted
  /\ \A s \in Promoted : After(s) \in Promoted
  /\ \A s \in Promoted : s \in AfterCatchUp /\ s \notin BeforeCatchUp
  /\ {"none", "promote-candidate", "wait-candidate-catchup"} \cap Promoted = {}
  /\ BeforeCatchUp \cap Promoted = {}
<1>1. After("promote-candidate") \in Promoted
  <2>1. CASE Others = {}
    BY <2>1, Zenon DEF After, Promoted, AfterCatchUp
  <2>2. CASE Others # {}
    BY <2>2, Zenon DEF After, Promoted, AfterCatchUp
  <2> QED
    BY <2>1, <2>2
<1>2. ASSUME NEW s \in Promoted PROVE After(s) \in Promoted
  <2>1. CASE s = "repoint-old-primary"
    BY <2>1, SwitchoverAssumption, Zenon DEF After, Promoted, AfterCatchUp
  <2>2. CASE s \in {"repoint-replicas", "switch-writer-endpoint", "verify-writer-endpoint", "verify"}
    BY <2>2, Zenon DEF After, Promoted, AfterCatchUp
  <2> QED
    BY <2>1, <2>2 DEF Promoted, AfterCatchUp
<1> QED
  BY <1>1, <1>2 DEF Promoted, AfterCatchUp, BeforeCatchUp

(* The head stays one if it keeps having no channel, the closed servers stay  *)
(* closed, no transaction changes and no copy is lost.                        *)
LEMMA HeadKept ==
  ASSUME NEW h \in Nodes, Head(h),
         server'[h].source = server[h].source,
         \A n \in Nodes \ {h} : server[n].readOnly => server'[n].readOnly,
         server'[h].executed = server[h].executed,
         \A t \in Trx : trx'[t].node = trx[t].node /\ trx'[t].state = trx[t].state
  PROVE  Head(h)'
BY DEF Head, Exempt

LEMMA ExecutionFrame ==
  ASSUME TypeOK, Execution
  PROVE  /\ status = "running"
         /\ UNCHANGED <<view, plan>>
<1>1. /\ orig \in Nodes /\ cand \in Nodes
      /\ \A n \in Nodes : server[n] \in ServerStates
  BY DEF TypeOK, ServersTypeOK, orig, cand
<1>2. status = "running"
  BY DEF Execution, PrecheckWriterEndpoint, LockCandidate, LockOldPrimary, CountActiveWrites,
         ReadGTIDExecuted, PollAgain, WaitForExecutedGTIDSet, CatchUpTimeout, PromoteCandidate,
         RepointReplicas, RepointOldPrimary, SwitchWriterEndpoint, VerifyWriterEndpoint,
         VerifyCluster, At
<1>3. CASE Quiet
  BY <1>2, <1>3, QuietEffect
<1>4. CASE LockCandidate \/ LockOldPrimary
  BY <1>1, <1>2, <1>4, FenceEffect DEF LockCandidate, LockOldPrimary
<1>5. ASSUME NEW n, NEW s, NEW last, NEW done \in BOOLEAN, Statement(n, s, last, done)
      PROVE  UNCHANGED <<view, plan>>
  BY <1>5, Zenon DEF Statement
<1>6. CASE PromoteCandidate \/ RepointOldPrimary
  <2>1. StepCompleted \in BOOLEAN
    BY DEF StepCompleted
  <2> QED
    BY <1>2, <1>5, <1>6, <2>1 DEF PromoteCandidate, RepointOldPrimary
<1>7. CASE RepointReplicas
  <2>1. \A n : NextNode(n) \in BOOLEAN
    BY DEF NextNode, StepCompleted
  <2> QED
    BY <1>2, <1>5, <1>7, <2>1 DEF RepointReplicas
<1> QED
  BY <1>3, <1>4, <1>6, <1>7 DEF Execution, Quiet

(* Reading the old primary's GTID set takes all that it has and the candidate *)
(* must get: nothing is in its relay log.                                     *)
LEMMA SampledAll ==
  ASSUME TypeOK, LogInv, server[orig].source = NoSource, ReadGTIDExecuted
  PROVE  \A t \in Trx : Handed(t)' => t \in sample'.gtid
<1>1. /\ UNCHANGED <<server, plan>>
      /\ sample' = [sample EXCEPT !.gtid = server[orig].executed, !.have = TRUE,
                                  !.stable = StableCount(server[orig].executed)]
  BY Zenon DEF ReadGTIDExecuted, serverVars
<1>2. server[orig].relay = {} /\ orig \in Nodes
  BY DEF LogInv, TypeOK, orig
<1>3. sample'.gtid = server[orig].executed
  BY <1>1 DEF TypeOK
<1> QED
  BY <1>1, <1>2, <1>3 DEF Handed, orig

LEMMA QuietMoves ==
  ASSUME TypeOK, Quiet, status' = "running"
  PROVE  /\ step \notin {"promote-candidate", "repoint-replicas"}
         /\ UNCHANGED step \/ StepCompleted
         /\ step \in Promoted \cup {"precheck-writer-endpoint", "wait-candidate-catchup"}
         /\ step = "wait-candidate-catchup" /\ step' = step /\ stmt' = 4 => ReadGTIDExecuted
         /\ step = "wait-candidate-catchup" /\ step' # step => WaitForExecutedGTIDSet
<1> USE DEF At
<1>1. ~StepFailed
  BY DEF StepFailed
<1>2. CASE PrecheckWriterEndpoint \/ SwitchWriterEndpoint \/ VerifyWriterEndpoint
  BY <1>1, <1>2 DEF PrecheckWriterEndpoint, SwitchWriterEndpoint, VerifyWriterEndpoint,
                    Promoted, AfterCatchUp
<1>3. CASE CountActiveWrites \/ ReadGTIDExecuted \/ PollAgain
  BY <1>3 DEF CountActiveWrites, ReadGTIDExecuted, PollAgain, NextStatement
<1>4. CASE WaitForExecutedGTIDSet \/ CatchUpTimeout
  <2>1. WaitForExecutedGTIDSet /\ StepCompleted
    BY <1>1, <1>4 DEF WaitForExecutedGTIDSet, CatchUpTimeout
  <2>2. step = "wait-candidate-catchup" /\ step' = "promote-candidate"
    BY <2>1, AfterFacts DEF WaitForExecutedGTIDSet, StepCompleted
  <2> QED
    BY <2>1, <2>2
<1>5. CASE VerifyCluster
  <2>1. step = "verify"
    BY <1>5 DEF VerifyCluster
  <2>2. UNCHANGED step \/ StepCompleted
    BY <1>1, <1>5, Zenon DEF VerifyCluster, VerifyNode, NextStatement
  <2> QED
    BY <2>1, <2>2 DEF Promoted, AfterCatchUp
<1> QED
  BY <1>2, <1>3, <1>4, <1>5 DEF Quiet

LEMMA StepCompletedTodo ==
  ASSUME StepCompleted
  PROVE  todo' \subseteq Others /\ stmt' = 1 /\ step' = After(step)
BY DEF StepCompleted

LEMMA QuietCalm ==
  ASSUME TypeOK, LogInv, CalmInv, Quiet, status = "running"
  PROVE  HeadInv' /\ CompleteInv'
<1>1. /\ UNCHANGED <<server, plan, fenced>>
      /\ \A t \in Trx : trx'[t].node = trx[t].node /\ trx'[t].state = trx[t].state
      /\ orig' = orig /\ cand' = cand
  BY QuietEffect DEF orig, cand
<1>2. \A h \in Nodes : Head(h) => Head(h)'
  BY <1>1, HeadKept
<1>3. \E h \in Nodes : Head(h)'
  BY <1>2 DEF CalmInv, HeadInv
<1>4. CASE status' # "running"
  BY <1>3, <1>4 DEF HeadInv, CompleteInv
<1>5. CASE status' = "running"
  <2>1. PICK o \in Nodes, c \in Nodes : o = orig /\ c = cand
    BY DEF TypeOK, orig, cand
  <2>2. /\ step # "none" /\ ~Exempt(c)
        /\ IF step \in Promoted THEN Head(c) /\ ~server[c].readOnly ELSE Head(o)
        /\ step \notin BeforeCatchUp => o \in fenced
    BY <2>1 DEF CalmInv, HeadInv, Head
  <2>3. /\ step \notin {"promote-candidate", "repoint-replicas"}
        /\ UNCHANGED step \/ StepCompleted
        /\ step \in Promoted \cup {"precheck-writer-endpoint", "wait-candidate-catchup"}
        /\ step = "wait-candidate-catchup" /\ step' = step /\ stmt' = 4 => ReadGTIDExecuted
        /\ step = "wait-candidate-catchup" /\ step' # step => WaitForExecutedGTIDSet
    BY <1>5, QuietMoves
(* Where the executor is now: it has not been promoted by a quiet step.       *)
  <2>4. /\ step' # "none"
        /\ step \in Promoted <=> step' \in Promoted
        /\ step' \notin BeforeCatchUp => step \notin BeforeCatchUp
        /\ step' = "promote-candidate" => stmt' = 1
        /\ step' = "repoint-replicas" => todo' \subseteq Others
        /\ step' = "wait-candidate-catchup" => step = step'
        /\ step' \in AfterCatchUp => step \in AfterCatchUp \/ step = "wait-candidate-catchup"
    <3>1. CASE UNCHANGED step
      BY <2>2, <2>3, <3>1, PromotedFacts
    <3>2. CASE StepCompleted /\ step \in Promoted
      BY <3>2, StepCompletedTodo, PromotedFacts
    <3>3. CASE StepCompleted /\ step \in {"precheck-writer-endpoint", "wait-candidate-catchup"}
      <4>1. /\ step = "precheck-writer-endpoint" => step' = "lock-candidate"
            /\ step = "wait-candidate-catchup" => step' = "promote-candidate"
            /\ stmt' = 1
        BY <3>3, StepCompletedTodo, AfterFacts
      <4> QED
        BY <3>3, <4>1 DEF Promoted, AfterCatchUp, BeforeCatchUp
    <3> QED
      BY <2>3, <3>1, <3>2, <3>3
  <2>5. HeadInv'
    <3>1. Exempt(c)' = Exempt(c)
      BY DEF Exempt
    <3>2. Others' = Others
      BY <1>1 DEF Others
    <3>3. IF step' \in Promoted THEN Head(c)' /\ ~server'[c].readOnly ELSE Head(o)'
      BY <1>1, <1>2, <2>2, <2>4
    <3>4. IF step' \in Promoted THEN Head(cand)' /\ ~server'[cand'].readOnly ELSE Head(orig)'
      BY <1>1, <2>1, <3>3 DEF Head, Exempt
    <3> QED
      BY <1>1, <1>3, <2>1, <2>2, <2>4, <3>1, <3>2, <3>4 DEF HeadInv, Exempt
  <2>6. \A t \in Trx : Handed(t)' = Handed(t)
    BY <1>1 DEF Handed, Accepts
  <2>7. step = "wait-candidate-catchup" => server[orig].source = NoSource
    BY <2>1, <2>2, PromotedFacts DEF Head
  <2>8. CompleteInv'
    <3>1. ASSUME step' = "wait-candidate-catchup", stmt' = 4, NEW t \in Trx, Handed(t)'
          PROVE  t \in sample'.gtid
      BY <2>3, <2>4, <2>7, <3>1, SampledAll
    <3>2. ASSUME step' \in AfterCatchUp
          PROVE  /\ server[orig].source \in {NoSource, cand}
                 /\ \A t \in Trx : Handed(t) => t \in server[cand].executed
      <4>1. CASE step \in AfterCatchUp
        BY <4>1 DEF CalmInv, CompleteInv
      <4>2. CASE step = "wait-candidate-catchup"
        <5>1. step' # step
          BY <3>2, <4>2 DEF AfterCatchUp
        <5>2. stmt = 4 /\ sample.gtid \subseteq server[cand].executed
          BY <2>3, <4>2, <5>1 DEF WaitForExecutedGTIDSet
        <5>3. \A t \in Trx : Handed(t) => t \in sample.gtid
          BY <4>2, <5>2 DEF CalmInv, CompleteInv
        <5> QED
          BY <2>7, <4>2, <5>2, <5>3
      <4> QED
        BY <2>4, <3>2, <4>1, <4>2
    <3> QED
      BY <1>1, <2>6, <3>1, <3>2 DEF CompleteInv
  <2> QED
    BY <2>5, <2>8
<1> QED
  BY <1>4, <1>5
(* The two locks: the head stays the old primary, and is closed by the second. *)
LEMMA LockCalm ==
  ASSUME TypeOK, PlanInv, CalmInv, LockCandidate \/ LockOldPrimary
  PROVE  HeadInv' /\ CompleteInv'
<1>1. PICK o \in Nodes, c \in Nodes : o = orig /\ c = cand
  BY DEF TypeOK, orig, cand
<1>2. PICK n \in {o, c} :
        /\ Fence(n)
        /\ step = "lock-old-primary" => n = o
        /\ step \in {"lock-candidate", "lock-old-primary"}
        /\ status = "running"
  BY <1>1 DEF LockCandidate, LockOldPrimary, At
<1>3. /\ \A m \in Nodes \ {n} : SameServer(m)
      /\ FencedServer(n)
      /\ UNCHANGED <<trx, crashes, view, plan, sample, endpoint, runs>>
      /\ \/ StepCompleted /\ fenced' = fenced \cup {n} /\ server'[n].readOnly
         \/ NextStatement /\ UNCHANGED fenced
         \/ StepFailed /\ UNCHANGED fenced
  BY <1>1, <1>2, FenceEffect
<1>4. /\ step # "none" /\ ~Exempt(c) /\ Head(o)
  BY <1>1, <1>2 DEF CalmInv, HeadInv, Promoted, AfterCatchUp, Head
<1>5. Head(o)'
  <2>1. /\ server'[o].source = server[o].source
        /\ server'[o].executed = server[o].executed
        /\ \A m \in Nodes \ {o} : server[m].readOnly => server'[m].readOnly
    BY <1>2, <1>3 DEF SameServer, FencedServer
  <2> QED
    BY <1>3, <1>4, <2>1, HeadKept
<1>6. /\ step' \in {"lock-candidate", "lock-old-primary", "wait-candidate-catchup"}
      /\ step' = "wait-candidate-catchup" => o \in fenced' /\ stmt' = 1
  <2>1. CASE StepCompleted
    <3>1. /\ step' \in {"lock-old-primary", "wait-candidate-catchup"} /\ stmt' = 1
          /\ step' = "wait-candidate-catchup" => step = "lock-old-primary"
          /\ step' # step
      BY <1>2, <2>1, StepCompletedTodo, AfterFacts
    <3>2. fenced' = fenced \cup {n}
      BY <1>3, <3>1 DEF NextStatement, StepFailed
    <3> QED
      BY <1>2, <3>1, <3>2
  <2>2. CASE NextStatement \/ StepFailed
    BY <1>2, <2>2 DEF NextStatement, StepFailed
  <2> QED
    BY <1>3, <2>1, <2>2
<1>7. Head(orig)' /\ ~Exempt(cand)'
  <2>1. orig' = o /\ cand' = c
    BY <1>1, <1>3 DEF orig, cand
  <2> QED
    BY <1>4, <1>5, <2>1 DEF Head, Exempt
<1>8. orig' = o
  BY <1>1, <1>3 DEF orig
<1>9. HeadInv'
  BY <1>5, <1>6, <1>7, <1>8 DEF HeadInv, Promoted, AfterCatchUp, BeforeCatchUp
<1>10. CompleteInv'
  BY <1>6 DEF CompleteInv, AfterCatchUp
<1> QED
  BY <1>9, <1>10

(* When the old primary is drained nothing is in flight behind the fence, and *)
(* the candidate has all that was committed.                                  *)
LEMMA NothingInFlight ==
  ASSUME TypeOK, Rest, CalmInv, status = "running", step = "promote-candidate", Super = {},
         NEW t \in Trx
  PROVE  /\ trx[t].state \notin {"active", "leaving"}
         /\ trx[t].state = "committed" => t \in server[cand].executed
<1>1. /\ Head(orig) /\ orig \in fenced /\ orig \in Nodes
  BY DEF CalmInv, HeadInv, Promoted, BeforeCatchUp, TypeOK, orig
<1>2. ~Accepts(orig, t)
  BY <1>1 DEF Rest, FenceInv, FenceHolds, BeforeCatchUp, Accepts
<1>3. trx[t].node = orig => trx[t].state \notin {"active", "leaving"}
  BY <1>1, <1>2 DEF Rest, NoLostWrite, AfterCatchUp
<1>4. trx[t].state = "committed" => Handed(t)
  BY <1>1, <1>2 DEF Handed, Head
<1> QED
  BY <1>1, <1>3, <1>4 DEF Head, CalmInv, CompleteInv, AfterCatchUp

(* All servers are closed from the lock to the promotion.                     *)
LEMMA AllClosed ==
  ASSUME TypeOK, Rest, CalmInv, status = "running", step = "promote-candidate"
  PROVE  \A n \in Nodes : server[n].readOnly
<1>1. Head(orig) /\ orig \in fenced
  BY DEF CalmInv, HeadInv, Promoted, BeforeCatchUp
<1>2. server[orig].readOnly
  BY <1>1 DEF Rest, FenceInv, FenceHolds, BeforeCatchUp
<1> QED
  BY <1>1, <1>2 DEF Head

LEMMA PromoteCalm ==
  ASSUME TypeOK, Rest, CalmInv, PromoteCandidate
  PROVE  HeadInv' /\ CompleteInv'
<1>1. PICK o \in Nodes, c \in Nodes : o = orig /\ c = cand
  BY DEF TypeOK, orig, cand
<1> DEFINE s == PromoteStatement(stmt, server[c])
<1>2. /\ status = "running" /\ step = "promote-candidate" /\ o # c
      /\ server[c] \in ServerStates /\ stmt \in 1..4
      /\ Statement(c, s, 4, StepCompleted) /\ StepCompleted \in BOOLEAN
  BY <1>1 DEF PromoteCandidate, At, Rest, PlanInv, TypeOK, ServersTypeOK, StepCompleted
<1>3. /\ s \in ServerStates /\ s.executed = server[c].executed
      /\ stmt < 4 => s.readOnly = server[c].readOnly
      /\ stmt = 4 => ~s.readOnly /\ s.source = server[c].source
      /\ stmt = 2 => s.source = NoSource
      /\ stmt = 3 => s.source = server[c].source
  <2>1. s \in ServerStates /\ s.executed = server[c].executed
    BY <1>2, StatementType, StatementFrame
  <2>2. stmt < 4 => s.readOnly = server[c].readOnly
    BY <1>2, PromotionMoves
  <2>3. stmt = 4 => ~s.readOnly /\ s.source = server[c].source
    BY <1>2, PromotionMoves
  <2>4. /\ stmt = 2 => s.source = NoSource
        /\ stmt = 3 => s.source = server[c].source
    BY <1>2, PromotionMoves
  <2> QED
    BY <2>1, <2>2, <2>3, <2>4
<1> HIDE DEF s
<1>4. /\ \A m \in Nodes \ {c} : SameServer(m)
      /\ SameServer(c) \/ server'[c] = s
      /\ UNCHANGED <<trx, crashes, view, plan, sample, endpoint, runs, fenced>>
      /\ \/ server'[c] = s /\ stmt < 4 /\ NextStatement
         \/ server'[c] = s /\ stmt = 4 /\ StepCompleted
         \/ StepFailed
  BY <1>2, <1>3, StatementEffect
<1>5. orig' = o /\ cand' = c
  BY <1>1, <1>4 DEF orig, cand
<1>6. /\ ~Exempt(c) /\ Head(o) /\ o \in fenced
      /\ stmt >= 3 => server[c].source = NoSource
      /\ server[o].source \in {NoSource, c}
      /\ \A t \in Trx : Handed(t) => t \in server[c].executed
  <2>1. Head(orig)
    BY <1>2 DEF CalmInv, HeadInv, Promoted
  <2> QED
    BY <1>1, <1>2, <2>1 DEF CalmInv, HeadInv, CompleteInv, Head, BeforeCatchUp, AfterCatchUp
<1>7. \A n \in Nodes : server[n].readOnly
  BY <1>2, AllClosed
(* Until the last statement takes effect the old primary is still the head.   *)
<1>8. stmt < 4 \/ SameServer(c) => Head(o)'
  <2>1. /\ server'[o].source = server[o].source
        /\ server'[o].executed = server[o].executed
    BY <1>2, <1>4 DEF SameServer
  <2>2. stmt < 4 \/ SameServer(c) => \A m \in Nodes \ {o} : server'[m].readOnly
    BY <1>3, <1>4, <1>7 DEF SameServer
  <2> QED
    BY <1>4, <1>6, <2>1, <2>2, HeadKept
<1>9. stmt = 4 /\ server'[c] = s => Head(c)' /\ ~server'[c].readOnly
  <2>1. SUFFICES ASSUME stmt = 4, server'[c] = s PROVE Head(c)' /\ ~server'[c].readOnly
    OBVIOUS
  <2>2. server'[c].source = NoSource /\ ~server'[c].readOnly /\ server'[c].executed = server[c].executed
    BY <1>3, <1>6, <2>1
  <2>3. \A m \in Nodes \ {c} : server'[m].readOnly
    BY <1>4, <1>7 DEF SameServer
  <2>4. ASSUME Super = {}, NEW t \in Trx
        PROVE  /\ trx[t].state \notin {"active", "leaving"}
               /\ trx[t].state = "committed" => t \in server[c].executed
    BY <1>1, <1>2, <2>4, NothingInFlight
  <2> QED
    BY <1>4, <1>6, <2>2, <2>3, <2>4 DEF Head, Exempt
<1>10. \E h \in Nodes : Head(h)'
  BY <1>2, <1>4, <1>8, <1>9
<1>11. /\ server'[o].source \in {NoSource, c}
       /\ \A t \in Trx : Handed(t)' => t \in server'[c].executed
  <2>1. server'[o] = server[o] /\ server'[c].executed = server[c].executed
    BY <1>2, <1>3, <1>4 DEF SameServer
  <2> QED
    BY <1>1, <1>5, <1>6, <2>1 DEF Handed, Accepts
<1>12. CASE status' # "running"
  BY <1>10, <1>12 DEF HeadInv, CompleteInv
<1>13. CASE status' = "running"
  <2>1. ~StepFailed
    BY <1>13 DEF StepFailed
  <2>2. CASE server'[c] = s /\ stmt < 4 /\ NextStatement
    <3>1. step' = "promote-candidate" /\ stmt' = stmt + 1
      BY <1>2, <2>2 DEF NextStatement
    <3>2. stmt' >= 3 => server'[c].source = NoSource
      BY <1>2, <1>3, <1>6, <2>2, <3>1
    <3>3. Head(orig)' /\ ~Exempt(cand)'
      BY <1>5, <1>6, <1>8, <2>2 DEF Head, Exempt
    <3>4. HeadInv'
      BY <1>4, <1>5, <1>6, <1>10, <3>1, <3>2, <3>3 DEF HeadInv, Promoted
    <3>5. CompleteInv'
      BY <1>5, <1>11, <3>1 DEF CompleteInv
    <3> QED
      BY <3>4, <3>5
  <2>3. CASE server'[c] = s /\ stmt = 4 /\ StepCompleted
    <3>1. /\ step' \in Promoted /\ todo' \subseteq Others
      BY <1>2, <2>3, StepCompletedTodo, PromotedFacts
    <3>2. Others' = Others
      BY <1>1, <1>5 DEF Others
    <3>3. Head(cand)' /\ ~Exempt(cand)' /\ ~server'[cand'].readOnly
      BY <1>5, <1>6, <1>9, <2>3 DEF Head, Exempt
    <3>4. HeadInv'
      BY <1>4, <1>5, <1>6, <1>10, <3>1, <3>2, <3>3, PromotedFacts DEF HeadInv
    <3>5. CompleteInv'
      BY <1>5, <1>11, <3>1, PromotedFacts DEF CompleteInv
    <3> QED
      BY <3>4, <3>5
  <2> QED
    BY <1>4, <2>1, <2>2, <2>3
<1> QED
  BY <1>12, <1>13

(* Repointing: the promoted server is left alone, and the old primary gets    *)
(* nothing any more but from it.                                              *)
LEMMA RepointStatementCalm ==
  ASSUME TypeOK, PlanInv, CalmInv, status = "running", step \in Promoted,
         NEW n \in Nodes, n # cand, NEW done \in BOOLEAN,
         Statement(n, RepointStatement(stmt, server[n], cand), 3, done),
         done => \/ StepCompleted
                 \/ todo' \subseteq todo /\ UNCHANGED step
  PROVE  HeadInv' /\ CompleteInv'
<1>1. PICK o \in Nodes, c \in Nodes : o = orig /\ c = cand
  BY DEF TypeOK, orig, cand
<1> DEFINE s == RepointStatement(stmt, server[n], c)
<1>2. /\ server[n] \in ServerStates
      /\ Statement(n, s, 3, done)
  BY <1>1 DEF TypeOK, ServersTypeOK
<1>3. /\ s \in ServerStates /\ s.executed = server[n].executed
      /\ s.readOnly = server[n].readOnly /\ s.superReadOnly = server[n].superReadOnly
      /\ s.source \in {server[n].source, c}
      /\ s.relay \in {server[n].relay, {}}
  BY <1>2, StatementType, StatementFrame, StatementChannel
<1> HIDE DEF s
<1>4. /\ \A m \in Nodes \ {n} : SameServer(m)
      /\ SameServer(n) \/ server'[n] = s
      /\ UNCHANGED <<trx, crashes, view, plan, sample, endpoint, runs, fenced>>
      /\ (server'[n] = s /\ stmt < 3 /\ NextStatement) \/ done \/ StepFailed
  BY <1>2, <1>3, StatementEffect
<1>5. orig' = o /\ cand' = c
  BY <1>1, <1>4 DEF orig, cand
<1>6. /\ step # "none" /\ ~Exempt(c) /\ Head(c) /\ ~server[c].readOnly /\ o \in fenced
      /\ step = "repoint-replicas" => todo \subseteq Others
      /\ server[o].source \in {NoSource, c}
      /\ \A t \in Trx : Handed(t) => t \in server[c].executed
  BY <1>1, PromotedFacts DEF CalmInv, HeadInv, CompleteInv, Head
<1>7. /\ server'[c] = server[c]
      /\ \A m \in Nodes : /\ server'[m].readOnly = server[m].readOnly
                          /\ server'[m].superReadOnly = server[m].superReadOnly
                          /\ server'[m].executed = server[m].executed
                          /\ server'[m].source \in {server[m].source, c}
                          /\ server'[m].relay \in {server[m].relay, {}}
  BY <1>1, <1>3, <1>4 DEF SameServer
<1>8. Head(c)'
  BY <1>4, <1>6, <1>7, HeadKept
<1>9. /\ status' = "running" => step' \in Promoted
      /\ status' = "running" /\ step' = "repoint-replicas" => todo' \subseteq Others
  <2>1. CASE StepCompleted
    BY <2>1, StepCompletedTodo, PromotedFacts
  <2>2. CASE StepFailed
    BY <2>2 DEF StepFailed
  <2>3. CASE NextStatement
    BY <1>6, <2>3 DEF NextStatement
  <2>4. CASE todo' \subseteq todo /\ UNCHANGED step
    BY <1>6, <2>4
  <2> QED
    BY <1>4, <2>1, <2>2, <2>3, <2>4
<1>10. HeadInv'
  <2>1. Others' = Others
    BY <1>1, <1>5 DEF Others
  <2>2. Head(cand)' /\ ~Exempt(cand)' /\ ~server'[cand'].readOnly
    BY <1>5, <1>6, <1>7, <1>8 DEF Head, Exempt
  <2> QED
    BY <1>4, <1>5, <1>6, <1>8, <1>9, <2>1, <2>2, PromotedFacts DEF HeadInv
<1>11. CompleteInv'
  <2>1. server'[o].source \in {NoSource, c}
    BY <1>6, <1>7
  <2>2. \A t \in Trx : Handed(t)' => Handed(t)
    BY <1>1, <1>5, <1>7 DEF Handed, Accepts
  <2>3. \A t \in Trx : Handed(t)' => t \in server'[c].executed
    BY <1>6, <1>7, <2>2
  <2> QED
    BY <1>5, <1>9, <2>1, <2>3, PromotedFacts DEF CompleteInv
<1> QED
  BY <1>10, <1>11

LEMMA RepointCalm ==
  ASSUME TypeOK, PlanInv, CalmInv, RepointReplicas \/ RepointOldPrimary
  PROVE  HeadInv' /\ CompleteInv'
<1> USE DEF At
<1>1. CASE RepointReplicas
  <2>1. PICK n \in todo : Statement(n, RepointStatement(stmt, server[n], cand), 3, NextNode(n))
    BY <1>1 DEF RepointReplicas
  <2>2. step \in Promoted /\ status = "running" /\ todo \subseteq Others
    BY <1>1 DEF RepointReplicas, Promoted, AfterCatchUp, CalmInv, HeadInv
  <2>3. n \in Nodes /\ n # cand
    BY <2>2 DEF Others, Repointable
  <2>4. /\ NextNode(n) \in BOOLEAN
        /\ NextNode(n) => StepCompleted \/ (todo' \subseteq todo /\ UNCHANGED step)
    BY DEF NextNode, StepCompleted
  <2> QED
    BY <2>1, <2>2, <2>3, <2>4, RepointStatementCalm
<1>2. CASE RepointOldPrimary
  <2>1. step \in Promoted /\ status = "running" /\ orig \in Nodes /\ orig # cand
    BY <1>2 DEF RepointOldPrimary, Promoted, AfterCatchUp, PlanInv, TypeOK, orig
  <2>2. StepCompleted \in BOOLEAN
    BY DEF StepCompleted
  <2>3. Statement(orig, RepointStatement(stmt, server[orig], cand), 3, StepCompleted)
    BY <1>2 DEF RepointOldPrimary
  <2> QED
    BY <2>1, <2>2, <2>3, RepointStatementCalm
<1> QED
  BY <1>1, <1>2

LEMMA ExecutionCalm ==
  ASSUME TypeOK, Rest, LogInv, CalmInv, Execution
  PROVE  CalmInv'
<1>1. status = "running" /\ UNCHANGED <<view, plan>>
  BY ExecutionFrame
<1>2. \A n \in Nodes : server'[n].up = server[n].up
  BY ExecutionFlow DEF Rest, FlowOK
<1>3. ViewInv'
  BY <1>1 DEF CalmInv, ViewInv
<1>4. HeadInv' /\ CompleteInv'
  BY <1>1, QuietCalm, LockCalm, PromoteCalm, RepointCalm DEF Execution, Quiet, Rest
<1> QED
  BY <1>2, <1>3, <1>4 DEF CalmInv
-----------------------------------------------------------------------------
(* CalmInv under clients and replication. *)

(* Where no session outlasts read_only, writes are begun on the head only,    *)
(* and are committed there.                                                   *)
LEMMA TrafficHead ==
  ASSUME TypeOK, Clients \/ Replication, NEW h \in Nodes, Head(h)
  PROVE  Head(h)'
<1> USE DEF TypeOK, ServersTypeOK
<1>1. /\ server'[h].source = NoSource /\ ~Exempt(h)
      /\ \A n \in Nodes \ {h} : server'[n].readOnly
      /\ server[h].executed \subseteq server'[h].executed
  BY TrafficFrame DEF Head, Alike
<1>2. ASSUME Super = {}, NEW t \in Trx
      PROVE  /\ trx'[t].state \in {"active", "leaving"} => trx'[t].node = h
             /\ trx'[t].state = "committed" => t \in server'[h].executed
  <2>1. /\ trx[t].state \in {"active", "leaving"} => trx[t].node = h
        /\ trx[t].state = "committed" => t \in server[h].executed
    BY <1>2 DEF Head
  <2>2. ASSUME NEW u \in Trx, NEW n \in Nodes, Begin(u, n)
        PROVE  trx'[t] = trx[t] \/ (trx'[t].state = "active" /\ trx'[t].node = h)
    <3>1. n = h
      BY <1>2, <2>2 DEF Begin, Accepts, Head
    <3> QED
      BY <2>2, <3>1 DEF Begin
  <2>3. ASSUME NEW u \in Trx, Rollback(u) \/ Commit(u)
        PROVE  \/ trx'[t] = trx[t]
               \/ /\ trx[t].state = "active" /\ trx'[t].state \in {"idle", "leaving"}
                  /\ trx'[t].node = trx[t].node
    BY <2>3 DEF Rollback, Commit, TrxStates
  <2>4. ASSUME NEW u \in Trx, Publish(u)
        PROVE  \/ trx'[t] = trx[t]
               \/ /\ trx[t].state = "leaving" /\ trx'[t].state = "committed"
                  /\ t \in server'[trx[t].node].executed
    BY <2>4 DEF Publish, TrxStates, ServerStates
  <2>5. CASE Replication
    BY <1>1, <2>1, <2>5 DEF Replication, Fetch, Apply
  <2>6. CASE Clients
    BY <1>1, <2>1, <2>2, <2>3, <2>4, <2>6 DEF Clients
  <2> QED
    BY <2>5, <2>6
<1> QED
  BY <1>1, <1>2 DEF Head, Exempt

(* Behind the fence the old primary gets nothing new that the fence excludes, *)
(* but, once it follows the candidate, from there.                            *)
LEMMA TrafficHanded ==
  ASSUME TypeOK, Rest, LogInv, CalmInv, Clients \/ Replication, UNCHANGED executorVars,
         status = "running",
         step \in AfterCatchUp \/ (step = "wait-candidate-catchup" /\ stmt = 4),
         NEW t \in Trx, Handed(t)'
  PROVE  \/ Handed(t)
         \/ step \in AfterCatchUp /\ t \in server[cand].executed
<1> USE DEF TypeOK, ServersTypeOK
<1>1. /\ orig \in Nodes /\ cand \in Nodes /\ orig' = orig
      /\ orig \in fenced /\ FenceHolds
  BY DEF orig, cand, executorVars, CalmInv, HeadInv, FenceHolds, AfterCatchUp, BeforeCatchUp
<1>2. ~Accepts(orig, t) /\ t \in server'[orig].executed \cup server'[orig].relay
  BY <1>1, TrafficFrame DEF Handed, Accepts, Alike
<1>3. /\ step \notin AfterCatchUp => server[orig].source = NoSource
      /\ step \in AfterCatchUp => server[orig].source \in {NoSource, cand}
  BY DEF CalmInv, HeadInv, CompleteInv, Head, Promoted
<1>4. CASE UNCHANGED server
  BY <1>2, <1>4 DEF Handed
<1>5. ASSUME NEW u \in Trx, Publish(u) PROVE Handed(t)
  <2>1. trx[u].node \in Nodes
    BY DEF TrxStates
  <2>2. /\ server'[orig].relay = server[orig].relay
        /\ trx[u].node # orig => server'[orig] = server[orig]
        /\ server'[orig].executed \subseteq server[orig].executed \cup {u}
    BY <1>1, <1>5, <2>1 DEF Publish, ServerStates
  <2>3. trx[u].node = orig /\ u = t => FALSE
    <3>1. SUFFICES ASSUME trx[u].node = orig, u = t PROVE FALSE
      OBVIOUS
    <3>2. Excluded(t) /\ trx[t].state = "leaving"
      BY <1>2, <1>5, <3>1 DEF Excluded, Publish
    <3>3. CASE step \in AfterCatchUp
      BY <1>1, <3>2, <3>3 DEF Rest, NoLostWrite, Excluded
    <3>4. CASE step = "wait-candidate-catchup" /\ stmt = 4
      BY <1>1, <3>2, <3>4, NoneLeaving
    <3> QED
      BY <3>3, <3>4
  <2> QED
    BY <1>2, <2>2, <2>3 DEF Handed
<1>6. ASSUME NEW n \in Nodes, NEW u \in Trx, Fetch(n, u)
      PROVE  Handed(t) \/ (step \in AfterCatchUp /\ t \in server[cand].executed)
  <2>1. /\ server[n].source # NoSource
        /\ u \in server[server[n].source].executed
        /\ \A m \in Nodes \ {n} : server'[m] = server[m]
        /\ server'[n].executed = server[n].executed
        /\ server'[n].relay = server[n].relay \cup {u}
    BY <1>6 DEF Fetch, IOThreadRunning, Fetched, ServerStates
  <2>2. n = orig => step \in AfterCatchUp /\ u \in server[cand].executed
    BY <1>3, <2>1
  <2> QED
    BY <1>1, <1>2, <2>1, <2>2 DEF Handed
<1>7. ASSUME NEW n \in Nodes, NEW u \in Trx, Apply(n, u) PROVE Handed(t)
  <2>1. /\ u \in server[n].relay
        /\ \A m \in Nodes \ {n} : server'[m] = server[m]
        /\ server'[n].executed = server[n].executed \cup {u}
        /\ server'[n].relay = server[n].relay \ {u}
    BY <1>7 DEF Apply, Applied, ServerStates
  <2> QED
    BY <1>1, <1>2, <2>1 DEF Handed
<1>8. CASE Clients
  BY <1>4, <1>5, <1>8 DEF Clients, Begin, Rollback, Commit
<1>9. CASE Replication
  BY <1>6, <1>7, <1>9 DEF Replication
<1> QED
  BY <1>8, <1>9

LEMMA TrafficComplete ==
  ASSUME TypeOK, Rest, LogInv, CalmInv, Clients \/ Replication, UNCHANGED executorVars
  PROVE  CompleteInv'
<1>1. /\ UNCHANGED <<step, stmt, sample, status, plan>>
      /\ orig \in Nodes /\ cand \in Nodes /\ orig' = orig /\ cand' = cand
  BY DEF executorVars, TypeOK, orig, cand
<1>2. /\ server'[orig].source = server[orig].source
      /\ server[cand].executed \subseteq server'[cand].executed
  BY <1>1, TrafficFrame DEF TypeOK, Alike
<1>3. ASSUME status = "running", step = "wait-candidate-catchup", stmt = 4,
             NEW t \in Trx, Handed(t)'
      PROVE  t \in sample.gtid
  <2>1. Handed(t)
    BY <1>3, TrafficHanded DEF AfterCatchUp
  <2> QED
    BY <1>3, <2>1 DEF CalmInv, CompleteInv
<1>4. ASSUME status = "running", step \in AfterCatchUp, NEW t \in Trx, Handed(t)'
      PROVE  t \in server'[cand].executed
  <2>1. Handed(t) \/ t \in server[cand].executed
    BY <1>4, TrafficHanded
  <2> QED
    BY <1>2, <1>4, <2>1 DEF CalmInv, CompleteInv
<1> QED
  BY <1>1, <1>2, <1>3, <1>4 DEF CalmInv, CompleteInv

LEMMA EnvironmentCalm ==
  ASSUME TypeOK, Rest, LogInv, CalmInv, crashes = 0, crashes' = 0, Environment
  PROVE  (Clients \/ Replication) /\ UNCHANGED executorVars /\ CalmInv'
<1>1. \A n \in Nodes : ~Crash(n) /\ ~Recover(n)
  BY DEF Crash, Recover, CalmInv
<1>2. (Clients \/ Replication) /\ UNCHANGED executorVars
  BY <1>1 DEF Environment
<1>3. /\ UNCHANGED <<step, stmt, todo, view, plan, status, fenced>>
      /\ orig' = orig /\ cand' = cand
  BY <1>2 DEF executorVars, orig, cand
<1>4. \A n \in Nodes : Alike(server'[n], server[n]) /\ server'[n].up = server[n].up
  BY <1>2, TrafficFrame DEF TypeOK
<1>5. \A h \in Nodes : Head(h) => Head(h)'
  BY <1>2, TrafficHead
<1>6. HeadInv'
  <2>1. PICK o \in Nodes, c \in Nodes : o = orig /\ c = cand
    BY DEF TypeOK, orig, cand
  <2>2. Head(o) => Head(orig)'
    BY <1>3, <1>5, <2>1 DEF Head, Exempt
  <2>3. Head(c) => Head(cand)'
    BY <1>3, <1>5, <2>1 DEF Head, Exempt
  <2>4. /\ Head(orig) => Head(orig)'
        /\ Head(cand) => Head(cand)'
    BY <2>1, <2>2, <2>3
  <2>5. Exempt(cand)' = Exempt(cand) /\ Others' = Others
    BY <1>3 DEF Exempt, Others
  <2>6. \E h \in Nodes : Head(h)'
    BY <1>5 DEF CalmInv, HeadInv
  <2>7. \A n \in Nodes : server'[n].readOnly = server[n].readOnly /\ server'[n].source = server[n].source
    BY <1>4 DEF Alike
  <2> QED
    BY <1>3, <2>1, <2>4, <2>5, <2>6, <2>7 DEF CalmInv, HeadInv
<1>7. ViewInv'
  BY <1>3, <1>4 DEF CalmInv, ViewInv, Alike
<1>8. CompleteInv'
  BY <1>2, TrafficComplete
<1> QED
  BY <1>2, <1>4, <1>6, <1>7, <1>8 DEF CalmInv

-----------------------------------------------------------------------------
(* The invariant, and what follows from it. *)

LEMMA HandoverStepInv ==
  ASSUME OrderlyCluster, HandoverInv, IInv', [Next]_vars
  PROVE  HandoverInv'
<1>1. TypeOK /\ Rest /\ LogInv
  BY DEF HandoverInv, IInv, Rest
<1>2. LogInv'
  BY <1>1, LogStep
<1>3. ASSUME crashes' = 0 PROVE CalmInv'
  <2>1. crashes = 0 /\ CalmInv
    <3>1. crashes' >= crashes /\ crashes \in Nat
      <4>1. CASE Run \/ Planning \/ UNCHANGED vars
        BY <1>1, <4>1, ServersAssumption
           DEF Run, Planning, Inspect, BuildPlan, PlanRefused, vars, serverVars, TypeOK, ServersTypeOK
      <4>2. CASE Execution
        BY <1>1, <4>2, ExecutionLogs, ServersAssumption DEF TypeOK, ServersTypeOK
      <4>3. CASE Environment
        <5>1. Clients \/ Replication => UNCHANGED crashes
          BY DEF Clients, Replication, Begin, Rollback, Commit, Publish, Fetch, Apply
        <5>2. ASSUME NEW n \in Nodes, Crash(n) \/ Recover(n) PROVE crashes' \in {crashes, crashes + 1}
          BY <5>2 DEF Crash, Recover
        <5>3. crashes' \in {crashes, crashes + 1}
          BY <4>3, <5>1, <5>2 DEF Environment
        <5> QED
          BY <1>1, <5>3, ServersAssumption DEF TypeOK, ServersTypeOK
      <4> QED
        BY <4>1, <4>2, <4>3 DEF Next
    <3> QED
      BY <1>3, <3>1 DEF HandoverInv
  <2>2. CASE UNCHANGED vars
    BY <2>1, <2>2 DEF vars, CalmInv, ViewInv, HeadInv, CompleteInv, Head, Exempt, Handed, Accepts,
                      Others, orig, cand
  <2> QED
    BY <1>1, <1>3, <2>1, <2>2, PlanningCalm, ExecutionCalm, EnvironmentCalm DEF Next
<1> QED
  BY <1>2, <1>3 DEF HandoverInv

(* The invariant behind the hand-over holds, crashes or not, for any number   *)
(* of nodes, transactions and runs.                                           *)
THEOREM HandoverInductive == ASSUME OrderlyCluster PROVE Spec => []HandoverInv
<1>1. Init => HandoverInv
  BY InitType, InitRest, LogInit, InitCalm DEF HandoverInv, IInv, Rest, Init, VerifiedInv
<1>2. HandoverInv /\ IInv' /\ [Next]_vars => HandoverInv'
  BY HandoverStepInv
<1> QED
  BY <1>1, <1>2, Inductive, PTL DEF Spec

(* As long as no server restarts, at most one server is open to ordinary      *)
(* writes, whatever fails and however often the switchover is run again.      *)
THEOREM AtMostOneWriterHolds == ASSUME OrderlyCluster PROVE Spec => []AtMostOneWriter
<1>1. HandoverInv => AtMostOneWriter
  <2> SUFFICES ASSUME HandoverInv, crashes = 0
               PROVE  Cardinality({n \in Nodes : ~server[n].readOnly}) <= 1
    BY DEF AtMostOneWriter
  <2> DEFINE S == {n \in Nodes : ~server[n].readOnly}
  <2>1. PICK h \in Nodes : Head(h)
    BY DEF HandoverInv, CalmInv, HeadInv
  <2>2. S = {} \/ S = {h}
    BY <2>1 DEF Head
  <2>3. Cardinality(S) \in {0, 1}
    BY <2>2, FS_EmptySet, FS_Singleton
  <2> QED
    BY <2>3
<1> QED
  BY <1>1, HandoverInductive, PTL

(* The writer endpoint leaves the old primary only for an open candidate, and *)
(* the candidate then has everything that the fence excludes there: in every  *)
(* run without a crash, sessions with SUPER or not.                           *)
THEOREM EndpointFollowsHandoverHolds == ASSUME OrderlyCluster PROVE Spec => EndpointFollowsHandover
<1>1. HandoverInv /\ [Next]_vars =>
        [endpoint' # endpoint /\ crashes = 0 =>
           /\ ~server[endpoint'].readOnly /\ server[orig].readOnly
           /\ \A t \in Trx : ~Accepts(orig, t) /\ t \in server[orig].executed
                               => t \in server[endpoint'].executed]_vars
  <2> SUFFICES ASSUME HandoverInv, Next, endpoint' # endpoint, crashes = 0
               PROVE  /\ ~server[endpoint'].readOnly /\ server[orig].readOnly
                      /\ \A t \in Trx : ~Accepts(orig, t) /\ t \in server[orig].executed
                                          => t \in server[endpoint'].executed
    BY DEF vars
  <2>1. /\ TypeOK /\ PlanInv /\ CalmInv
        /\ orig \in Nodes /\ cand \in Nodes
    BY DEF HandoverInv, IInv, TypeOK, orig, cand
  <2>2. SwitchWriterEndpoint
    <3>1. ~Environment
      BY DEF Environment, executorVars
    <3>2. ~Run /\ ~Planning
      BY DEF Run, Planning, Inspect, BuildPlan, PlanRefused
    <3>3. ~LockCandidate /\ ~LockOldPrimary
      BY <2>1, FenceEffect DEF LockCandidate, LockOldPrimary
    <3>4. ASSUME NEW n, NEW s, NEW last, NEW done \in BOOLEAN PROVE ~Statement(n, s, last, done)
      BY Zenon DEF Statement
    <3>5. ~PromoteCandidate /\ ~RepointOldPrimary
      <4>1. StepCompleted \in BOOLEAN
        BY DEF StepCompleted
      <4> QED
        BY <3>4, <4>1 DEF PromoteCandidate, RepointOldPrimary
    <3>6. ~RepointReplicas
      <4>1. \A n : NextNode(n) \in BOOLEAN
        BY DEF NextNode, StepCompleted
      <4> QED
        BY <3>4, <4>1 DEF RepointReplicas
    <3>7. ~VerifyCluster
      BY Zenon DEF VerifyCluster, VerifyNode
    <3>8. /\ ~PrecheckWriterEndpoint /\ ~CountActiveWrites /\ ~ReadGTIDExecuted /\ ~PollAgain
          /\ ~WaitForExecutedGTIDSet /\ ~CatchUpTimeout /\ ~VerifyWriterEndpoint
      BY DEF PrecheckWriterEndpoint, CountActiveWrites, ReadGTIDExecuted, PollAgain,
             WaitForExecutedGTIDSet, CatchUpTimeout, VerifyWriterEndpoint
    <3> QED
      BY <3>1, <3>2, <3>3, <3>5, <3>6, <3>7, <3>8 DEF Next, Execution
  <2>3. /\ endpoint' = cand /\ status = "running" /\ step \in Promoted /\ step \in AfterCatchUp
    BY <2>2 DEF SwitchWriterEndpoint, At, Promoted, AfterCatchUp
  <2>4. /\ Head(cand) /\ ~server[cand].readOnly /\ orig # cand
        /\ \A t \in Trx : Handed(t) => t \in server[cand].executed
    BY <2>1, <2>3 DEF CalmInv, HeadInv, CompleteInv, PlanInv, AfterCatchUp
  <2> QED
    BY <2>1, <2>3, <2>4 DEF Head, Handed
<1> QED
  BY <1>1, HandoverInductive, PTL DEF Spec, EndpointFollowsHandover
-----------------------------------------------------------------------------
(* The refinement: every step is one of the hand-over, or changes nothing     *)
(* that it speaks of.                                                         *)

LEMMA SameImage ==
  /\ (\A n \in Nodes : server'[n].readOnly = server[n].readOnly) => OpenServers' = OpenServers
  /\ (\A n \in Nodes : server'[n].executed = server[n].executed) => Copies' = Copies
  /\ (\A t \in Trx : trx'[t].node = trx[t].node /\ trx'[t].state = trx[t].state)
       => Writing' = Writing /\ Committed' = Committed
<1>1. ASSUME \A t \in Trx : trx'[t].node = trx[t].node /\ trx'[t].state = trx[t].state
      PROVE  Writing' = Writing /\ Committed' = Committed
  <2>1. \A w \in Trx \X Nodes : w[1] \in Trx
    OBVIOUS
  <2> QED
    BY <1>1, <2>1 DEF Writing, Committed
<1> QED
  BY <1>1 DEF OpenServers, Copies

(* A step that changes no mode, copy, transaction nor the endpoint.           *)
LEMMA Stutters ==
  ASSUME \A n \in Nodes : /\ server'[n].readOnly = server[n].readOnly
                          /\ server'[n].executed = server[n].executed,
         \A t \in Trx : trx'[t].node = trx[t].node /\ trx'[t].state = trx[t].state,
         UNCHANGED endpoint
  PROVE  UNCHANGED Handover!handoverVars
BY SameImage DEF Handover!handoverVars

LEMMA LockRefines ==
  ASSUME TypeOK, LockCandidate \/ LockOldPrimary
  PROVE  Handover!HandoverNext \/ UNCHANGED Handover!handoverVars
<1>1. PICK n \in Nodes : Fence(n)
  BY DEF LockCandidate, LockOldPrimary, TypeOK, orig, cand
<1>2. /\ \A m \in Nodes \ {n} : SameServer(m)
      /\ FencedServer(n)
      /\ UNCHANGED <<trx, endpoint>>
  BY <1>1, FenceEffect
<1>3. Copies' = Copies /\ Writing' = Writing /\ Committed' = Committed
  BY <1>2, SameImage DEF SameServer, FencedServer
<1>4. OpenServers' = OpenServers \/ OpenServers' = OpenServers \ {n}
  BY <1>2 DEF OpenServers, SameServer, FencedServer
<1>5. CASE OpenServers' = OpenServers
  BY <1>2, <1>3, <1>5 DEF Handover!handoverVars
<1>6. CASE OpenServers' = OpenServers \ {n}
  BY <1>2, <1>3, <1>6 DEF Handover!HandoverNext, Handover!Close
<1> QED
  BY <1>4, <1>5, <1>6

(* The promotion opens the candidate when all servers are closed, nothing is  *)
(* in flight, and the candidate has everything that was committed.            *)
LEMMA PromoteRefines ==
  ASSUME TypeOK, Rest, CalmInv, Super = {}, PromoteCandidate
  PROVE  Handover!HandoverNext \/ UNCHANGED Handover!handoverVars
<1>1. /\ cand \in Nodes /\ status = "running" /\ step = "promote-candidate"
      /\ server[cand] \in ServerStates /\ StepCompleted \in BOOLEAN
  BY DEF TypeOK, ServersTypeOK, cand, PromoteCandidate, At, StepCompleted
<1>2. PICK c \in Nodes : c = cand
  BY <1>1
<1> DEFINE s == PromoteStatement(stmt, server[c])
<1>3. s \in ServerStates /\ s.executed = server[c].executed
  BY <1>1, <1>2, StatementType, StatementFrame
<1>4. Statement(c, s, 4, StepCompleted)
  BY <1>2 DEF PromoteCandidate
<1> HIDE DEF s
<1>5. /\ \A m \in Nodes \ {c} : SameServer(m)
      /\ SameServer(c) \/ server'[c] = s
      /\ UNCHANGED <<trx, endpoint>>
  BY <1>1, <1>3, <1>4, StatementEffect
<1>6. Copies' = Copies /\ Writing' = Writing /\ Committed' = Committed
  BY <1>3, <1>5, SameImage DEF SameServer
<1>7. OpenServers = {} /\ OpenServers' \in {{}, {c}}
  <2>1. \A n \in Nodes : server[n].readOnly
    BY <1>1, AllClosed
  <2> QED
    BY <1>5, <2>1 DEF OpenServers, SameServer
<1>8. Writing \subseteq Trx \X {c} /\ Committed \subseteq Copies[c]
  <2>1. \A t \in Trx : /\ trx[t].state \notin {"active", "leaving"}
                       /\ trx[t].state = "committed" => t \in server[c].executed
    BY <1>1, <1>2, NothingInFlight
  <2>2. ASSUME NEW w \in Writing PROVE FALSE
    <3>1. PICK t \in Trx : t = w[1]
      BY DEF Writing
    <3>2. trx[t].state \in {"active", "leaving"}
      BY <3>1 DEF Writing
    <3> QED
      BY <2>1, <3>2
  <2>3. Writing = {}
    BY <2>2
  <2>4. Committed \subseteq Copies[c]
    BY <2>1 DEF Committed, Copies
  <2> QED
    BY <2>3, <2>4
<1>9. CASE OpenServers' = {}
  BY <1>5, <1>6, <1>7, <1>9 DEF Handover!handoverVars
<1>10. CASE OpenServers' = {c}
  <2>1. Handover!Open(c)
    BY <1>5, <1>6, <1>7, <1>8, <1>10 DEF Handover!Open
  <2> QED
    BY <2>1 DEF Handover!HandoverNext
<1> QED
  BY <1>7, <1>9, <1>10

LEMMA RepointRefines ==
  ASSUME TypeOK, RepointReplicas \/ RepointOldPrimary
  PROVE  UNCHANGED Handover!handoverVars
<1>1. \A n : NextNode(n) \in BOOLEAN /\ StepCompleted \in BOOLEAN
  BY DEF NextNode, StepCompleted
<1>2. PICK n \in Nodes, done \in BOOLEAN :
        Statement(n, RepointStatement(stmt, server[n], cand), 3, done)
  BY <1>1 DEF RepointReplicas, RepointOldPrimary, TypeOK, orig
<1> DEFINE s == RepointStatement(stmt, server[n], cand)
<1>3. /\ s \in ServerStates /\ s.executed = server[n].executed
      /\ s.readOnly = server[n].readOnly
  BY StatementType, StatementFrame DEF TypeOK, ServersTypeOK, cand
<1>4. Statement(n, s, 3, done)
  BY <1>2
<1> HIDE DEF s
<1>5. /\ \A m \in Nodes \ {n} : SameServer(m)
      /\ SameServer(n) \/ server'[n] = s
      /\ UNCHANGED <<trx, endpoint>>
  BY <1>3, <1>4, StatementEffect
<1> QED
  BY <1>3, <1>5, Stutters DEF SameServer

(* The endpoint is rerouted to the open candidate, or left.                   *)
LEMMA QuietRefines ==
  ASSUME TypeOK, CalmInv, Quiet
  PROVE  Handover!HandoverNext \/ UNCHANGED Handover!handoverVars
<1>1. /\ UNCHANGED server
      /\ \A t \in Trx : trx'[t].node = trx[t].node /\ trx'[t].state = trx[t].state
  BY QuietEffect
<1>2. CASE UNCHANGED endpoint
  BY <1>1, <1>2, Stutters
<1>3. CASE ~UNCHANGED endpoint
  <2>1. SwitchWriterEndpoint
    <3>1. ~VerifyCluster
      BY <1>3, Zenon DEF VerifyCluster, VerifyNode
    <3> QED
      BY <1>3, <3>1 DEF Quiet, PrecheckWriterEndpoint, CountActiveWrites, ReadGTIDExecuted, PollAgain,
                        WaitForExecutedGTIDSet, CatchUpTimeout, VerifyWriterEndpoint
  <2>2. endpoint' = cand /\ cand \in Nodes /\ ~server[cand].readOnly
    BY <1>3, <2>1 DEF SwitchWriterEndpoint, At, TypeOK, cand, CalmInv, HeadInv, Promoted, AfterCatchUp
  <2>3. /\ OpenServers' = OpenServers /\ Copies' = Copies
        /\ Writing' = Writing /\ Committed' = Committed
    BY <1>1, SameImage
  <2>4. PICK c \in Nodes : c = cand
    BY <2>2
  <2>5. Handover!Reroute(c)
    BY <2>2, <2>3, <2>4 DEF Handover!Reroute, OpenServers
  <2> QED
    BY <2>5 DEF Handover!HandoverNext
<1> QED
  BY <1>2, <1>3

(* What clients and replication do is what the hand-over lets them do.        *)
LEMMA BeginRefines ==
  ASSUME TypeOK, Super = {}, NEW t \in Trx, NEW n \in Nodes, Begin(t, n), UNCHANGED endpoint
  PROVE  Handover!BeginWrite(t, n)
<1> USE DEF TypeOK, ServersTypeOK, TrxStates
<1>1. /\ ~server[n].readOnly /\ UNCHANGED server /\ trx[t].state = "idle"
      /\ trx' = [trx EXCEPT ![t] = [state |-> "active", node |-> n, age |-> 0]]
  BY DEF Begin, Accepts
<1>2. n \in OpenServers /\ t \notin Committed /\ \A m \in Nodes : <<t, m>> \notin Writing
  BY <1>1 DEF OpenServers, Committed, Writing
<1>3. OpenServers' = OpenServers /\ Copies' = Copies
  BY <1>1 DEF OpenServers, Copies
<1>4. Committed' = Committed
  BY <1>1 DEF Committed
<1>5. Writing' = Writing \cup {<<t, n>>}
  <2>1. ASSUME NEW u \in Trx, NEW m \in Nodes
        PROVE  <<u, m>> \in Writing' <=> <<u, m>> \in Writing \cup {<<t, n>>}
    BY <1>1 DEF Writing
  <2>2. Writing' \subseteq Trx \X Nodes /\ Writing \cup {<<t, n>>} \subseteq Trx \X Nodes
    BY DEF Writing
  <2> QED
    BY <2>1, <2>2
<1> QED
  BY <1>2, <1>3, <1>4, <1>5 DEF Handover!BeginWrite

(* A transaction that ends leaves the set of those being written.             *)
LEMMA EndsWriting ==
  ASSUME TypeOK, NEW t \in Trx, trx[t].state \in {"active", "leaving"},
         trx'[t].state \in {"idle", "committed"}, \A u \in Trx \ {t} : trx'[u] = trx[u]
  PROVE  /\ <<t, trx[t].node>> \in Writing
         /\ Writing' = Writing \ {<<t, trx[t].node>>}
<1>1. trx[t].node \in Nodes
  BY DEF TypeOK, ServersTypeOK, TrxStates
<1>2. ASSUME NEW u \in Trx, NEW m \in Nodes
      PROVE  <<u, m>> \in Writing' <=> <<u, m>> \in Writing \ {<<t, trx[t].node>>}
  BY DEF Writing
<1>3. Writing' \subseteq Trx \X Nodes /\ Writing \subseteq Trx \X Nodes
  BY DEF Writing
<1> QED
  BY <1>1, <1>2, <1>3 DEF Writing

LEMMA RollbackRefines ==
  ASSUME TypeOK, NEW t \in Trx, NEW n \in Nodes, n = trx[t].node, Rollback(t), UNCHANGED endpoint
  PROVE  Handover!AbortWrite(t, n)
<1>1. /\ trx[t].state = "active" /\ trx'[t].state = "idle" /\ UNCHANGED server
      /\ \A u \in Trx \ {t} : trx'[u] = trx[u]
  BY DEF Rollback, TypeOK, ServersTypeOK, TrxStates
<1>2. <<t, n>> \in Writing /\ Writing' = Writing \ {<<t, n>>}
  BY <1>1, EndsWriting
<1>3. OpenServers' = OpenServers /\ Copies' = Copies /\ Committed' = Committed
  BY <1>1 DEF OpenServers, Copies, Committed
<1> QED
  BY <1>2, <1>3 DEF Handover!AbortWrite

LEMMA PublishRefines ==
  ASSUME TypeOK, NEW t \in Trx, NEW n \in Nodes, n = trx[t].node, Publish(t), UNCHANGED endpoint
  PROVE  Handover!CommitWrite(t, n)
<1>1. /\ trx[t].state = "leaving" /\ trx'[t].state = "committed"
      /\ \A u \in Trx \ {t} : trx'[u] = trx[u]
  BY DEF Publish, TypeOK, ServersTypeOK, TrxStates
<1>2. <<t, n>> \in Writing /\ Writing' = Writing \ {<<t, n>>}
  BY <1>1, EndsWriting
<1>3. /\ \A m \in Nodes \ {n} : server'[m] = server[m]
      /\ server'[n].readOnly = server[n].readOnly
      /\ server'[n].executed = server[n].executed \cup {t}
  BY DEF Publish, TypeOK, ServersTypeOK, ServerStates
<1>4. OpenServers' = OpenServers
  BY <1>3 DEF OpenServers
<1>5. Committed' = Committed \cup {t}
  BY <1>1 DEF Committed
<1>6. Copies' = [Copies EXCEPT ![n] = @ \cup {t}]
  BY <1>3 DEF Copies
<1> QED
  BY <1>2, <1>4, <1>5, <1>6 DEF Handover!CommitWrite

LEMMA ApplyRefines ==
  ASSUME TypeOK, LogInv, NEW n \in Nodes, NEW t \in Trx, Apply(n, t), UNCHANGED endpoint
  PROVE  Handover!Copy(t, n)
<1>1. /\ t \in server[n].relay /\ UNCHANGED trx
      /\ \A m \in Nodes \ {n} : server'[m] = server[m]
      /\ server'[n].readOnly = server[n].readOnly
      /\ server'[n].executed = server[n].executed \cup {t}
  BY DEF Apply, Applied, TypeOK, ServersTypeOK, ServerStates
<1>2. t \in Committed
  BY <1>1 DEF LogInv, Committed
<1>3. OpenServers' = OpenServers /\ Writing' = Writing /\ Committed' = Committed
  BY <1>1 DEF OpenServers, Writing, Committed
<1>4. Copies' = [Copies EXCEPT ![n] = @ \cup {t}]
  BY <1>1 DEF Copies
<1> QED
  BY <1>2, <1>3, <1>4 DEF Handover!Copy

LEMMA TrafficRefines ==
  ASSUME TypeOK, LogInv, Super = {}, Clients \/ Replication, UNCHANGED endpoint
  PROVE  Handover!HandoverNext \/ UNCHANGED Handover!handoverVars
<1>1. ASSUME NEW t \in Trx, NEW n \in Nodes, Begin(t, n) PROVE Handover!HandoverNext
  BY <1>1, BeginRefines DEF Handover!HandoverNext
<1>2. ASSUME NEW t \in Trx PROVE trx[t].node \in Nodes
  BY DEF TypeOK, ServersTypeOK, TrxStates
<1>3. ASSUME NEW t \in Trx, Rollback(t) \/ Publish(t) PROVE Handover!HandoverNext
  <2>1. PICK n \in Nodes : n = trx[t].node
    BY <1>2
  <2>2. Handover!AbortWrite(t, n) \/ Handover!CommitWrite(t, n)
    BY <1>3, <2>1, RollbackRefines, PublishRefines
  <2> QED
    BY <2>2 DEF Handover!HandoverNext
<1>4. ASSUME NEW t \in Trx, Commit(t) PROVE UNCHANGED Handover!handoverVars
  <2>1. /\ trx[t].state = "active" /\ trx'[t].state = "leaving" /\ trx'[t].node = trx[t].node
        /\ UNCHANGED server /\ \A u \in Trx \ {t} : trx'[u] = trx[u]
    BY <1>4 DEF Commit, TypeOK, ServersTypeOK, TrxStates
  <2>2. OpenServers' = OpenServers /\ Copies' = Copies /\ Committed' = Committed
    BY <2>1 DEF OpenServers, Copies, Committed
  <2>3. Writing' = Writing
    <3>1. ASSUME NEW u \in Trx, NEW m \in Nodes PROVE <<u, m>> \in Writing' <=> <<u, m>> \in Writing
      BY <2>1 DEF Writing
    <3>2. Writing' \subseteq Trx \X Nodes /\ Writing \subseteq Trx \X Nodes
      BY DEF Writing
    <3> QED
      BY <3>1, <3>2
  <2> QED
    BY <2>2, <2>3 DEF Handover!handoverVars
<1>5. ASSUME NEW n \in Nodes, NEW t \in Trx, Fetch(n, t) PROVE UNCHANGED Handover!handoverVars
  <2>1. /\ UNCHANGED trx
        /\ \A m \in Nodes : /\ server'[m].readOnly = server[m].readOnly
                            /\ server'[m].executed = server[m].executed
    BY <1>5 DEF Fetch, Fetched, TypeOK, ServersTypeOK, ServerStates
  <2> QED
    BY <2>1, Stutters
<1>6. ASSUME NEW n \in Nodes, NEW t \in Trx, Apply(n, t) PROVE Handover!HandoverNext
  BY <1>6, ApplyRefines DEF Handover!HandoverNext
<1>7. CASE Clients
  BY <1>1, <1>3, <1>4, <1>7 DEF Clients
<1>8. CASE Replication
  BY <1>5, <1>6, <1>8 DEF Replication
<1> QED
  BY <1>7, <1>8

LEMMA HandoverRefines ==
  ASSUME Super = {}, HandoverInv, crashes = 0, crashes' = 0, [Next]_vars
  PROVE  Handover!HandoverNext \/ UNCHANGED Handover!handoverVars
<1>1. TypeOK /\ Rest /\ LogInv /\ CalmInv
  BY DEF HandoverInv, IInv, Rest
<1>2. CASE Run \/ Planning \/ UNCHANGED vars
  <2>1. UNCHANGED <<server, trx, endpoint>>
    BY <1>2 DEF Run, Planning, Inspect, BuildPlan, PlanRefused, vars, serverVars
  <2> QED
    BY <2>1, Stutters
<1>3. CASE Execution
  BY <1>1, <1>3, QuietRefines, LockRefines, PromoteRefines, RepointRefines DEF Execution, Quiet
<1>4. CASE Environment
  <2>1. (Clients \/ Replication) /\ UNCHANGED executorVars
    BY <1>1, <1>4, EnvironmentCalm
  <2> QED
    BY <1>1, <2>1, TrafficRefines DEF executorVars
<1> QED
  BY <1>2, <1>3, <1>4 DEF Next

LEMMA HandoverStarts ==
  ASSUME InitialWritable = {InitialPrimary}, Init
  PROVE  Handover!HandoverInit
<1> USE DEF Init, ServersInit
<1>1. OpenServers = {InitialPrimary}
  BY SwitchoverAssumption DEF OpenServers
<1>2. Writing = {}
  <2>1. ASSUME NEW w \in Writing PROVE FALSE
    <3>1. w[1] \in Trx /\ trx[w[1]].state \in {"active", "leaving"}
      BY DEF Writing
    <3> QED
      BY <3>1
  <2> QED
    BY <2>1
<1>3. Committed = History
  BY ServersAssumption DEF Committed
<1>4. Copies = [n \in Nodes |-> History]
  BY DEF Copies
<1>5. endpoint = InitialPrimary /\ InitialPrimary \in Nodes /\ History \in SUBSET Trx
  BY SwitchoverAssumption, ServersAssumption
<1> QED
  BY <1>1, <1>2, <1>3, <1>4, <1>5 DEF Handover!HandoverInit

(* Where no session outlasts read_only and no server crashes, every step of   *)
(* every run, of clients and of replication is a step of the abstract         *)
(* hand-over or leaves what it speaks of alone.                               *)
THEOREM ImplementsHandoverHolds ==
  ASSUME NeverExempt, InitialWritable = {InitialPrimary}, Super = {}, MaxCrashes = 0
  PROVE  Spec => ImplementsHandover
<1>1. OrderlyCluster
  BY DEF OrderlyCluster
<1>2. Init => Handover!HandoverInit
  BY HandoverStarts
<1>3. HandoverInv /\ HandoverInv' /\ [Next]_vars => [Handover!HandoverNext]_(Handover!handoverVars)
  <2> SUFFICES ASSUME HandoverInv, HandoverInv', [Next]_vars
               PROVE  Handover!HandoverNext \/ UNCHANGED Handover!handoverVars
    OBVIOUS
  <2>1. crashes = 0 /\ crashes' = 0
    BY DEF HandoverInv, IInv, TypeOK, ServersTypeOK
  <2> QED
    BY <2>1, HandoverRefines
<1>4. Spec => []HandoverInv
  BY <1>1, HandoverInductive
<1> QED
  BY <1>2, <1>3, <1>4, PTL DEF Spec, ImplementsHandover, Handover!HandoverSpec

(* What the hand-over promises, of the servers themselves: while none has     *)
(* crashed, one at most is open, and it has every transaction that was ever   *)
(* committed anywhere, whichever runs were made and wherever they failed.     *)
THEOREM CompleteWriterHolds ==
  ASSUME OrderlyCluster, Super = {}
  PROVE  Spec => [](crashes = 0 => Handover!OneCompleteWriter)
<1>1. ASSUME HandoverInv, crashes = 0 PROVE Handover!OneCompleteWriter
  <2>1. PICK h \in Nodes : Head(h)
    BY <1>1 DEF HandoverInv, CalmInv, HeadInv
  <2>2. OpenServers \subseteq {h}
    BY <2>1 DEF OpenServers, Head
  <2>3. Committed \subseteq Copies[h]
    BY <2>1 DEF Committed, Copies, Head
  <2> QED
    BY <2>2, <2>3 DEF Handover!OneCompleteWriter
<1>2. Spec => []HandoverInv
  BY HandoverInductive
<1>3. HandoverInv => (crashes = 0 => Handover!OneCompleteWriter)
  BY <1>1
<1> QED
  BY <1>2, <1>3, PTL
=============================================================================
