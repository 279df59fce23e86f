---------------------------- MODULE LeasesProofs ----------------------------
(* Theorems about Leases for any set of calls: what the records and the map   *)
(* of leases say, whoever the owners are.                                     *)
EXTENDS Leases, TLAPS

(* The stages a task can be in.                                               *)
Shape ==
  \A t \in Tasks :
    /\ Phase(t) = "monitor" => Command[t] = "manager"
    /\ Doing(t) = "reporting" => Phase(t) = "monitor"
    /\ Doing(t) = "starting" => Phase(t) \in {"plan", "execution"}
    /\ Doing(t) \in {"locking", "releasing"} => Locked(t, Phase(t))

(* The stages in which the record of a phase may be running.                  *)
Open(t, phase) ==
  IF phase = "monitor"
  THEN /\ Command[t] = "manager"
       /\ stage[t] \notin {<<"monitor", "locking">>, <<"monitor", "releasing">>}
       /\ ~Ended(t)
  ELSE stage[t] \in {<<phase, "locking">>, <<phase, "holding">>}

RecordsFollow == \A t \in Tasks, p \in Phases : runs[t][p] = "running" => Open(t, p)

(* What every step keeps, whoever the owners are.                             *)
LeaseInv == LeaseTypeOK /\ Shape /\ RecordsFollow /\ NoLeak

LEMMA InitEstablishes == LeaseInit => LeaseInv
<1> SUFFICES ASSUME LeaseInit PROVE LeaseInv
  OBVIOUS
<1>1. LeaseTypeOK
  BY DEF LeaseInit, LeaseTypeOK, Phases, Doings, Statuses
<1>2. Shape
  BY LeasesAssumption DEF LeaseInit, Shape, Phase, Doing, Locked, Commands
<1>3. RecordsFollow
  BY DEF LeaseInit, RecordsFollow
<1>4. NoLeak
  BY DEF LeaseInit, NoLeak
<1>5. QED
  BY <1>1, <1>2, <1>3, <1>4 DEF LeaseInv

(* One action at a time, the type and the shape.                              *)
LEMMA StepKeepsShape ==
  ASSUME LeaseTypeOK, Shape, NEW t \in Tasks,
         Progress(t) \/ HandOver(t) \/ MonitorStops(t)
  PROVE  LeaseTypeOK' /\ Shape'
<1> USE LeasesAssumption DEF LeaseTypeOK, Shape, Phase, Doing, Go, Record, Locked
<1>1. CASE CreateRun(t)
  BY <1>1 DEF CreateRun, Phases, Doings, Statuses
<1>2. CASE Acquire(t)
  <2>1. stage' = [stage EXCEPT ![t] = <<Phase(t), "holding">>]
    BY <1>2 DEF Acquire
  <2>2. runs' \in [Tasks -> [Phases -> Statuses]]
    <3>1. CASE Phase(t) = "monitor"
      <4>1. runs' = [runs EXCEPT ![t]["monitor"] = "running"]
        BY ONLY <1>2, <3>1 DEF Acquire, Record, Phase
      <4>2. runs \in [Tasks -> [Phases -> Statuses]]
        BY DEF LeaseTypeOK
      <4>3. "monitor" \in Phases /\ "running" \in Statuses
        BY DEF Phases, Statuses
      <4> QED
        BY ONLY <4>1, <4>2, <4>3
    <3>2. CASE Phase(t) # "monitor"
      BY <1>2, <3>2 DEF Acquire
    <3>3. QED
      BY <3>1, <3>2
  <2>3. lease' \in [Commands -> {Owner[u] : u \in Tasks} \cup {Nobody}]
    BY <1>2 DEF Acquire, Key, Commands
  <2>4. stage' \in [Tasks -> Phases \X Doings]
    BY <2>1 DEF Phases, Doings
  <2>5. Shape'
    BY <2>1 DEF Phases, Doings
  <2>6. QED
    BY <2>2, <2>3, <2>4, <2>5
<1>3. CASE Refused(t)
  BY <1>3 DEF Refused, After, Phases, Doings, Statuses, Commands
<1>4. CASE Finish(t)
  BY <1>4 DEF Finish, Outcomes, After, Phases, Doings, Statuses, Commands
<1>5. CASE Release(t)
  BY <1>5 DEF Release, Key, After, Phases, Doings, Statuses, Commands
<1>6. CASE HandlerReturned(t)
  BY <1>6 DEF HandlerReturned, Phases, Doings, Statuses
<1>7. CASE HandOver(t)
  BY <1>7 DEF HandOver, Phases, Doings, Statuses
<1>8. CASE MonitorStops(t)
  BY <1>8 DEF MonitorStops, Phases, Doings, Statuses
<1>9. QED
  BY <1>1, <1>2, <1>3, <1>4, <1>5, <1>6, <1>7, <1>8 DEF Progress

(* Records: nobody else's, and only while its phase is open.                  *)
LEMMA StepKeepsRecords ==
  ASSUME LeaseTypeOK, Shape, RecordsFollow, NEW t \in Tasks,
         Progress(t) \/ HandOver(t) \/ MonitorStops(t)
  PROVE  RecordsFollow'
<1> SUFFICES ASSUME NEW u \in Tasks, NEW p \in Phases, runs'[u][p] = "running"
    PROVE  Open(u, p)'
  BY DEF RecordsFollow
<1>0. runs[u][p] = "running" => Open(u, p)
  BY DEF RecordsFollow
<1>1. CASE u # t
  <2>1. stage'[u] = stage[u] /\ runs'[u] = runs[u]
    BY <1>1 DEF LeaseTypeOK, Progress, CreateRun, Acquire, Refused, Finish, Release,
       HandlerReturned, HandOver, MonitorStops, Go, Record
  <2>2. QED
    BY <1>0, <2>1 DEF Open, Ended
<1>2. CASE u = t
  <2> USE <1>0, <1>2 DEF LeaseTypeOK, Shape, Phase, Doing, Go, Record, Phases, Open, Ended
  <2>1. CASE CreateRun(t)
    BY <2>1 DEF CreateRun
  <2>2. CASE Acquire(t)
    BY <2>2 DEF Acquire
  <2>3. CASE Refused(t)
    BY <2>3 DEF Refused, After
  <2>4. CASE Finish(t)
    BY <2>4 DEF Finish, Outcomes, After
  <2>5. CASE Release(t)
    BY <2>5 DEF Release, After
  <2>6. CASE HandlerReturned(t)
    BY <2>6 DEF HandlerReturned
  <2>7. CASE HandOver(t)
    BY <2>7 DEF HandOver
  <2>8. CASE MonitorStops(t)
    BY <2>8 DEF MonitorStops
  <2>9. QED
    BY <2>1, <2>2, <2>3, <2>4, <2>5, <2>6, <2>7, <2>8 DEF Progress
<1>3. QED
  BY <1>1, <1>2

(* What a task holds changes with an Acquire and a Release of its own only.   *)
LEMMA OthersUndisturbed ==
  ASSUME LeaseTypeOK, NEW t \in Tasks, NEW u \in Tasks \ {t}, NEW p \in Phases,
         Progress(t) \/ HandOver(t) \/ MonitorStops(t)
  PROVE  Holds(u, p)' <=> Holds(u, p)
<1>1. stage'[u] = stage[u]
  BY DEF LeaseTypeOK, Progress, CreateRun, Acquire, Refused, Finish, Release,
     HandlerReturned, HandOver, MonitorStops, Go
<1>2. QED
  BY <1>1 DEF Holds, Ended, Locked

LEMMA HoldingChanges ==
  ASSUME LeaseTypeOK, Shape, NEW t \in Tasks, NEW p \in Phases,
         Progress(t) \/ HandOver(t) \/ MonitorStops(t)
  PROVE  IF p = Phase(t) /\ Doing(t) = "locking" /\ Free(t) THEN Holds(t, p)'
         ELSE IF p = Phase(t) /\ Doing(t) = "releasing" THEN Holds(t, p)
         ELSE Holds(t, p)' <=> Holds(t, p)
<1> USE DEF LeaseTypeOK, Shape, Phase, Doing, Go, Phases, Holds, Ended, Locked
<1>1. CASE CreateRun(t)
  BY <1>1 DEF CreateRun
<1>2. CASE Acquire(t)
  BY <1>2 DEF Acquire
<1>3. CASE Refused(t)
  BY <1>3 DEF Refused, After
<1>4. CASE Finish(t)
  BY <1>4 DEF Finish, Outcomes, After
<1>5. CASE Release(t)
  BY <1>5 DEF Release, After
<1>6. CASE HandlerReturned(t)
  BY <1>6 DEF HandlerReturned
<1>7. CASE HandOver(t)
  BY <1>7 DEF HandOver
<1>8. CASE MonitorStops(t)
  BY <1>8 DEF MonitorStops
<1>9. QED
  BY <1>1, <1>2, <1>3, <1>4, <1>5, <1>6, <1>7, <1>8 DEF Progress

LEMMA LeaseChanges ==
  ASSUME LeaseTypeOK, NEW t \in Tasks, NEW key \in Commands,
         Progress(t) \/ HandOver(t) \/ MonitorStops(t),
         lease'[key] # lease[key]
  PROVE  /\ key = Key(t, Phase(t))
         /\ \/ /\ Doing(t) = "locking" /\ Free(t)
               /\ lease[key] = Nobody /\ lease'[key] = Owner[t]
            \/ Doing(t) = "releasing" /\ lease'[key] = Nobody
BY LeasesAssumption DEF LeaseTypeOK, Progress, CreateRun, Acquire, Free, Refused, Finish,
   Release, HandlerReturned, HandOver, MonitorStops

(* A lease that is on record has a call that is going to release it.          *)
LEMMA StepLeaksNoLease ==
  ASSUME LeaseTypeOK, Shape, NoLeak, NEW t \in Tasks,
         Progress(t) \/ HandOver(t) \/ MonitorStops(t)
  PROVE  NoLeak'
<1> SUFFICES ASSUME NEW key \in Commands, lease'[key] # Nobody
    PROVE  \E u \in Tasks, p \in Phases :
             Holds(u, p)' /\ Key(u, p) = key /\ Owner[u] = lease'[key]
  BY DEF NoLeak, Key
<1>1. Phase(t) \in Phases
  BY DEF LeaseTypeOK, Phase
<1>2. CASE lease'[key] = lease[key]
  <2>1. PICK u \in Tasks, p \in Phases : Holds(u, p) /\ Key(u, p) = key /\ Owner[u] = lease[key]
    BY <1>2 DEF NoLeak
  <2>2. CASE u # t
    BY <1>2, <2>1, <2>2, OthersUndisturbed
  <2>3. CASE u = t
    <3>1. CASE p = Phase(t) /\ Doing(t) = "releasing"
      <4>1. Release(t)
        BY <2>1, <3>1 DEF LeaseTypeOK, Progress, CreateRun, Acquire, Refused, Finish,
           HandlerReturned, HandOver, MonitorStops, Doing, Phases
      <4>2. lease'[key] = Nobody
        BY <2>1, <2>3, <3>1, <4>1 DEF LeaseTypeOK, Release
      <4>3. QED
        BY <4>2
    <3>2. CASE ~(p = Phase(t) /\ Doing(t) = "releasing")
      <4>1. Holds(t, p)'
        BY <2>1, <2>3, <3>2, HoldingChanges
      <4>2. QED
        BY <1>2, <2>1, <2>3, <4>1
    <3>3. QED
      BY <3>1, <3>2
  <2>4. QED
    BY <2>2, <2>3
<1>3. CASE lease'[key] # lease[key]
  <2>1. /\ key = Key(t, Phase(t)) /\ Doing(t) = "locking" /\ Free(t)
        /\ lease'[key] = Owner[t]
    BY <1>3, LeaseChanges
  <2>2. PICK p \in Phases : p = Phase(t)
    BY <1>1
  <2>3. Holds(t, p)'
    BY <2>1, <2>2, HoldingChanges
  <2>4. QED
    BY <2>1, <2>2, <2>3
<1>4. QED
  BY <1>2, <1>3

LEMMA LeaseInductive == LeaseInv /\ [LeaseNext]_leaseVars => LeaseInv'
<1> SUFFICES ASSUME LeaseInv, [LeaseNext]_leaseVars PROVE LeaseInv'
  OBVIOUS
<1>1. CASE LeaseNext
  <2>1. PICK t \in Tasks : Progress(t) \/ HandOver(t) \/ MonitorStops(t)
    BY <1>1 DEF LeaseNext
  <2>2. QED
    BY <2>1, StepKeepsShape, StepKeepsRecords, StepLeaksNoLease DEF LeaseInv
<1>2. CASE UNCHANGED leaseVars
  BY <1>2 DEF leaseVars, LeaseInv, LeaseTypeOK, Shape, RecordsFollow, NoLeak, Open, Holds,
     Phase, Doing, Ended, Locked, Key
<1>3. QED
  BY <1>1, <1>2

(* Every lease is free or has one of the calls' owners; every call is at a    *)
(* point of its phase, with records of the statuses the store knows.          *)
THEOREM LeaseTypeCorrect == LeaseSpec => []LeaseTypeOK
<1>1. LeaseInv => LeaseTypeOK
  BY DEF LeaseInv
<1>2. QED
  BY <1>1, InitEstablishes, LeaseInductive, PTL DEF LeaseSpec

(* No path through Engine.Run, BuildPlan and ExecutePlan leaves a lease on    *)
(* record that nobody is going to release, whoever the owners are.            *)
THEOREM NoLeakHolds == LeaseSpec => []NoLeak
<1>1. LeaseInv => NoLeak
  BY DEF LeaseInv
<1>2. QED
  BY <1>1, InitEstablishes, LeaseInductive, PTL DEF LeaseSpec

(* No call returns with one of its run records running.                       *)
THEOREM RunsClosedHolds == LeaseSpec => []RunsClosed
<1>1. LeaseInv => RunsClosed
  BY DEF LeaseInv, RecordsFollow, RunsClosed, Open, Ended, Phases
<1>2. QED
  BY <1>1, InitEstablishes, LeaseInductive, PTL DEF LeaseSpec

=============================================================================
