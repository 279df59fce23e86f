------------------------------- MODULE Leases -------------------------------
(***************************************************************************)
(* The leases and run records of internal/state, as the calls within one   *)
(* process use them: LocalLeaseManager keeps the owner of each key,        *)
(* MemoryStore the status of each run.  A task is one call of Engine.Run   *)
(* (with the failover it hands over to), of failover's BuildPlan and       *)
(* ExecutePlan, or of switchover's.  Time is not looked at: the TTL is an  *)
(* unused parameter of Acquire.  A process loads one specification, so all *)
(* its calls have one owner; Acquire and the properties below do not       *)
(* depend on that, except for OneHolder.                                   *)
(***************************************************************************)
EXTENDS Integers, FiniteSets

CONSTANTS
  Tasks,    \* the calls made in this process
  Command,  \* Command[t]: what task t runs
  Owner,    \* Owner[t]: the controller.id that t gives for itself
  Nobody    \* a key that is not in the map

Commands == {"manager", "failover", "switchover"}

ASSUME LeasesAssumption ==
  /\ Command \in [Tasks -> Commands]
  /\ \A t \in Tasks : Owner[t] # Nobody

Phases == {"monitor", "plan", "execution"}
Doings == {"starting", "locking", "holding", "releasing", "reporting", "done"}
Statuses == {"none", "running", "succeeded", "failed", "aborted"}

VARIABLES
  lease,  \* lease[key]: the owner on record
  stage,  \* stage[t]: the phase that t is in and what it is doing there
  runs    \* runs[t][phase]: the status of the run record

leaseVars == <<lease, stage, runs>>

LeaseTypeOK ==
  /\ lease \in [Commands -> {Owner[t] : t \in Tasks} \cup {Nobody}]
  /\ stage \in [Tasks -> Phases \X Doings]
  /\ runs \in [Tasks -> [Phases -> Statuses]]

Phase(t) == stage[t][1]
Doing(t) == stage[t][2]
Go(t, s) == stage' = [stage EXCEPT ![t] = s]
Record(t, status) == runs' = [runs EXCEPT ![t][Phase(t)] = status]

(* The lease key of task t in a phase; a switchover plans without a lease.    *)
Key(t, phase) ==
  IF phase = "monitor" THEN "manager"
  ELSE IF Command[t] = "switchover" THEN "switchover" ELSE "failover"

Locked(t, phase) == ~(Command[t] = "switchover" /\ phase = "plan")

(* Where t goes on after a phase other than the monitor that ended so.        *)
After(t, status) ==
  IF Phase(t) = "plan" /\ status = "succeeded" THEN <<"execution", "starting">>
  ELSE IF Phase(t) # "monitor" /\ Command[t] = "manager" THEN <<"monitor", "reporting">>
  ELSE <<"execution", "done">>

Ended(t) == stage[t] = <<"execution", "done">>

LeaseInit ==
  /\ lease = [key \in Commands |-> Nobody]
  /\ stage = [t \in Tasks |->
       IF Command[t] = "manager" THEN <<"monitor", "locking">> ELSE <<"plan", "starting">>]
  /\ runs = [t \in Tasks |-> [phase \in Phases |-> "none"]]

-----------------------------------------------------------------------------
(* BuildPlan and ExecutePlan create their record before they lock.            *)
CreateRun(t) ==
  /\ Doing(t) = "starting"
  /\ Record(t, "running")
  /\ Go(t, <<Phase(t), IF Locked(t, Phase(t)) THEN "locking" ELSE "holding">>)
  /\ UNCHANGED lease

(* LocalLeaseManager.Acquire: refused only while another owner is on record.  *)
Free(t) == lease[Key(t, Phase(t))] \in {Nobody, Owner[t]}

(* Engine.Run creates its record once it has the lease.                       *)
(* Mutant: key and owner are swapped.                                         *)
AcquireSwapped(t) ==
  /\ Doing(t) = "locking"
  /\ Free(t)
  /\ lease' = [lease EXCEPT ![Key(t, Phase(t))] = Key(t, Phase(t))]
  /\ Go(t, <<Phase(t), "holding">>)
  /\ IF Phase(t) = "monitor" THEN Record(t, "running") ELSE UNCHANGED runs

Acquire(t) ==
  /\ Doing(t) = "locking"
  /\ Free(t)
  /\ lease' = [lease EXCEPT ![Key(t, Phase(t))] = Owner[t]]
  /\ Go(t, <<Phase(t), "holding">>)
  /\ IF Phase(t) = "monitor" THEN Record(t, "running") ELSE UNCHANGED runs

(* Mutant: the record of a refused run is left as it is.                      *)
RefusedUnrecorded(t) ==
  /\ Doing(t) = "locking"
  /\ ~Free(t)
  /\ Go(t, After(t, "failed"))
  /\ UNCHANGED <<lease, runs>>

Refused(t) ==
  /\ Doing(t) = "locking"
  /\ ~Free(t)
  /\ IF Phase(t) = "monitor" THEN UNCHANGED runs ELSE Record(t, "failed")
  /\ Go(t, After(t, "failed"))
  /\ UNCHANGED lease

(* The monitor confirms a death and calls HandleFailover.                     *)
HandOver(t) ==
  /\ stage[t] = <<"monitor", "holding">>
  /\ Go(t, <<"plan", "starting">>)
  /\ UNCHANGED <<lease, runs>>

(* The initial discovery fails, or the context is cancelled.                  *)
MonitorStops(t) ==
  /\ stage[t] = <<"monitor", "holding">>
  /\ \E status \in {"failed", "aborted"} : Record(t, status)
  /\ Go(t, <<"monitor", "releasing">>)
  /\ UNCHANGED lease

Outcomes(t) ==
  {"succeeded", "failed"}
    \cup (IF Phase(t) = "execution" /\ Key(t, "execution") = "failover" THEN {"aborted"} ELSE {})

(* Every return of BuildPlan and ExecutePlan updates the record; the deferred *)
(* Release follows.  Mutant: a failure returns without it.                    *)
FinishUnreleased(t) ==
  /\ stage[t] \in {<<"plan", "holding">>, <<"execution", "holding">>}
  /\ \E status \in Outcomes(t) :
       /\ Record(t, status)
       /\ Go(t, IF Locked(t, Phase(t)) /\ status # "failed"
                THEN <<Phase(t), "releasing">> ELSE After(t, status))
  /\ UNCHANGED lease

Finish(t) ==
  /\ stage[t] \in {<<"plan", "holding">>, <<"execution", "holding">>}
  /\ \E status \in Outcomes(t) :
       /\ Record(t, status)
       /\ Go(t, IF Locked(t, Phase(t)) THEN <<Phase(t), "releasing">> ELSE After(t, status))
  /\ UNCHANGED lease

(* localLeaseHandle.Release deletes the key, whoever is on record.            *)
Release(t) ==
  /\ Doing(t) = "releasing"
  /\ lease' = [lease EXCEPT ![Key(t, Phase(t))] = Nobody]
  /\ Go(t, After(t, runs[t][Phase(t)]))
  /\ UNCHANGED runs

(* HandleFailover returned: an error only when a plan or a step failed.       *)
HandlerReturned(t) ==
  /\ stage[t] = <<"monitor", "reporting">>
  /\ Record(t, IF runs[t]["execution"] \in {"succeeded", "aborted"} THEN "succeeded" ELSE "failed")
  /\ Go(t, <<"monitor", "releasing">>)
  /\ UNCHANGED lease

Progress(t) ==
  CreateRun(t) \/ Acquire(t) \/ Refused(t) \/ Finish(t) \/ Release(t) \/ HandlerReturned(t)

LeaseNext == \E t \in Tasks : Progress(t) \/ HandOver(t) \/ MonitorStops(t)

LeaseSpec == LeaseInit /\ [][LeaseNext]_leaseVars

-----------------------------------------------------------------------------
(* Properties. *)

(* t has acquired the lease of a phase and not released it yet; the manager   *)
(* keeps its own all the while.                                               *)
Holds(t, phase) ==
  \/ stage[t] \in {<<phase, "holding">>, <<phase, "releasing">>} /\ Locked(t, phase)
  \/ /\ phase = "monitor" /\ Command[t] = "manager"
     /\ ~Ended(t) /\ stage[t] # <<"monitor", "locking">>

(* No two calls execute under the same key at once: the lease "protects       *)
(* concurrent operations inside the current process" (operations.md:320), is  *)
(* acquired "to prevent concurrent switchovers" (executor.go:40).  It does    *)
(* not between calls of one owner: Acquire lets the owner in again.           *)
OneHolder ==
  \A s, t \in Tasks, p, q \in Phases :
    Holds(s, p) /\ Holds(t, q) /\ Key(s, p) = Key(t, q) => s = t

(* No key stays on record without a call that is going to release it, on      *)
(* whatever path the calls returned.                                          *)
NoLeak ==
  \A key \in Commands :
    lease[key] # Nobody =>
      \E t \in Tasks, p \in Phases : Holds(t, p) /\ Key(t, p) = key /\ Owner[t] = lease[key]

(* A call that has returned leaves none of its records running.               *)
RunsClosed == \A t \in Tasks : Ended(t) => "running" \notin {runs[t][p] : p \in Phases}

(* A failover or switchover lease is always given back.                       *)
LeaseReturned ==
  \A key \in {"failover", "switchover"} : lease[key] # Nobody ~> lease[key] = Nobody
=============================================================================
