---- MODULE MhaProcess ----
(***************************************************************************)
(* A process of mha-go: it loads its file (Config), ends if that is        *)
(* refused, and makes its calls with the specification, each under a lease *)
(* (Leases).  The LocalLeaseManager is created after the load, so a        *)
(* process starts without leases and shares none.                          *)
(***************************************************************************)
EXTENDS Config, Leases

CONSTANT Followed \* bound: the accepted files after which the calls are followed

processVars == <<configVars, leaseVars>>

(* No call looks at what Config reads, except that it was accepted.           *)
Bootstrapped == Accepted /\ file \in Followed

ProcessInit == ConfigInit /\ LeaseInit

Bootstrap == ConfigNext /\ UNCHANGED leaseVars

Proceed(t) == Bootstrapped /\ Progress(t) /\ UNCHANGED configVars

Decide(t) == Bootstrapped /\ (HandOver(t) \/ MonitorStops(t)) /\ UNCHANGED configVars

ProcessNext == Bootstrap \/ \E t \in Tasks : Proceed(t) \/ Decide(t)

ProcessSpec == ProcessInit /\ [][ProcessNext]_processVars

(* A call goes on as long as the process runs; only the monitor may watch a   *)
(* healthy primary for ever.                                                  *)
FairProcessSpec == ProcessSpec /\ \A t \in Tasks : WF_processVars(Proceed(t))
====
