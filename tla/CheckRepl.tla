------------------------------ MODULE CheckRepl ------------------------------
(***************************************************************************)
(* mha check-repl: one discovery (Engine.CheckOnce), the assessment of the *)
(* view it returned, and the exit status.  The cluster may have any of the *)
(* Layouts, with any servers open to writers, and servers fail and return  *)
(* while they are being inspected.                                         *)
(***************************************************************************)
EXTENDS Discovery

CONSTANT Layouts  \* the replication layouts: functions from a node to its source

(* Exactly one node of a layout has replicas and no source: the primary.      *)
Heads(layout) == {n \in Nodes : layout[n] = NoSource /\ \E m \in Nodes : layout[m] = n}

ASSUME LayoutsAssumption ==
  /\ IsFiniteSet(Nodes)
  /\ \A layout \in Layouts :
       layout \in [Nodes -> Nodes \cup {NoSource}] /\ Cardinality(Heads(layout)) = 1

VARIABLES
  seen,     \* seen[n]: what the inspection of n reported
  elected,  \* view.PrimaryID
  exit      \* "running", or how the command ended

checkVars == <<seen, elected, exit>>

Source(n) == server[n].source
HeadNode == CHOOSE n \in Nodes : n \in Heads([m \in Nodes |-> Source(m)])

Layed(layout, writable, running) ==
  [n \in Nodes |->
    [up |-> TRUE, readOnly |-> n \notin writable, superReadOnly |-> n \notin writable,
     source |-> layout[n], running |-> n \in running /\ layout[n] # NoSource,
     relay |-> {}, executed |-> History]]

CheckInit ==
  /\ \E layout \in Layouts, writable, running \in SUBSET Nodes :
       server = Layed(layout, writable, running)
  /\ trx = [t \in Trx |-> [state |-> "committed", node |-> CHOOSE n \in Nodes : TRUE, age |-> 0]]
  /\ crashes = 0
  /\ seen = [n \in Nodes |-> Unseen]
  /\ elected = NoSource
  /\ exit = "running"

(* One of the concurrent goroutines of Discover.                              *)
Inspect(n) ==
  /\ exit = "running"
  /\ seen[n] = Unseen
  /\ \E state \in Inspections(n) : seen' = [seen EXCEPT ![n] = state]
  /\ UNCHANGED <<serverVars, elected, exit>>

Complete == \A n \in Nodes : seen[n] # Unseen

DiscoveryFails ==
  /\ exit = "running"
  /\ Complete /\ ~Discoverable(seen)
  /\ exit' = "failed"
  /\ UNCHANGED <<serverVars, seen, elected>>

(* Mutant: the exit status is 0 whatever was found.                           *)
ReportLenient ==
  /\ exit = "running"
  /\ Complete /\ Discoverable(seen)
  /\ \E p \in Nodes : IsPrimary(seen, p) /\ elected' = p
  /\ exit' = "healthy"
  /\ UNCHANGED <<serverVars, seen>>

Report ==
  /\ exit = "running"
  /\ Complete /\ Discoverable(seen)
  /\ \E p \in Nodes :
       /\ IsPrimary(seen, p)
       /\ elected' = p
       /\ exit' = IF HasErrors(seen, p) THEN "errors" ELSE "healthy"
  /\ UNCHANGED <<serverVars, seen>>

(* A server fails or comes back; which of its files survive is not looked at. *)
Disturb == (\E n \in Nodes : Crash(n) \/ Recover(n)) /\ UNCHANGED checkVars

(* The command has exited.                                                    *)
Exited == exit # "running" /\ UNCHANGED <<serverVars, checkVars>>

CheckNext == (\E n \in Nodes : Inspect(n)) \/ DiscoveryFails \/ Report \/ Disturb \/ Exited

CheckSpec == CheckInit /\ [][CheckNext]_<<serverVars, checkVars>>

-----------------------------------------------------------------------------
(* Properties. *)

Reported == exit \in {"healthy", "errors"}

(* A dead primary is still recognised by the channels that point at it, in    *)
(* whatever state they are: the head of the layout is elected whenever one of *)
(* its replicas could be inspected (selectPrimaryID's weights).  When none    *)
(* could, an open server outside replication may outweigh a read-only head.   *)
ElectsTheHead ==
  Reported /\ (\E n \in Nodes : seen[n].health # "dead" /\ Source(n) = HeadNode)
    => elected = HeadNode

(* Nobody is elected by chance: what the view says decides, so the manager,   *)
(* the planner and the operator's check agree on one node.                    *)
ElectsOne ==
  Complete /\ Discoverable(seen) => Cardinality({p \in Nodes : IsPrimary(seen, p)}) = 1

(* Exit status 0 means that the primary was reachable and that every replica  *)
(* that counts replicates from it, unless a server failed during the check.   *)
HealthyMeansReplicating ==
  exit = "healthy" /\ crashes = 0
    => /\ server[elected].up
       /\ \A n \in Nodes \ {elected} :
            ~IsObserver(n) /\ ~NodeSpec[n].ignoreFail
              => Follows(n, elected) /\ IOThreadRunning(n)
=============================================================================
