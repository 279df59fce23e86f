---------------------------- MODULE MySQLServers ----------------------------
(***************************************************************************)
(* The MySQL servers that mha-go administers, the client sessions that     *)
(* write to them and the replication between them, as far as the SQL that  *)
(* mha-go sends can observe or change them.  MySQL itself is outside the   *)
(* repository: the actions of this module are modelled from how src/ uses  *)
(* the servers; the statements are those of internal/transport/sql.        *)
(*                                                                         *)
(* Life of a transaction: "idle", then "active" from its first change (it  *)
(* is counted in innodb_trx), then "leaving" once its COMMIT has started   *)
(* (no longer in innodb_trx, not yet in gtid_executed), then "committed".  *)
(* Read-only mode rejects new changes only: a transaction that was active  *)
(* when the server became read-only still commits.  A GTID is published    *)
(* within PublishLag poll intervals of 200 ms.                             *)
(***************************************************************************)
EXTENDS Vocabulary

CONSTANTS
  History,     \* the transactions that every server has from before
  Super,       \* the transactions of sessions that only super_read_only stops
  PublishLag,  \* bound, in poll intervals, on COMMIT -> GTID visible
  MaxCrashes   \* bound on server crashes in a behaviour

ASSUME ServersAssumption ==
  /\ History \subseteq Trx
  /\ Super \subseteq Trx
  /\ PublishLag \in Nat
  /\ MaxCrashes \in Nat

VARIABLES
  server,   \* server[n]: the state of server n
  trx,      \* trx[t]: the state of transaction t, where it runs, its age
  crashes   \* how many crashes have happened

serverVars == <<server, trx, crashes>>

ServerStates ==
  [up : BOOLEAN, readOnly : BOOLEAN, superReadOnly : BOOLEAN,
   source : Nodes \cup {NoSource}, running : BOOLEAN,
   relay : SUBSET Trx, executed : SUBSET Trx]

TrxStates ==
  [state : {"idle", "active", "leaving", "committed"}, node : Nodes, age : 0..PublishLag]

ServersTypeOK ==
  /\ server \in [Nodes -> ServerStates]
  /\ trx \in [Trx -> TrxStates]
  /\ crashes \in 0..MaxCrashes

(* A cluster replicating from p; the servers in writable accept writes. *)
ServersInit(p, writable) ==
  /\ server = [n \in Nodes |->
       [up |-> TRUE,
        readOnly |-> n \notin writable, superReadOnly |-> n \notin writable,
        source |-> IF n = p THEN NoSource ELSE p, running |-> n # p,
        relay |-> {}, executed |-> History]]
  /\ trx = [t \in Trx |->
       [state |-> IF t \in History THEN "committed" ELSE "idle", node |-> p, age |-> 0]]
  /\ crashes = 0

-----------------------------------------------------------------------------
(* SQL statements, as functions from a server's state to its next one. *)

SuperReadOnlyOn(s)  == [s EXCEPT !.readOnly = TRUE, !.superReadOnly = TRUE]
ReadOnlyOn(s)       == [s EXCEPT !.readOnly = TRUE]
SuperReadOnlyOff(s) == [s EXCEPT !.superReadOnly = FALSE]
ReadOnlyOff(s)      == [s EXCEPT !.readOnly = FALSE, !.superReadOnly = FALSE]
StopReplica(s)      == [s EXCEPT !.running = FALSE]
ResetReplicaAll(s)  == [s EXCEPT !.source = NoSource, !.running = FALSE, !.relay = {}]
ChangeSource(s, p)  == [s EXCEPT !.source = p, !.relay = {}]
StartReplica(s)     == [s EXCEPT !.running = TRUE]

(* The statement reached n and took effect, leaving n in state s. *)
Executed(n, s) ==
  /\ server[n].up
  /\ server' = [server EXCEPT ![n] = s]

(* The statement returned an error: it had no effect, or its reply was lost. *)
Errored(n, s) == UNCHANGED server \/ Executed(n, s)

(* PromoteReplicaToPrimary and RepointReplicaToSource, statement by statement. *)
PromoteStatement(i, s) ==
  CASE i = 1 -> StopReplica(s)
    [] i = 2 -> ResetReplicaAll(s)
    [] i = 3 -> SuperReadOnlyOff(s)
    [] OTHER -> ReadOnlyOff(s)

RepointStatement(i, s, p) ==
  CASE i = 1 -> StopReplica(s)
    [] i = 2 -> ChangeSource(s, p)
    [] OTHER -> StartReplica(s)

(* What countActiveInnoDBWriteTransactions finds on n. *)
ActiveWrites(n) == {t \in Trx : trx[t].node = n /\ trx[t].state = "active"}

IOThreadRunning(n) ==
  /\ server[n].source # NoSource
  /\ server[n].running
  /\ server[server[n].source].up

-----------------------------------------------------------------------------
(* Clients. *)

Accepts(n, t) ==
  \/ ~server[n].readOnly
  \/ t \in Super /\ ~server[n].superReadOnly

Begin(t, n) ==
  /\ trx[t].state = "idle"
  /\ server[n].up
  /\ Accepts(n, t)
  /\ trx' = [trx EXCEPT ![t] = [state |-> "active", node |-> n, age |-> 0]]
  /\ UNCHANGED <<server, crashes>>

Rollback(t) ==
  /\ trx[t].state = "active"
  /\ trx' = [trx EXCEPT ![t].state = "idle"]
  /\ UNCHANGED <<server, crashes>>

Commit(t) ==
  /\ trx[t].state = "active"
  /\ trx' = [trx EXCEPT ![t].state = "leaving"]
  /\ UNCHANGED <<server, crashes>>

Publish(t) ==
  /\ trx[t].state = "leaving"
  /\ trx' = [trx EXCEPT ![t].state = "committed"]
  /\ server' = [server EXCEPT ![trx[t].node].executed = @ \cup {t}]
  /\ UNCHANGED crashes

(* A poll interval passes, which no commit in progress outlives for long. *)
Elapse ==
  /\ \A t \in Trx : trx[t].state = "leaving" => trx[t].age < PublishLag
  /\ trx' = [t \in Trx |-> IF trx[t].state = "leaving"
                           THEN [trx[t] EXCEPT !.age = @ + 1] ELSE trx[t]]

-----------------------------------------------------------------------------
(* Replication. *)

Fetched(s, t) == [s EXCEPT !.relay = @ \cup {t}]
Applied(s, t) == [s EXCEPT !.relay = @ \ {t}, !.executed = @ \cup {t}]

Fetch(n, t) ==
  /\ server[n].up
  /\ IOThreadRunning(n)
  /\ t \in server[server[n].source].executed \ (server[n].executed \cup server[n].relay)
  /\ server' = [server EXCEPT ![n] = Fetched(@, t)]
  /\ UNCHANGED <<trx, crashes>>

Apply(n, t) ==
  /\ server[n].up
  /\ server[n].running
  /\ t \in server[n].relay
  /\ server' = [server EXCEPT ![n] = Applied(@, t)]
  /\ UNCHANGED <<trx, crashes>>

-----------------------------------------------------------------------------
(* Crash and restart.  SET GLOBAL does not survive a restart: the server    *)
(* comes back with whatever its option file says.                           *)

Crashed(s, kept) == [s EXCEPT !.up = FALSE, !.executed = @ \cup kept]

Restarted(s, ro, start) ==
  [s EXCEPT !.up = TRUE, !.readOnly = ro, !.superReadOnly = ro,
            !.running = (start /\ s.source # NoSource)]

GoDown(n) ==
  \E kept \in SUBSET {t \in Trx : trx[t].node = n /\ trx[t].state = "leaving"} :
    /\ server' = [server EXCEPT ![n] = Crashed(@, kept)]
    /\ trx' = [t \in Trx |->
         IF trx[t].node # n \/ trx[t].state \in {"idle", "committed"} THEN trx[t]
         ELSE [trx[t] EXCEPT !.state = IF t \in kept THEN "committed" ELSE "idle"]]

Crash(n) ==
  /\ crashes < MaxCrashes
  /\ server[n].up
  /\ crashes' = crashes + 1
  /\ GoDown(n)

Recover(n) ==
  /\ ~server[n].up
  /\ \E ro, start \in BOOLEAN :
       server' = [server EXCEPT ![n] = Restarted(@, ro, start)]
  /\ UNCHANGED <<trx, crashes>>

Clients ==
  \E t \in Trx : Rollback(t) \/ Commit(t) \/ Publish(t) \/ \E n \in Nodes : Begin(t, n)

Replication == \E n \in Nodes, t \in Trx : Fetch(n, t) \/ Apply(n, t)

(* What runs on a server ends with it.                                        *)
DownInv == \A t \in Trx : trx[t].state \in {"active", "leaving"} => server[trx[t].node].up
=============================================================================
