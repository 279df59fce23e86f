--------------------------- MODULE PrimaryHandover ---------------------------
(***************************************************************************)
(* What a switchover promises, and all that a client or an operator need   *)
(* to know of it: servers open and close to writers, a transaction that    *)
(* was begun may still commit on a server that has been closed meanwhile,  *)
(* copies of what was committed spread, and the writers are routed to one  *)
(* server.  A server opens only when no other is open, nothing is being    *)
(* written elsewhere any more, and it has a copy of everything that was    *)
(* committed.                                                              *)
(***************************************************************************)
EXTENDS Vocabulary

VARIABLES
  open,       \* the servers that accept writes
  writing,    \* <<t, n>>: transaction t was begun on n and has not ended
  committed,  \* the transactions that were committed
  copies,     \* copies[n]: those that server n has
  route       \* the server the writers are sent to

handoverVars == <<open, writing, committed, copies, route>>

HandoverTypeOK ==
  /\ open \subseteq Nodes
  /\ writing \subseteq Trx \X Nodes
  /\ committed \subseteq Trx
  /\ copies \in [Nodes -> SUBSET Trx]
  /\ route \in Nodes

(* A cluster in order: one server is open, all have the same.                 *)
HandoverInit ==
  \E p \in Nodes, history \in SUBSET Trx :
    /\ open = {p}
    /\ writing = {}
    /\ committed = history
    /\ copies = [n \in Nodes |-> history]
    /\ route = p

BeginWrite(t, n) ==
  /\ n \in open
  /\ t \notin committed
  /\ \A m \in Nodes : <<t, m>> \notin writing
  /\ writing' = writing \cup {<<t, n>>}
  /\ UNCHANGED <<open, committed, copies, route>>

AbortWrite(t, n) ==
  /\ <<t, n>> \in writing
  /\ writing' = writing \ {<<t, n>>}
  /\ UNCHANGED <<open, committed, copies, route>>

CommitWrite(t, n) ==
  /\ <<t, n>> \in writing
  /\ writing' = writing \ {<<t, n>>}
  /\ committed' = committed \cup {t}
  /\ copies' = [copies EXCEPT ![n] = @ \cup {t}]
  /\ UNCHANGED <<open, route>>

Copy(t, n) ==
  /\ t \in committed
  /\ copies' = [copies EXCEPT ![n] = @ \cup {t}]
  /\ UNCHANGED <<open, writing, committed, route>>

Close(n) ==
  /\ open' = open \ {n}
  /\ UNCHANGED <<writing, committed, copies, route>>

Open(n) ==
  /\ open = {}
  /\ writing \subseteq Trx \X {n}
  /\ committed \subseteq copies[n]
  /\ open' = {n}
  /\ UNCHANGED <<writing, committed, copies, route>>

Reroute(n) ==
  /\ n \in open
  /\ route' = n
  /\ UNCHANGED <<open, writing, committed, copies>>

HandoverNext ==
  \E n \in Nodes :
    \/ Close(n)
    \/ Open(n)
    \/ Reroute(n)
    \/ \E t \in Trx : BeginWrite(t, n) \/ AbortWrite(t, n) \/ CommitWrite(t, n) \/ Copy(t, n)

HandoverSpec == HandoverInit /\ [][HandoverNext]_handoverVars

-----------------------------------------------------------------------------
(* Properties. *)

(* Never two writers, and a writer that has everything ever committed: what   *)
(* was written through one server is never missing on the next (the promise  *)
(* of lock-old-primary, wait-candidate-catchup and promote-candidate).        *)
OneCompleteWriter ==
  /\ \A n, m \in open : n = m
  /\ \A n \in open : committed \subseteq copies[n]

(* A transaction in flight on a closed server keeps every other one closed:   *)
(* why the promotion waits for the old primary to drain, and not only for its *)
(* read_only.                                                                 *)
InFlight == open # {} => \A t \in Trx, n \in Nodes : <<t, n>> \in writing => n \in open
=============================================================================
