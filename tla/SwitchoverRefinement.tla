------------------------- MODULE SwitchoverRefinement -------------------------
(* Switchover implements PrimaryHandover, as long as no server crashes (a     *)
(* crash may open a server) and no session needs more than read_only to be    *)
(* stopped (Super = {}): see switchover_retry.cfg.                            *)
EXTENDS Switchover

OpenServers == {n \in Nodes : ~server[n].readOnly}

Writing ==
  {w \in Trx \X Nodes : trx[w[1]].node = w[2] /\ trx[w[1]].state \in {"active", "leaving"}}

Committed == {t \in Trx : trx[t].state = "committed"}

Copies == [n \in Nodes |-> server[n].executed]

Handover == INSTANCE PrimaryHandover WITH
  open <- OpenServers, writing <- Writing, committed <- Committed,
  copies <- Copies, route <- endpoint

(* Every step of planning, locking, draining, promoting, repointing and       *)
(* routing, of clients and of replication, is a step of the handover or       *)
(* leaves what it speaks of alone, in every run and whatever fails.           *)
ImplementsHandover == Handover!HandoverSpec

-----------------------------------------------------------------------------
(* Why there is one writer at most, and why the hand-over is implemented: an  *)
(* invariant that every step preserves.                                       *)

(* The nodes that AssessReplication lets pass without a replica status.       *)
Exempt(n) == IsObserver(n) \/ NodeSpec[n].ignoreFail

(* Only nodes the assessment looks at are ever primary.  If an exempt node    *)
(* could be promoted, the next run might take an older primary, which has     *)
(* become its replica or not, for the primary and open a second writer.       *)
NeverExempt == \A n \in Nodes : Exempt(n) => NodeSpec[n].noMaster /\ n # InitialPrimary

(* No server but h is open; and when read_only stops every session, what is   *)
(* being written is written on h, which has all that was committed.           *)
Head(h) ==
  /\ server[h].source = NoSource
  /\ ~Exempt(h)
  /\ \A n \in Nodes \ {h} : server[n].readOnly
  /\ Super = {} => \A t \in Trx :
       /\ trx[t].state \in {"active", "leaving"} => trx[t].node = h
       /\ trx[t].state = "committed" => t \in server[h].executed

Promoted == AfterCatchUp \ {"promote-candidate"}

(* The old primary is the head until the last statement of the promotion, and *)
(* the candidate is from then on; a run that fails leaves one or the other.   *)
HeadInv ==
  /\ \E h \in Nodes : Head(h)
  /\ status = "running" =>
       /\ step # "none"
       /\ ~Exempt(cand)
       /\ IF step \in Promoted THEN Head(cand) /\ ~server[cand].readOnly ELSE Head(orig)
       /\ step \notin BeforeCatchUp => orig \in fenced
       /\ step = "promote-candidate" /\ stmt >= 3 => server[cand].source = NoSource
       /\ step = "repoint-replicas" => todo \subseteq Others

(* What Discover has learnt of a channel is still so, or was not learnt.      *)
ViewInv ==
  \A n \in Nodes : view[n] # Unseen =>
    status = "planning" /\ view[n].source \in {NoSource, server[n].source}

(* What the fence of the old primary excludes and it has is in the sample, is *)
(* on the candidate after the wait for it, and nothing else comes to the old  *)
(* primary but from the candidate.                                            *)
Handed(t) == ~Accepts(orig, t) /\ t \in server[orig].executed \cup server[orig].relay

CompleteInv ==
  status = "running" =>
    /\ step = "wait-candidate-catchup" /\ stmt = 4 =>
         \A t \in Trx : Handed(t) => t \in sample.gtid
    /\ step \in AfterCatchUp =>
         /\ server[orig].source \in {NoSource, cand}
         /\ \A t \in Trx : Handed(t) => t \in server[cand].executed

(* A server with no channel has nothing to apply, and nothing is copied that  *)
(* was not committed.                                                         *)
LogInv ==
  \A n \in Nodes :
    /\ server[n].source = NoSource => server[n].relay = {}
    /\ \A t \in server[n].executed \cup server[n].relay : trx[t].state = "committed"

(* What the theorems about one writer take for granted of the configuration.  *)
OrderlyCluster == NeverExempt /\ InitialWritable \subseteq {InitialPrimary}

(* While no server has crashed.                                               *)
CalmInv ==
  /\ \A n \in Nodes : server[n].up
  /\ ViewInv
  /\ HeadInv
  /\ CompleteInv

HandoverInv == IInv /\ LogInv /\ (crashes = 0 => CalmInv)
=============================================================================
