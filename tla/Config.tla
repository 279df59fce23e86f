-------------------------------- MODULE Config --------------------------------
(***************************************************************************)
(* config.LoadFile and fileSpec.toDomain: from a configuration file, as    *)
(* decoded, to the ClusterSpec that every other part of mha-go relies on.  *)
(* The file's header is validated as a whole, its nodes one by one, and    *)
(* the first error ends the load.  A blank value is Blank, a value that no *)
(* part of the program knows is "odd".                                     *)
(***************************************************************************)
EXTENDS Integers, Sequences, FiniteSets

CONSTANTS
  Headers,   \* the headers a file may have
  Entries,   \* the node entries a file may have
  MaxNodes   \* bound on the number of its nodes

Blank == ""
NodeRoles == {"primary", "replica", "observer"}
SemiSyncPolicies == {"disabled", "preferred", "required"}
SalvagePolicies == {"strict", "salvage-if-possible", "availability-first"}
FencingKinds == {"read_only", "command", "vip", "proxy", "stonith", "cloud_route"}
SinglePrimary == "mysql-replication-single-primary"

FileHeaders ==
  [named : BOOLEAN, durations : BOOLEAN, kind : STRING, mode : STRING,
   semiSync : STRING, salvage : STRING, threshold : Int, wait : Int,
   observers : Seq(STRING), fencing : Seq(STRING)]

FileNodes ==
  [id : STRING, host : BOOLEAN, series : {"8.4", "9.7", Blank, "odd"},
   role : NodeRoles \cup {Blank, "odd"},
   replUser : BOOLEAN, replPassword : BOOLEAN]

ASSUME FileAssumption ==
  /\ Headers \subseteq FileHeaders /\ Entries \subseteq FileNodes /\ MaxNodes \in Nat

VARIABLES
  file,    \* the decoded file: header, nodes
  spec,    \* the ClusterSpec built so far
  load     \* "header", "nodes", or how the load ended

configVars == <<file, spec, load>>

Or(value, default) == IF value = Blank THEN default ELSE value

ConfigInit ==
  /\ file \in [header : Headers, nodes : UNION {[1..k -> Entries] : k \in 0..MaxNodes}]
  /\ spec = [threshold |-> 0, wait |-> 0, semiSync |-> Blank, salvage |-> Blank,
             observers |-> <<>>, fencing |-> <<>>, nodes |-> <<>>]
  /\ load = "header"

Reject == load' = "rejected" /\ UNCHANGED <<file, spec>>

-----------------------------------------------------------------------------
(* The header: topology, controller, replication and fencing.               *)

HeaderRefused(h) ==
  \/ ~h.named
  \/ h.kind \notin {Blank, SinglePrimary}
  \/ ~h.durations
  \/ h.mode \notin {Blank, "gtid"}
  \/ h.semiSync \notin SemiSyncPolicies \cup {Blank}
  \/ h.salvage \notin SalvagePolicies \cup {Blank}
  \/ \E i \in DOMAIN h.fencing : h.fencing[i] = Blank

RefuseHeader == load = "header" /\ HeaderRefused(file.header) /\ Reject

(* Mutant: a threshold of zero is taken as it is.                            *)
ReadHeaderNegativeOnly ==
  LET h == file.header
  IN /\ load = "header" /\ ~HeaderRefused(h)
     /\ spec' = [spec EXCEPT
          !.threshold = IF h.threshold < 0 THEN 3 ELSE h.threshold,
          !.wait      = IF h.wait < 0 THEN 0 ELSE h.wait,
          !.semiSync  = Or(h.semiSync, "preferred"),
          !.salvage   = Or(h.salvage, "salvage-if-possible"),
          !.observers = h.observers,
          !.fencing   = h.fencing]
     /\ load' = "nodes"
     /\ UNCHANGED file

ReadHeader ==
  LET h == file.header
  IN /\ load = "header" /\ ~HeaderRefused(h)
     /\ spec' = [spec EXCEPT
          !.threshold = IF h.threshold <= 0 THEN 3 ELSE h.threshold,
          !.wait      = IF h.wait < 0 THEN 0 ELSE h.wait,
          !.semiSync  = Or(h.semiSync, "preferred"),
          !.salvage   = Or(h.salvage, "salvage-if-possible"),
          !.observers = h.observers,
          !.fencing   = h.fencing]
     /\ load' = "nodes"
     /\ UNCHANGED file

-----------------------------------------------------------------------------
(* The nodes. *)

Unread   == Len(file.nodes) > Len(spec.nodes)
NextNode == file.nodes[Len(spec.nodes) + 1]
TooFew   == Len(file.nodes) < 2

NodeRefused(n) ==
  \/ n.series \notin {"8.4", "9.7"}
  \/ n.role \notin NodeRoles \cup {Blank}
  \/ n.id = Blank \/ ~n.host
  \/ n.replUser # n.replPassword

RefuseNodes ==
  /\ load = "nodes"
  /\ TooFew \/ (Unread /\ NodeRefused(NextNode))
  /\ Reject

ReadNode ==
  /\ load = "nodes" /\ ~TooFew
  /\ Unread /\ ~NodeRefused(NextNode)
  /\ spec' = [spec EXCEPT !.nodes = Append(@, [NextNode EXCEPT !.role = Or(@, "replica")])]
  /\ UNCHANGED <<file, load>>

Expected == {i \in DOMAIN spec.nodes : spec.nodes[i].role = "primary"}

(* Mutant: a file that marks no primary is refused.                          *)
RefusePrimariesNotOne ==
  /\ load = "nodes" /\ ~TooFew /\ ~Unread
  /\ Cardinality(Expected) # 1
  /\ Reject

RefusePrimaries ==
  /\ load = "nodes" /\ ~TooFew /\ ~Unread
  /\ Cardinality(Expected) > 1
  /\ Reject

(* Mutants: the first node becomes the primary whatever the others are; no    *)
(* node is chosen when none is marked.                                        *)
AcceptFirst ==
  /\ load = "nodes" /\ ~TooFew /\ ~Unread /\ Cardinality(Expected) <= 1
  /\ spec' = [spec EXCEPT !.nodes[1].role = "primary"]
  /\ load' = "accepted"
  /\ UNCHANGED file

Accept ==
  /\ load = "nodes" /\ ~TooFew /\ ~Unread /\ Cardinality(Expected) <= 1
  /\ spec' = IF Expected = {} THEN [spec EXCEPT !.nodes[1].role = "primary"] ELSE spec
  /\ load' = "accepted"
  /\ UNCHANGED file

ConfigNext == RefuseHeader \/ ReadHeader \/ RefuseNodes \/ ReadNode \/ RefusePrimaries \/ Accept

ConfigSpec == ConfigInit /\ [][ConfigNext]_configVars

-----------------------------------------------------------------------------
(* Properties. *)

Accepted == load = "accepted"

(* What the rest of mha-go takes for granted about its specification: at      *)
(* least two nodes, one expected primary, known roles, a threshold the        *)
(* monitor can reach, a count the assessment can meet, policies the planner   *)
(* distinguishes, and replication credentials that are whole (toDomain).      *)
SpecRelyOn ==
  Accepted =>
    /\ Len(spec.nodes) >= 2
    /\ Cardinality(Expected) = 1
    /\ \A i \in DOMAIN spec.nodes :
         /\ spec.nodes[i].role \in NodeRoles /\ spec.nodes[i].id # Blank
         /\ spec.nodes[i].replUser <=> spec.nodes[i].replPassword
    /\ spec.threshold >= 1 /\ spec.wait >= 0
    /\ spec.semiSync \in SemiSyncPolicies /\ spec.salvage \in SalvagePolicies

(* Defaults fill gaps only: the nodes keep their order and their identity,    *)
(* and a role is other than the file's only where the file has none, or on    *)
(* the first node of a file without a primary.                                *)
DefaultsFillGaps ==
  Accepted =>
    /\ Len(spec.nodes) = Len(file.nodes)
    /\ \A i \in DOMAIN spec.nodes :
         /\ spec.nodes[i].id = file.nodes[i].id
         /\ \/ spec.nodes[i].role = file.nodes[i].role
            \/ file.nodes[i].role = Blank /\ spec.nodes[i].role = "replica"
            \/ i = 1 /\ \A j \in DOMAIN file.nodes : file.nodes[j].role # "primary"

(* A load that fails has met an error: a file whose every field is legal is   *)
(* never refused, whatever the order of its nodes.                            *)
RefusedForCause ==
  load = "rejected" =>
    \/ HeaderRefused(file.header)
    \/ Len(file.nodes) < 2
    \/ \E i, j \in DOMAIN file.nodes :
         i # j /\ file.nodes[i].role = "primary" /\ file.nodes[j].role = "primary"
    \/ \E i \in DOMAIN file.nodes :
         LET n == file.nodes[i]
         IN n.id = Blank \/ ~n.host \/ n.series \in {Blank, "odd"} \/ n.role = "odd"
            \/ Cardinality({c \in {"replUser", "replPassword"} : n[c]}) = 1
=============================================================================
