----------------------------- MODULE MCGtidSets -----------------------------
(* An instance of GtidSets for TLC: numbers of three bits, every interval,    *)
(* one that ends before it starts, pairs listed backwards, and no interval.   *)
EXTENDS GtidSets

CONSTANT a

OctalIntervals ==
  {<<n>> : n \in Numbers} \cup {<<m, n>> \in Numbers \X Numbers : m <= n} \cup {<<1, 0>>}

OctalTokens ==
  {<<>>} \cup {<<raw>> : raw \in OctalIntervals}
         \cup {<< <<m>>, <<n>> >> : <<m, n>> \in {p \in Numbers \X Numbers : p[1] > p[2]}}
=============================================================================
