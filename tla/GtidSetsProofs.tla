--------------------------- MODULE GtidSetsProofs ---------------------------
(* The GTID arithmetic of GtidSets, for lists of every length over unsigned   *)
(* integers of every width.  Each loop of the code is a fold, and a fold goes *)
(* through a trace of one value per iteration (FoldTable, FoldIsTrace); what  *)
(* an iteration keeps then holds at the end by induction on the trace.  From  *)
(* the loops follow the five invariants of the specification.                 *)
EXTENDS GtidSets, SequenceTheorems, WellFoundedInduction, TLAPS

Bounded == {i \in [Start : Numbers, End : Numbers] : i.Start <= i.End}

-----------------------------------------------------------------------------
(* Induction, and what a fold computes. *)

(* A set with 0 and the successor of its every member has every natural       *)
(* number: induction, for a set where the library's theorem asks for an       *)
(* operator.                                                                  *)
LEMMA Induction ==
  ASSUME NEW S, 0 \in S, \A n \in Nat : n \in S => n + 1 \in S
  PROVE  \A n \in Nat : n \in S
<1> DEFINE T == Nat \ S
<1>1. SUFFICES ASSUME T # {}
               PROVE  FALSE
  OBVIOUS
<1>2. PICK t \in T : \A u \in T : ~(<<u, t>> \in OpToRel(<, Nat))
  <2>1. T \subseteq Nat
    OBVIOUS
  <2> QED
    BY <1>1, <2>1, NatLessThanWellFounded, WFMin
<1>3. t - 1 \in Nat /\ t - 1 < t /\ t = (t - 1) + 1
  OBVIOUS
<1>4. t - 1 \in T
  BY <1>3
<1>5. <<t - 1, t>> \in OpToRel(<, Nat)
  BY <1>3 DEF OpToRel
<1> QED
  BY <1>2, <1>4, <1>5

(* The largest member of a set of numbers up to m is m if m is a member.      *)
LEMMA MaxIsTheBound ==
  ASSUME NEW m \in Nat, NEW s \in SUBSET (1..m), m \in s
  PROVE  Max(s) = m
<1>1. m \in s /\ \A y \in s : m >= y
  OBVIOUS
<1>2. \A x \in s : (\A y \in s : x >= y) => x = m
  OBVIOUS
<1>3. Max(s) \in s /\ \A y \in s : Max(s) >= y
  BY <1>1 DEF Max
<1> QED
  BY <1>2, <1>3, Zenon

(* A set of numbers up to m has its largest member.                           *)
LEMMA MaxIsIn ==
  ASSUME NEW n \in Nat, NEW s \in SUBSET (1..n), s # {}
  PROVE  Max(s) \in 1..n /\ Max(s) \in s
<1> DEFINE Bound == {m \in Nat : \A u \in SUBSET (1..m) :
                       u # {} => \E x \in u : \A y \in u : x >= y}
<1>1. 0 \in Bound
  <2>1. 1..0 = {}
    OBVIOUS
  <2> QED
    BY <2>1
<1>2. ASSUME NEW m \in Nat, m \in Bound
      PROVE  m + 1 \in Bound
  <2>1. SUFFICES ASSUME NEW u \in SUBSET (1..(m + 1)), u # {}
                 PROVE  \E x \in u : \A y \in u : x >= y
    OBVIOUS
  <2>2. CASE m + 1 \in u
    <3>1. \A y \in u : m + 1 >= y
      OBVIOUS
    <3> QED
      BY <2>2, <3>1
  <2>3. CASE m + 1 \notin u
    <3>1. u \in SUBSET (1..m)
      BY <2>3
    <3> QED
      BY <1>2, <2>1, <3>1
  <2> QED
    BY <2>2, <2>3
<1>3. n \in Bound
  <2> HIDE DEF Bound
  <2> QED
    BY <1>1, <1>2, Induction
<1>4. \E x \in s : \A y \in s : x >= y
  BY <1>3
<1> QED
  BY <1>4 DEF Max

(* The values of a left fold on the sets of the first m positions, as Folds   *)
(* computes them.                                                             *)
IsTable(g, m, V, base, step) ==
  /\ g \in [SUBSET (1..m) -> V]
  /\ \A s \in SUBSET (1..m) :
       g[s] = IF s = {} THEN base ELSE step[<<g[s \ {Max(s)}], Max(s)>>]

(* A left fold over n positions has a value on every set of them.             *)
LEMMA FoldTable ==
  ASSUME NEW n \in Nat, NEW V, NEW base \in V, NEW step \in [V \X (1..n) -> V]
  PROVE  \E g : IsTable(g, n, V, base, step)
<1> DEFINE Tabled == {m \in Nat : m <= n => \E g : IsTable(g, m, V, base, step)}
<1>1. 0 \in Tabled
  <2> DEFINE g == [s \in SUBSET (1..0) |-> base]
  <2>1. 1..0 = {}
    OBVIOUS
  <2>2. \A s \in SUBSET (1..0) : s = {}
    BY <2>1
  <2>3. IsTable(g, 0, V, base, step)
    BY <2>2 DEF IsTable
  <2> QED
    BY <2>3
<1>2. ASSUME NEW m \in Nat, m \in Tabled
      PROVE  m + 1 \in Tabled
  <2>1. SUFFICES ASSUME m + 1 <= n
                 PROVE  \E h : IsTable(h, m + 1, V, base, step)
    OBVIOUS
  <2>2. m + 1 \in 1..n
    BY <2>1
  <2>3. PICK g : IsTable(g, m, V, base, step)
    BY <1>2, <2>1
  <2>4. /\ g \in [SUBSET (1..m) -> V]
       /\ \A s \in SUBSET (1..m) :
            g[s] = IF s = {} THEN base ELSE step[<<g[s \ {Max(s)}], Max(s)>>]
    BY <2>3 DEF IsTable
  <2> DEFINE h == [s \in SUBSET (1..(m + 1)) |->
                     IF m + 1 \in s THEN step[<<g[s \ {m + 1}], m + 1>>] ELSE g[s]]
  <2>5. ASSUME NEW s \in SUBSET (1..(m + 1)), m + 1 \in s
        PROVE  /\ s \ {m + 1} \in SUBSET (1..m) /\ s \ {m + 1} \in SUBSET (1..(m + 1))
               /\ Max(s) = m + 1 /\ h[s \ {m + 1}] = g[s \ {m + 1}]
    <3>1. s \ {m + 1} \in SUBSET (1..m) /\ s \ {m + 1} \in SUBSET (1..(m + 1))
      OBVIOUS
    <3>2. Max(s) = m + 1
      BY <2>5, MaxIsTheBound
    <3> QED
      BY <3>1, <3>2
  <2>6. ASSUME NEW s \in SUBSET (1..(m + 1)), m + 1 \notin s
        PROVE  /\ s \in SUBSET (1..m) /\ s \ {Max(s)} \in SUBSET (1..m)
               /\ h[s] = g[s] /\ h[s \ {Max(s)}] = g[s \ {Max(s)}]
    <3>1. s \in SUBSET (1..m)
      BY <2>6
    <3>2. s \ {Max(s)} \in SUBSET (1..m) /\ s \ {Max(s)} \in SUBSET (1..(m + 1))
          /\ m + 1 \notin s \ {Max(s)}
      BY <2>6, <3>1
    <3> QED
      BY <2>6, <3>1, <3>2
  <2>7. h \in [SUBSET (1..(m + 1)) -> V]
    <3>1. SUFFICES ASSUME NEW s \in SUBSET (1..(m + 1))
                   PROVE  h[s] \in V
      OBVIOUS
    <3>2. CASE m + 1 \in s
      <4>1. g[s \ {m + 1}] \in V
        BY <2>4, <2>5, <3>2
      <4> QED
        BY <2>2, <3>2, <4>1
    <3>3. CASE m + 1 \notin s
      BY <2>4, <2>6, <3>3
    <3> QED
      BY <3>2, <3>3
  <2>8. \A s \in SUBSET (1..(m + 1)) :
          h[s] = IF s = {} THEN base ELSE step[<<h[s \ {Max(s)}], Max(s)>>]
    <3>1. SUFFICES ASSUME NEW s \in SUBSET (1..(m + 1))
                   PROVE  h[s] = IF s = {} THEN base ELSE step[<<h[s \ {Max(s)}], Max(s)>>]
      OBVIOUS
    <3>2. CASE m + 1 \in s
      <4>1. s # {} /\ h[s] = step[<<g[s \ {m + 1}], m + 1>>]
        BY <3>2
      <4> HIDE DEF h
      <4> QED
        BY <2>5, <3>2, <4>1
    <3>3. CASE m + 1 \notin s
      <4>1. g[s] = IF s = {} THEN base ELSE step[<<g[s \ {Max(s)}], Max(s)>>]
        BY <2>4, <2>6, <3>3
      <4> HIDE DEF h
      <4> QED
        BY <2>6, <3>3, <4>1
    <3> QED
      BY <3>2, <3>3
  <2>9. IsTable(h, m + 1, V, base, step)
    <3> HIDE DEF h
    <3> QED
      BY <2>7, <2>8 DEF IsTable
  <2> QED
    BY <2>9
<1>3. \A m \in Nat : m \in Tabled
  <2> HIDE DEF Tabled
  <2> QED
    BY <1>1, <1>2, Induction
<1> QED
  BY <1>3

(* The values a left fold goes through, one per prefix.                       *)
IsTrace(t, n, V, base, step) ==
  t \in [0..n -> V] /\ t[0] = base /\ \A k \in 1..n : t[k] = step[<<t[k - 1], k>>]

(* A value that a trace ends with.                                            *)
Traced(last, n, V, base, step) ==
  \E t : IsTrace(t, n, V, base, step) /\ t[n] = last

(* What a fold computes, when nothing is known of it outside V.               *)
IsFold(it, n, V, base, step) ==
  /\ it[{}] = base
  /\ \A s \in SUBSET (1..n) : s # {} /\ it[s \ {Max(s)}] \in V
       => it[s] = step[<<it[s \ {Max(s)}], Max(s)>>]

(* A fold goes through a trace and ends with its last value.                  *)
LEMMA FoldIsTrace ==
  ASSUME NEW n \in Nat, NEW V, NEW base \in V, NEW step \in [V \X (1..n) -> V],
         NEW it, IsFold(it, n, V, base, step)
  PROVE  Traced(it[1..n], n, V, base, step)
<1> DEFINE t == [k \in 0..n |-> it[1..k]]
           Good == {k \in Nat : k <= n => it[1..k] \in V}
<1>1. ASSUME NEW k \in 1..n
      PROVE  /\ k \in 0..n /\ k - 1 \in 0..n /\ k - 1 \in Nat
             /\ it[1..(k - 1)] \in V => it[1..k] = step[<<it[1..(k - 1)], k>>]
  <2>1. /\ k \in Nat /\ k - 1 \in Nat /\ k \in 0..n /\ k - 1 \in 0..n
        /\ 1..k \in SUBSET (1..n) /\ 1..k \in SUBSET (1..k) /\ k \in 1..k
    OBVIOUS
  <2>2. Max(1..k) = k
    BY <2>1, MaxIsTheBound
  <2>3. (1..k) \ {k} = 1..(k - 1) /\ 1..k # {}
    BY <2>1
  <2> QED
    BY <2>1, <2>2, <2>3 DEF IsFold
<1>2. 1..0 = {}
  OBVIOUS
<1>3. 0 \in Good
  BY <1>2 DEF IsFold
<1>4. ASSUME NEW k \in Nat, k \in Good
      PROVE  k + 1 \in Good
  <2>1. SUFFICES ASSUME k + 1 <= n
                 PROVE  it[1..(k + 1)] \in V
    OBVIOUS
  <2>2. k + 1 \in 1..n /\ (k + 1) - 1 = k /\ it[1..k] \in V
    BY <1>4, <2>1
  <2>3. it[1..(k + 1)] = step[<<it[1..k], k + 1>>]
    BY <1>1, <2>2
  <2> QED
    BY <2>2, <2>3
<1>5. \A k \in Nat : k \in Good
  <2> HIDE DEF Good
  <2> QED
    BY <1>3, <1>4, Induction
<1>6. t \in [0..n -> V] /\ n \in 0..n /\ 0 \in 0..n
  BY <1>5
<1>7. \A k \in 1..n : t[k] = step[<<t[k - 1], k>>]
  BY <1>1, <1>5
<1>8. t[0] = base /\ t[n] = it[1..n]
  BY <1>2, <1>6 DEF IsFold
<1> HIDE DEF t
<1> QED
  BY <1>6, <1>7, <1>8 DEF IsTrace, Traced

-----------------------------------------------------------------------------
(* sort.Slice. *)

(* The loop of sort.Slice as Sorted folds it.                                 *)
LEMMA SortedTrace ==
  ASSUME NEW s \in Seq(Bounded),
         \A v \in Seq(Bounded), i \in Bounded : Insert(v, i) \in Seq(Bounded)
  PROVE  \E t \in [0..Len(s) -> Seq(Bounded)] :
           /\ t[0] = <<>> /\ t[Len(s)] = Sorted(s)
           /\ \A k \in 1..Len(s) : t[k] = Insert(t[k - 1], s[k])
<1> DEFINE n == Len(s)
           V == Seq(Bounded)
           step == [p \in V \X (1..n) |-> Insert(p[1], s[p[2]])]
           Value(h, u) == IF u = {} THEN <<>> ELSE Insert(h[u \ {Max(u)}], s[Max(u)])
           it == CHOOSE h : h = [u \in SUBSET (1..n) |-> Value(h, u)]
<1>1. n \in Nat /\ DOMAIN s = 1..n /\ <<>> \in V /\ \A k \in 1..n : s[k] \in Bounded
  OBVIOUS
<1>2. Sorted(s) = it[1..n]
  BY <1>1 DEF Sorted, FoldLeft, MapThenFoldSet
<1> HIDE DEF n
<1>3. step \in [V \X (1..n) -> V]
  <2>1. \A p \in V \X (1..n) : Insert(p[1], s[p[2]]) \in V
    BY <1>1
  <2> QED
    BY <2>1
<1>4. \A v \in V, k \in 1..n : step[<<v, k>>] = Insert(v, s[k])
  OBVIOUS
<1> HIDE DEF step, V
<1>5. PICK g : IsTable(g, n, V, <<>>, step)
  BY <1>1, <1>3, FoldTable
<1>6. g = [u \in SUBSET (1..n) |-> Value(g, u)]
  <2>1. ASSUME NEW u \in SUBSET (1..n), u # {}
        PROVE  g[u] = Insert(g[u \ {Max(u)}], s[Max(u)])
    <3>1. Max(u) \in 1..n /\ u \ {Max(u)} \in SUBSET (1..n)
      BY <1>1, <2>1, MaxIsIn
    <3>2. g[u] = step[<<g[u \ {Max(u)}], Max(u)>>] /\ g[u \ {Max(u)}] \in V
      BY <1>5, <2>1, <3>1 DEF IsTable
    <3> QED
      BY <1>4, <3>1, <3>2
  <2>2. g \in [SUBSET (1..n) -> V] /\ g[{}] = <<>>
    BY <1>5 DEF IsTable
  <2> QED
    BY <2>1, <2>2
<1>7. it = [u \in SUBSET (1..n) |-> Value(it, u)]
  <2> HIDE DEF Value
  <2> QED
    BY <1>6
<1> HIDE DEF it
<1>8. it[{}] = <<>>
  BY <1>7
<1>9. \A u \in SUBSET (1..n) : u # {} /\ it[u \ {Max(u)}] \in V
        => it[u] = step[<<it[u \ {Max(u)}], Max(u)>>]
  <2>1. \A u \in SUBSET (1..n) : u # {} => Max(u) \in 1..n
    BY <1>1, MaxIsIn
  <2> QED
    BY <1>4, <1>7, <2>1
<1>10. PICK t : IsTrace(t, n, V, <<>>, step) /\ t[n] = it[1..n]
  <2>1. IsFold(it, n, V, <<>>, step)
    BY <1>8, <1>9 DEF IsFold
  <2>2. n \in Nat /\ <<>> \in V /\ step \in [V \X (1..n) -> V]
    BY <1>1, <1>3
  <2>3. Traced(it[1..n], n, V, <<>>, step)
    BY ONLY <2>1, <2>2, FoldIsTrace
  <2> QED
    BY <2>3 DEF Traced
<1>11. t \in [0..n -> V] /\ t[0] = <<>> /\ \A k \in 1..n : t[k] = Insert(t[k - 1], s[k])
  <2>1. \A k \in 1..n : k - 1 \in 0..n
    BY <1>1
  <2> QED
    BY <1>4, <1>10, <2>1 DEF IsTrace
<1> QED
  BY <1>2, <1>10, <1>11 DEF n, V

(* A set of natural numbers has its smallest member.                          *)
LEMMA MinIsIn ==
  ASSUME NEW s \in SUBSET Nat, s # {}
  PROVE  Min(s) \in s /\ \A y \in s : Min(s) <= y
<1>1. PICK x \in s : \A y \in s : ~(<<y, x>> \in OpToRel(<, Nat))
  BY NatLessThanWellFounded, WFMin
<1>2. ASSUME NEW y \in s
      PROVE  x <= y
  <2>1. x \in Nat /\ y \in Nat
    OBVIOUS
  <2>2. y < x => <<y, x>> \in OpToRel(<, Nat)
    BY <2>1 DEF OpToRel
  <2>3. ~(y < x)
    BY <1>1, <2>2
  <2> QED
    BY <2>1, <2>3
<1> QED
  BY <1>2 DEF Min

(* A list of intervals in the order of their starts.                          *)
Ascending(s) == \A j, k \in 1..Len(s) : j <= k => s[j].Start <= s[k].Start

(* The place at which Insert puts an interval.                                *)
LEMMA InsertPlace ==
  ASSUME NEW v \in Seq(Bounded), NEW i \in Bounded
  PROVE  \E p \in 1..(Len(v) + 1) :
           /\ Insert(v, i) = InsertAt(v, p, i)
           /\ \A k \in 1..Len(v) : k < p => ~Before(i, v[k])
           /\ p <= Len(v) => Before(i, v[p])
<1> DEFINE I == {k \in 1..Len(v) : Before(i, v[k])}
           later == SelectInSeq(v, LAMBDA h : Before(i, h))
<1>1. later = IF I # {} THEN Min(I) ELSE 0
  BY DEF SelectInSeq
<1>2. I \in SUBSET Nat /\ Len(v) \in Nat
  OBVIOUS
<1>3. Insert(v, i) = InsertAt(v, IF later = 0 THEN Len(v) + 1 ELSE later, i)
  BY DEF Insert
<1>4. CASE I # {}
  <2>1. later \in I /\ \A y \in I : later <= y
    <3> HIDE DEF I, later
    <3> QED
      BY <1>1, <1>2, <1>4, MinIsIn
  <2> HIDE DEF later
  <2>2. later \in 1..Len(v) /\ later # 0 /\ Before(i, v[later])
    BY <2>1
  <2>3. \A k \in 1..Len(v) : k < later => ~Before(i, v[k])
    BY <2>1
  <2>4. Insert(v, i) = InsertAt(v, later, i)
    BY <1>3, <2>2
  <2> QED
    BY <2>2, <2>3, <2>4
<1>5. CASE I = {}
  <2>1. later = 0
    BY <1>1, <1>5
  <2>2. \A k \in 1..Len(v) : ~Before(i, v[k])
    BY <1>5
  <2>3. Len(v) + 1 \in 1..(Len(v) + 1) /\ ~(Len(v) + 1 <= Len(v))
    BY <1>2
  <2>4. Insert(v, i) = InsertAt(v, Len(v) + 1, i)
    BY <1>3, <2>1
  <2> QED
    BY <2>2, <2>3, <2>4
<1> QED
  BY <1>4, <1>5

(* What InsertAt of the community modules makes of a list.                    *)
LEMMA InsertAtIs ==
  ASSUME NEW v \in Seq(Bounded), NEW i \in Bounded, NEW p \in 1..(Len(v) + 1)
  PROVE  /\ InsertAt(v, p, i) \in Seq(Bounded)
         /\ Len(InsertAt(v, p, i)) = Len(v) + 1
         /\ \A k \in 1..(Len(v) + 1) :
              InsertAt(v, p, i)[k] = IF k < p THEN v[k] ELSE IF k = p THEN i ELSE v[k - 1]
<1> DEFINE front == SubSeq(v, 1, p - 1)
           back == SubSeq(v, p, Len(v))
<1>1. Len(v) \in Nat /\ p \in Nat /\ p >= 1 /\ p <= Len(v) + 1
  OBVIOUS
<1>2. /\ front \in Seq(Bounded) /\ Len(front) = p - 1
      /\ \A k \in 1..(p - 1) : front[k] = v[k]
  <2>1. \A k \in 1..(p - 1) : v[k] \in Bounded
    BY <1>1
  <2>2. p - 1 \in Int /\ 1 \in Int
    BY <1>1
  <2>3. /\ SubSeq(v, 1, p - 1) \in Seq(Bounded)
        /\ Len(SubSeq(v, 1, p - 1)) = IF 1 <= p - 1 THEN (p - 1) - 1 + 1 ELSE 0
        /\ \A k \in 1..((p - 1) - 1 + 1) : SubSeq(v, 1, p - 1)[k] = v[1 + k - 1]
    BY <2>1, <2>2, SubSeqProperties
  <2> QED
    BY <1>1, <2>3
<1>3. /\ back \in Seq(Bounded) /\ Len(back) = Len(v) - p + 1
      /\ \A k \in 1..(Len(v) - p + 1) : back[k] = v[p + k - 1]
  <2>1. \A k \in p..Len(v) : v[k] \in Bounded
    BY <1>1
  <2>2. p \in Int /\ Len(v) \in Int
    BY <1>1
  <2>3. /\ SubSeq(v, p, Len(v)) \in Seq(Bounded)
        /\ Len(SubSeq(v, p, Len(v))) = IF p <= Len(v) THEN Len(v) - p + 1 ELSE 0
        /\ \A k \in 1..(Len(v) - p + 1) : SubSeq(v, p, Len(v))[k] = v[p + k - 1]
    BY <2>1, <2>2, SubSeqProperties
  <2> QED
    BY <1>1, <2>3
<1> HIDE DEF front, back
<1> DEFINE one == <<i>>
           start == front \o one
<1>4. one \in Seq(Bounded) /\ Len(one) = 1 /\ one[1] = i
  OBVIOUS
<1> HIDE DEF one
<1>5. /\ start \in Seq(Bounded) /\ Len(start) = p
      /\ \A k \in 1..p : start[k] = IF k < p THEN v[k] ELSE i
  <2>1. /\ start \in Seq(Bounded) /\ Len(start) = Len(front) + Len(one)
        /\ \A k \in 1..(Len(front) + Len(one)) :
             start[k] = IF k <= Len(front) THEN front[k] ELSE one[k - Len(front)]
    BY <1>2, <1>4, ConcatProperties
  <2> HIDE DEF start
  <2> QED
    BY <1>1, <1>2, <1>4, <2>1
<1> HIDE DEF start
<1>6. /\ start \o back \in Seq(Bounded) /\ Len(start \o back) = Len(start) + Len(back)
      /\ \A k \in 1..(Len(start) + Len(back)) :
           (start \o back)[k] = IF k <= Len(start) THEN start[k] ELSE back[k - Len(start)]
  BY <1>3, <1>5, ConcatProperties
<1>7. InsertAt(v, p, i) = start \o back
  BY DEF InsertAt, start, front, back, one
<1> DEFINE whole == start \o back
<1> HIDE DEF whole
<1>8. Len(start) + Len(back) = Len(v) + 1
  BY <1>1, <1>3, <1>5
<1>9. \A k \in 1..(Len(v) + 1) :
        whole[k] = IF k < p THEN v[k] ELSE IF k = p THEN i ELSE v[k - 1]
  <2>1. ASSUME NEW k \in 1..(Len(v) + 1)
        PROVE  whole[k] = IF k < p THEN v[k] ELSE IF k = p THEN i ELSE v[k - 1]
    <3>1. whole[k] = IF k <= p THEN start[k] ELSE back[k - p]
      BY <1>5, <1>6, <1>8 DEF whole
    <3>2. k > p => k - p \in 1..(Len(v) - p + 1) /\ p + (k - p) - 1 = k - 1
      BY <1>1
    <3>3. k <= p => k \in 1..p
      BY <1>1
    <3> QED
      BY <1>1, <1>3, <1>5, <3>1, <3>2, <3>3
  <2> QED
    BY <2>1
<1> QED
  BY <1>6, <1>7, <1>8, <1>9 DEF whole

(* The ends of a bounded interval are integers in order.                      *)
LEMMA BoundedEnds ==
  ASSUME NEW i \in Bounded
  PROVE  i.Start \in Int /\ i.End \in Int /\ i.Start <= i.End
BY DEF Bounded, Numbers

(* One insertion keeps the order, and adds the numbers of what it inserts.    *)
LEMMA InsertSorts ==
  ASSUME NEW v \in Seq(Bounded), NEW i \in Bounded
  PROVE  /\ Insert(v, i) \in Seq(Bounded)
         /\ Named(Insert(v, i)) = Named(v) \cup Ids(i)
         /\ Ascending(v) => Ascending(Insert(v, i))
<1>1. PICK p \in 1..(Len(v) + 1) :
        /\ Insert(v, i) = InsertAt(v, p, i)
        /\ \A k \in 1..Len(v) : k < p => ~Before(i, v[k])
        /\ p <= Len(v) => Before(i, v[p])
  BY InsertPlace
<1> DEFINE w == Insert(v, i)
           n == Len(v)
<1>2. /\ w \in Seq(Bounded) /\ Len(w) = n + 1 /\ n \in Nat
      /\ \A k \in 1..(n + 1) : w[k] = IF k < p THEN v[k] ELSE IF k = p THEN i ELSE v[k - 1]
  <2>1. /\ InsertAt(v, p, i) \in Seq(Bounded)
        /\ Len(InsertAt(v, p, i)) = Len(v) + 1
        /\ \A k \in 1..(Len(v) + 1) :
             InsertAt(v, p, i)[k] = IF k < p THEN v[k] ELSE IF k = p THEN i ELSE v[k - 1]
    BY ONLY v \in Seq(Bounded), i \in Bounded, p \in 1..(Len(v) + 1), InsertAtIs
  <2>2. w = InsertAt(v, p, i)
    BY <1>1, Zenon
  <2>3. n \in Nat
    OBVIOUS
  <2> HIDE DEF w
  <2> QED
    BY <2>1, <2>2, <2>3, Zenon
<1>3. DOMAIN w = 1..(n + 1) /\ DOMAIN v = 1..n
  BY <1>2
<1> HIDE DEF w
<1>4. Named(w) = Named(v) \cup Ids(i)
  <2>1. ASSUME NEW k \in 1..(n + 1)
        PROVE  w[k] = i \/ \E j \in 1..n : w[k] = v[j]
    <3>1. CASE k < p
      <4>1. k \in 1..n
        BY <1>2, <3>1
      <4> QED
        BY <1>2, <3>1, <4>1
    <3>2. CASE k = p
      BY <1>2, <3>2
    <3>3. CASE k > p
      <4>1. k - 1 \in 1..n /\ ~(k < p) /\ k # p
        BY <1>2, <3>3
      <4> QED
        BY <1>2, <4>1
    <3> QED
      BY <3>1, <3>2, <3>3
  <2>2. ASSUME NEW j \in 1..n
        PROVE  \E k \in 1..(n + 1) : w[k] = v[j]
    <3>1. CASE j < p
      <4>1. j \in 1..(n + 1)
        BY <1>2
      <4> QED
        BY <1>2, <3>1, <4>1
    <3>2. CASE ~(j < p)
      <4>1. j + 1 \in 1..(n + 1) /\ ~(j + 1 < p) /\ j + 1 # p /\ (j + 1) - 1 = j
        BY <1>2, <3>2
      <4> QED
        BY <1>2, <4>1
    <3> QED
      BY <3>1, <3>2
  <2>3. w[p] = i
    BY <1>2
  <2> QED
    BY <1>3, <2>1, <2>2, <2>3 DEF Named
<1>5. ASSUME Ascending(v)
      PROVE  Ascending(w)
  <2>1. ASSUME NEW j \in 1..(n + 1), NEW k \in 1..(n + 1), j < k
        PROVE  w[j].Start <= w[k].Start
    <3> DEFINE j1 == IF j < p THEN j ELSE j - 1
               k1 == IF k < p THEN k ELSE k - 1
    <3>1. i.Start \in Int /\ i.End \in Int
      BY BoundedEnds
    <3>2. \A m \in 1..n : v[m] \in Bounded /\ v[m].Start \in Int /\ v[m].End \in Int
      BY BoundedEnds
    <3>3. \A l, m \in 1..n : l <= m => v[l].Start <= v[m].Start
      BY <1>5 DEF Ascending
    <3>4. CASE j # p /\ k # p
      <4>1. j1 \in 1..n /\ k1 \in 1..n /\ j1 <= k1 /\ w[j] = v[j1] /\ w[k] = v[k1]
        BY <1>2, <2>1, <3>4
      <4> QED
        BY <3>3, <4>1
    <3>5. CASE j = p
      <4>1. k - 1 \in 1..n /\ p \in 1..n /\ p <= k - 1 /\ w[j] = i /\ w[k] = v[k - 1]
        BY <1>2, <2>1, <3>5
      <4>2. Before(i, v[p]) /\ v[p].Start <= v[k - 1].Start
        BY <1>1, <3>3, <4>1
      <4> QED
        BY <3>1, <3>2, <4>1, <4>2 DEF Before
    <3>6. CASE k = p
      <4>1. j \in 1..n /\ j < p /\ w[j] = v[j] /\ w[k] = i
        BY <1>2, <2>1, <3>6
      <4>2. ~Before(i, v[j])
        BY <1>1, <4>1
      <4> QED
        BY <3>1, <3>2, <4>1, <4>2 DEF Before
    <3> QED
      BY <3>4, <3>5, <3>6
  <2>2. \A j \in 1..(n + 1) : w[j].Start \in Int
    BY <1>2, BoundedEnds
  <2>3. \A j \in 1..(n + 1) : w[j].Start <= w[j].Start
    BY <2>2
  <2>4. \A j, k \in 1..(n + 1) : j <= k => j < k \/ j = k
    BY <1>2
  <2> QED
    BY <1>2, <2>1, <2>3, <2>4 DEF Ascending
<1> QED
  BY <1>2, <1>4, <1>5 DEF w

(* The numbers of the first k intervals of a list.                            *)
NamedTo(s, k) == UNION {Ids(s[j]) : j \in 1..k}

LEMMA NamedToIs ==
  ASSUME NEW s \in Seq(Bounded)
  PROVE  /\ NamedTo(s, 0) = {}
         /\ NamedTo(s, Len(s)) = Named(s)
         /\ \A k \in 1..Len(s) : NamedTo(s, k) = NamedTo(s, k - 1) \cup Ids(s[k])
<1>1. 1..0 = {} /\ DOMAIN s = 1..Len(s)
  OBVIOUS
<1>2. ASSUME NEW k \in 1..Len(s)
      PROVE  NamedTo(s, k) = NamedTo(s, k - 1) \cup Ids(s[k])
  <2>1. 1..k = (1..(k - 1)) \cup {k}
    OBVIOUS
  <2> QED
    BY <2>1 DEF NamedTo
<1> QED
  BY <1>1, <1>2 DEF NamedTo, Named

(* Sorting keeps the numbers and brings the starts into order.                *)
LEMMA SortedIs ==
  ASSUME NEW s \in Seq(Bounded)
  PROVE  Sorted(s) \in Seq(Bounded) /\ Ascending(Sorted(s)) /\ Named(Sorted(s)) = Named(s)
<1> DEFINE n == Len(s)
<1>0. n \in Nat
  OBVIOUS
<1>1. n \in Nat /\ \A k \in 1..n : s[k] \in Bounded
  OBVIOUS
<1>2. PICK t \in [0..n -> Seq(Bounded)] :
        /\ t[0] = <<>> /\ t[n] = Sorted(s)
        /\ \A k \in 1..n : t[k] = Insert(t[k - 1], s[k])
  BY SortedTrace, InsertSorts
<1> HIDE DEF n
<1> DEFINE Good == {k \in Nat : k <= n => /\ Ascending(t[k])
                                          /\ Named(t[k]) = NamedTo(s, k)}
<1>3. 0 \in Good
  <2>1. Ascending(<<>>) /\ Named(<<>>) = {}
    BY DEF Ascending, Named
  <2> QED
    BY <1>2, <2>1, NamedToIs
<1>4. ASSUME NEW k \in Nat, k \in Good
      PROVE  k + 1 \in Good
  <2>1. SUFFICES ASSUME k + 1 <= n
                 PROVE  Ascending(t[k + 1]) /\ Named(t[k + 1]) = NamedTo(s, k + 1)
    OBVIOUS
  <2>2. k + 1 \in 1..n /\ (k + 1) - 1 = k /\ k \in 0..n
    BY <1>0, <2>1
  <2>3. t[k + 1] = Insert(t[k], s[k + 1]) /\ t[k] \in Seq(Bounded) /\ s[k + 1] \in Bounded
    BY <1>1, <1>2, <2>2
  <2>4. Ascending(t[k]) /\ Named(t[k]) = NamedTo(s, k)
    BY <1>0, <1>4, <2>1
  <2>5. NamedTo(s, k + 1) = NamedTo(s, k) \cup Ids(s[k + 1])
    BY <2>2, NamedToIs DEF n
  <2> QED
    BY <2>3, <2>4, <2>5, InsertSorts
<1>5. n \in Good
  <2> HIDE DEF Good
  <2> QED
    BY <1>1, <1>3, <1>4, Induction
<1>6. t[n] \in Seq(Bounded)
  BY <1>1, <1>2
<1> QED
  BY <1>1, <1>2, <1>5, <1>6, NamedToIs DEF n

-----------------------------------------------------------------------------
(* normalizeIntervals. *)

(* A list in which two neighbours leave a gap, unless an interval before the  *)
(* gap ends at the largest number.                                            *)
Gapped(s) == \A k \in 1..(Len(s) - 1) :
  s[k].End + 1 < s[k + 1].Start \/ Largest \in {s[j].End : j \in 1..k}

Normal(s) == s \in Seq(Bounded) /\ Ascending(s) /\ Gapped(s)

(* The only value that adding one to an unsigned integer may wrap to is 0.    *)
LEMMA WrapsToZero ==
  ASSUME NEW m \in Nat, NEW n \in 0..(m - 1)
  PROVE  (n + 1) % m = IF n = m - 1 THEN 0 ELSE n + 1
<1>1. CASE n = m - 1
  BY <1>1, SMT
<1>2. CASE n # m - 1
  <2>1. n + 1 \in 0..(m - 1)
    BY <1>2
  <2> QED
    BY <1>2, <2>1, SMT
<1> QED
  BY <1>1, <1>2

(* What the condition of the merge says, also where End + 1 wraps to 0.       *)
LEMMA AdjoinsIs ==
  ASSUME NEW last \in Bounded, NEW i \in Bounded, last.Start <= i.Start
  PROVE  /\ Adjoins(last, i) => i.Start <= last.End + 1
         /\ ~Adjoins(last, i) => last.End = Largest \/ last.End + 1 < i.Start
<1>1. 2^Width \in Nat
  BY GtidSetsAssumption
<1>2. last.End \in 0..(2^Width - 1) /\ i.Start \in 0..(2^Width - 1) /\ Largest = 2^Width - 1
  BY DEF Bounded, Numbers, Largest
<1>3. (last.End + 1) % 2^Width = IF last.End = 2^Width - 1 THEN 0 ELSE last.End + 1
  BY <1>1, <1>2, WrapsToZero
<1> QED
  BY <1>1, <1>2, <1>3 DEF Adjoins

(* One iteration of normalizeIntervals over sorted intervals keeps a merged   *)
(* list sorted and gapped, and loses and adds no number.                      *)
THEOREM MergeIsUnion ==
  ASSUME NEW m \in Seq(Bounded), NEW i \in Bounded, Normal(m),
         m # <<>> => m[Len(m)].Start <= i.Start
  PROVE  /\ Normal(Merge(m, i)) /\ Merge(m, i) # <<>>
         /\ Merge(m, i)[Len(Merge(m, i))].Start <= i.Start
         /\ Named(Merge(m, i)) = Named(m) \cup Ids(i)
<1> DEFINE n == Len(m)
           w == Merge(m, i)
<1>0. n \in Nat
  OBVIOUS
<1>1. n \in Nat /\ DOMAIN m = 1..n /\ \A k \in 1..n : m[k] \in Bounded
  OBVIOUS
<1>2. i.Start \in Int /\ i.End \in Int /\ i.Start <= i.End
  BY BoundedEnds
<1>3. /\ \A k \in 1..n : m[k].Start \in Int /\ m[k].End \in Int /\ m[k].Start <= m[k].End
      /\ \A j, k \in 1..n : j <= k => m[j].Start <= m[k].Start
  BY <1>1, BoundedEnds DEF Normal, Ascending
<1>4. Gapped(m)
  BY DEF Normal
<1>5. CASE m # <<>> /\ Adjoins(Last(m), i)
  <2>1. n \in 1..n /\ n >= 1 /\ m[n].Start <= i.Start
    BY <1>1, <1>5
  <2>2. i.Start <= m[n].End + 1
    BY <1>1, <1>5, <2>1, AdjoinsIs DEF Last
  <2>3. CASE i.End > m[n].End
    <3>1. w = [m EXCEPT ![n].End = i.End]
      BY <1>5, <2>3 DEF Merge, Last
    <3> DEFINE wide == [m[n] EXCEPT !.End = i.End]
    <3>2. wide \in Bounded /\ wide.Start = m[n].Start /\ wide.End = i.End
      BY <1>1, <1>2, <1>3, <2>1, <2>3 DEF Bounded
    <3>3. w = [m EXCEPT ![n] = wide]
      BY <3>1
    <3> HIDE DEF w, wide
    <3>4. /\ w \in Seq(Bounded) /\ Len(w) = n /\ DOMAIN w = 1..n
          /\ w[n] = wide /\ \A k \in 1..n : k # n => w[k] = m[k]
      BY <2>1, <3>2, <3>3
    <3>5. \A k \in 1..n : w[k].Start = m[k].Start
      BY <3>2, <3>4
    <3>6. Ascending(w)
      BY <1>3, <3>4, <3>5 DEF Ascending
    <3>7. Gapped(w)
      <4>1. \A k \in 1..(n - 1) : k \in 1..n /\ k # n /\ k + 1 \in 1..n
        BY <1>0
      <4>2. \A k \in 1..(n - 1) : {w[j].End : j \in 1..k} = {m[j].End : j \in 1..k}
        <5>1. \A k \in 1..(n - 1) : \A j \in 1..k : j \in 1..n /\ j # n
          BY <1>0
        <5> QED
          BY <3>4, <5>1
      <4> QED
        BY <1>4, <3>4, <3>5, <4>1, <4>2 DEF Gapped
    <3>8. Ids(wide) = Ids(m[n]) \cup Ids(i)
      BY <1>2, <1>3, <2>1, <2>2, <2>3, <3>2 DEF Ids, Numbers
    <3>9. Named(w) = Named(m) \cup Ids(i)
      BY <1>1, <2>1, <3>4, <3>8 DEF Named
    <3>10. Normal(w) /\ w # <<>>
      <4>1. Normal(w)
        BY <3>4, <3>6, <3>7 DEF Normal
      <4>2. n # 0
        BY <1>0, <2>1
      <4>3. Len(w) = n
        BY <3>4
      <4>4. w # <<>>
        BY <4>2, <4>3
      <4> QED
        BY <4>1, <4>4
    <3>11. w[Len(w)].Start <= i.Start
      BY <2>1, <3>2, <3>4
    <3> QED
      BY <3>9, <3>10, <3>11 DEF w
  <2>4. CASE ~(i.End > m[n].End)
    <3>1. w = m
      BY <1>5, <2>4 DEF Merge, Last
    <3>2. Ids(i) \subseteq Ids(m[n])
      BY <1>2, <1>3, <2>1, <2>4 DEF Ids, Numbers
    <3>3. Named(m) = Named(m) \cup Ids(i)
      BY <1>1, <2>1, <3>2 DEF Named
    <3> QED
      BY <1>5, <2>1, <3>1, <3>3
  <2> QED
    BY <2>3, <2>4
<1>6. CASE ~(m # <<>> /\ Adjoins(Last(m), i))
  <2>1. w = Append(m, i)
    BY <1>6 DEF Merge
  <2> HIDE DEF w
  <2>2. /\ w \in Seq(Bounded) /\ Len(w) = n + 1 /\ DOMAIN w = 1..(n + 1)
        /\ w[n + 1] = i /\ \A k \in 1..n : w[k] = m[k]
    BY <1>1, <2>1, AppendProperties
  <2>3. \A k \in 1..n : m[k].Start <= i.Start
    <3>1. CASE m = <<>>
      <4>1. n = 0
        BY <3>1
      <4> QED
        BY <4>1
    <3>2. CASE m # <<>>
      <4>1. n \in 1..n
        BY <1>1, <3>2
      <4> QED
        BY <1>1, <1>2, <1>3, <3>2, <4>1
    <3> QED
      BY <3>1, <3>2
  <2>4. Ascending(w)
    <3>1. ASSUME NEW j \in 1..(n + 1), NEW k \in 1..(n + 1), j <= k
          PROVE  w[j].Start <= w[k].Start
      <4>1. CASE k \in 1..n
        <5>1. j \in 1..n
          BY <3>1, <4>1
        <5> QED
          BY <1>3, <2>2, <3>1, <4>1, <5>1
      <4>2. CASE k = n + 1
        <5>1. j \in 1..n \/ j = n + 1
          BY <1>1
        <5> QED
          BY <1>2, <2>2, <2>3, <4>2, <5>1
      <4> QED
        BY <1>1, <4>1, <4>2
    <3> QED
      BY <2>2, <3>1 DEF Ascending
  <2>5. Gapped(w)
    <3>1. ASSUME NEW k \in 1..n
          PROVE  w[k].End + 1 < w[k + 1].Start \/ Largest \in {w[j].End : j \in 1..k}
      <4>1. {w[j].End : j \in 1..k} = {m[j].End : j \in 1..k}
        <5>1. \A j \in 1..k : j \in 1..n
          BY <1>1
        <5> QED
          BY <2>2, <5>1
      <4>2. CASE k < n
        <5>1. k \in 1..(n - 1) /\ k + 1 \in 1..n
          BY <1>1, <4>2
        <5> QED
          BY <1>4, <2>2, <4>1, <5>1 DEF Gapped
      <4>3. CASE k = n
        <5>1. m # <<>> /\ ~Adjoins(m[n], i) /\ m[n].Start <= i.Start /\ m[n] \in Bounded
          BY <1>1, <1>6, <2>3, <4>3 DEF Last
        <5>2. m[n].End = Largest \/ m[n].End + 1 < i.Start
          BY <5>1, AdjoinsIs
        <5>3. m[n].End \in {m[j].End : j \in 1..k}
          BY <4>3
        <5> QED
          BY <2>2, <4>1, <4>3, <5>2, <5>3
      <4>4. k < n \/ k = n
        BY <1>0
      <4> QED
        BY <4>2, <4>3, <4>4
    <3>2. Len(w) - 1 = n
      BY <1>1, <2>2
    <3> QED
      BY <3>1, <3>2 DEF Gapped
  <2>6. Named(w) = Named(m) \cup Ids(i)
    <3>1. 1..(n + 1) = (1..n) \cup {n + 1}
      BY <1>1
    <3> QED
      BY <1>1, <2>2, <3>1 DEF Named
  <2> QED
    BY <1>1, <1>2, <2>2, <2>4, <2>5, <2>6 DEF Normal, w
<1> QED
  BY <1>5, <1>6

(* The loop of normalizeIntervals as Normalize folds it.                      *)
LEMMA MergeTrace ==
  ASSUME NEW s \in Seq(Bounded),
         \A v \in Seq(Bounded), i \in Bounded : Merge(v, i) \in Seq(Bounded)
  PROVE  \E t \in [0..Len(s) -> Seq(Bounded)] :
           /\ t[0] = <<>> /\ t[Len(s)] = FoldLeft(Merge, <<>>, s)
           /\ \A k \in 1..Len(s) : t[k] = Merge(t[k - 1], s[k])
<1> DEFINE n == Len(s)
           V == Seq(Bounded)
           step == [p \in V \X (1..n) |-> Merge(p[1], s[p[2]])]
           Value(h, u) == IF u = {} THEN <<>> ELSE Merge(h[u \ {Max(u)}], s[Max(u)])
           it == CHOOSE h : h = [u \in SUBSET (1..n) |-> Value(h, u)]
<1>1. n \in Nat /\ DOMAIN s = 1..n /\ <<>> \in V /\ \A k \in 1..n : s[k] \in Bounded
  OBVIOUS
<1>2. FoldLeft(Merge, <<>>, s) = it[1..n]
  BY <1>1 DEF FoldLeft, MapThenFoldSet
<1> HIDE DEF n
<1>3. step \in [V \X (1..n) -> V]
  <2>1. \A p \in V \X (1..n) : Merge(p[1], s[p[2]]) \in V
    BY <1>1
  <2> QED
    BY <2>1
<1>4. \A v \in V, k \in 1..n : step[<<v, k>>] = Merge(v, s[k])
  OBVIOUS
<1> HIDE DEF step, V
<1>5. PICK g : IsTable(g, n, V, <<>>, step)
  BY <1>1, <1>3, FoldTable
<1>6. g = [u \in SUBSET (1..n) |-> Value(g, u)]
  <2>1. ASSUME NEW u \in SUBSET (1..n), u # {}
        PROVE  g[u] = Merge(g[u \ {Max(u)}], s[Max(u)])
    <3>1. Max(u) \in 1..n /\ u \ {Max(u)} \in SUBSET (1..n)
      BY <1>1, <2>1, MaxIsIn
    <3>2. g[u] = step[<<g[u \ {Max(u)}], Max(u)>>] /\ g[u \ {Max(u)}] \in V
      BY <1>5, <2>1, <3>1 DEF IsTable
    <3> QED
      BY <1>4, <3>1, <3>2
  <2>2. g \in [SUBSET (1..n) -> V] /\ g[{}] = <<>>
    BY <1>5 DEF IsTable
  <2> QED
    BY <2>1, <2>2
<1>7. it = [u \in SUBSET (1..n) |-> Value(it, u)]
  <2> HIDE DEF Value
  <2> QED
    BY <1>6
<1> HIDE DEF it
<1>8. it[{}] = <<>>
  BY <1>7
<1>9. \A u \in SUBSET (1..n) : u # {} /\ it[u \ {Max(u)}] \in V
        => it[u] = step[<<it[u \ {Max(u)}], Max(u)>>]
  <2>1. \A u \in SUBSET (1..n) : u # {} => Max(u) \in 1..n
    BY <1>1, MaxIsIn
  <2> QED
    BY <1>4, <1>7, <2>1
<1>10. PICK t : IsTrace(t, n, V, <<>>, step) /\ t[n] = it[1..n]
  <2>1. IsFold(it, n, V, <<>>, step)
    BY <1>8, <1>9 DEF IsFold
  <2>2. n \in Nat /\ <<>> \in V /\ step \in [V \X (1..n) -> V]
    BY <1>1, <1>3
  <2>3. Traced(it[1..n], n, V, <<>>, step)
    BY ONLY <2>1, <2>2, FoldIsTrace
  <2> QED
    BY <2>3 DEF Traced
<1>11. t \in [0..n -> V] /\ t[0] = <<>> /\ \A k \in 1..n : t[k] = Merge(t[k - 1], s[k])
  <2>1. \A k \in 1..n : k - 1 \in 0..n
    BY <1>1
  <2> QED
    BY <1>4, <1>10, <2>1 DEF IsTrace
<1> QED
  BY <1>2, <1>10, <1>11 DEF n, V

(* One iteration stays inside the lists of intervals.                         *)
LEMMA MergeType ==
  ASSUME NEW m \in Seq(Bounded), NEW i \in Bounded
  PROVE  Merge(m, i) \in Seq(Bounded)
<1>1. CASE ~(m # <<>> /\ Adjoins(Last(m), i))
  BY <1>1 DEF Merge
<1>2. CASE m # <<>> /\ Adjoins(Last(m), i)
  <2>1. Len(m) \in 1..Len(m) /\ m[Len(m)] \in Bounded
    BY <1>2
  <2>2. CASE i.End > m[Len(m)].End
    <3> DEFINE wide == [m[Len(m)] EXCEPT !.End = i.End]
    <3>1. Merge(m, i) = [m EXCEPT ![Len(m)] = wide]
      BY <1>2, <2>2 DEF Merge, Last
    <3>2. i.End \in Int /\ m[Len(m)].End \in Int /\ m[Len(m)].Start \in Int
          /\ m[Len(m)].Start <= m[Len(m)].End
      BY <2>1, BoundedEnds
    <3>3. wide \in Bounded
      BY <2>1, <2>2, <3>2 DEF Bounded
    <3> HIDE DEF wide
    <3> QED
      BY <2>1, <3>1, <3>3
  <2>3. CASE ~(i.End > m[Len(m)].End)
    BY <1>2, <2>3 DEF Merge, Last
  <2> QED
    BY <2>2, <2>3
<1> QED
  BY <1>1, <1>2

(* normalizeIntervals keeps the numbers, whatever the order, overlaps and     *)
(* duplicates, and makes a sorted list with gaps of it.                       *)
THEOREM NormalizeIsCanonical ==
  ASSUME NEW s \in Seq(Bounded)
  PROVE  Normal(Normalize(s)) /\ Named(Normalize(s)) = Named(s)
<1> DEFINE r == Sorted(s)
           n == Len(r)
<1>1. r \in Seq(Bounded) /\ Ascending(r) /\ Named(r) = Named(s)
  BY SortedIs
<1> HIDE DEF r
<1>2. n \in Nat
  BY <1>1
<1>3. \A k \in 1..n : r[k] \in Bounded
  BY <1>1
<1>4. PICK t \in [0..n -> Seq(Bounded)] :
        /\ t[0] = <<>> /\ t[n] = FoldLeft(Merge, <<>>, r)
        /\ \A k \in 1..n : t[k] = Merge(t[k - 1], r[k])
  BY <1>1, MergeTrace, MergeType
<1>5. \A j, k \in 1..n : j <= k => r[j].Start <= r[k].Start
  BY <1>1 DEF Ascending
<1>6. /\ NamedTo(r, 0) = {} /\ NamedTo(r, n) = Named(r)
      /\ \A k \in 1..n : NamedTo(r, k) = NamedTo(r, k - 1) \cup Ids(r[k])
  BY <1>1, NamedToIs
<1> HIDE DEF n
<1> DEFINE Led(m, k) == m # <<>> => k >= 1 /\ m[Len(m)].Start <= r[k].Start
           Good == {k \in Nat : k <= n => /\ Normal(t[k])
                                          /\ Led(t[k], k)
                                          /\ Named(t[k]) = NamedTo(r, k)}
<1>7. 0 \in Good
  <2>1. Normal(<<>>) /\ Named(<<>>) = {}
    BY DEF Normal, Ascending, Gapped, Named
  <2> QED
    BY <1>4, <1>6, <2>1
<1>8. ASSUME NEW k \in Nat, k \in Good
      PROVE  k + 1 \in Good
  <2>1. SUFFICES ASSUME k + 1 <= n
                 PROVE  /\ Normal(t[k + 1]) /\ Led(t[k + 1], k + 1)
                        /\ Named(t[k + 1]) = NamedTo(r, k + 1)
    OBVIOUS
  <2>2. k + 1 \in 1..n /\ (k + 1) - 1 = k /\ k \in 0..n /\ k + 1 >= 1
    BY <1>2, <2>1
  <2>3. /\ t[k + 1] = Merge(t[k], r[k + 1])
        /\ t[k] \in Seq(Bounded) /\ r[k + 1] \in Bounded
    BY <1>3, <1>4, <2>2
  <2>4. Normal(t[k]) /\ Led(t[k], k) /\ Named(t[k]) = NamedTo(r, k)
    BY <1>2, <1>8, <2>1
  <2>5. t[k] # <<>> => t[k][Len(t[k])].Start <= r[k + 1].Start
    <3>1. SUFFICES ASSUME t[k] # <<>>
                   PROVE  t[k][Len(t[k])].Start <= r[k + 1].Start
      OBVIOUS
    <3>2. k \in 1..n /\ k <= k + 1
      BY <2>2, <2>4, <3>1
    <3>3. t[k][Len(t[k])].Start <= r[k].Start /\ r[k].Start <= r[k + 1].Start
      BY <1>5, <2>2, <2>4, <3>1, <3>2
    <3>4. /\ t[k][Len(t[k])].Start \in Int /\ r[k].Start \in Int /\ r[k + 1].Start \in Int
      <4>1. t[k][Len(t[k])] \in Bounded
        BY <2>3, <3>1
      <4> QED
        BY <1>3, <2>2, <3>2, <4>1, BoundedEnds
    <3> QED
      BY <3>3, <3>4
  <2>6. NamedTo(r, k + 1) = NamedTo(r, k) \cup Ids(r[k + 1])
    BY <1>6, <2>2
  <2> HIDE DEF Good
  <2> QED
    BY <2>2, <2>3, <2>4, <2>5, <2>6, MergeIsUnion
<1>9. n \in Good
  <2> HIDE DEF Good
  <2> QED
    BY <1>2, <1>7, <1>8, Induction
<1> QED
  BY <1>1, <1>2, <1>4, <1>6, <1>9 DEF Normalize, r

-----------------------------------------------------------------------------
(* containsIntervals. *)

(* The loop of containsIntervals: the cursor after each wanted interval.      *)
LEMMA ReachTrace ==
  ASSUME NEW have, NEW s \in Seq(Bounded),
         \A at \in Nat, i \in Bounded : Reach(have, at, i) \in Nat
  PROVE  \E t \in [0..Len(s) -> Nat] :
           /\ t[0] = 1 /\ t[Len(s)] = FoldLeft(LAMBDA at, target : Reach(have, at, target), 1, s)
           /\ \A k \in 1..Len(s) : t[k] = Reach(have, t[k - 1], s[k])
<1> DEFINE n == Len(s)
           V == Nat
           step == [p \in V \X (1..n) |-> Reach(have, p[1], s[p[2]])]
           Value(h, u) == IF u = {} THEN 1 ELSE Reach(have, h[u \ {Max(u)}], s[Max(u)])
           it == CHOOSE h : h = [u \in SUBSET (1..n) |-> Value(h, u)]
<1>1. n \in Nat /\ DOMAIN s = 1..n /\ 1 \in V /\ \A k \in 1..n : s[k] \in Bounded
  OBVIOUS
<1>2. FoldLeft(LAMBDA at, target : Reach(have, at, target), 1, s) = it[1..n]
  BY <1>1 DEF FoldLeft, MapThenFoldSet
<1> HIDE DEF n
<1>3. step \in [V \X (1..n) -> V]
  <2>1. \A p \in V \X (1..n) : Reach(have, p[1], s[p[2]]) \in V
    BY <1>1
  <2> QED
    BY <2>1
<1>4. \A v \in V, k \in 1..n : step[<<v, k>>] = Reach(have, v, s[k])
  OBVIOUS
<1> HIDE DEF step, V
<1>5. PICK g : IsTable(g, n, V, 1, step)
  BY <1>1, <1>3, FoldTable
<1>6. g = [u \in SUBSET (1..n) |-> Value(g, u)]
  <2>1. ASSUME NEW u \in SUBSET (1..n), u # {}
        PROVE  g[u] = Reach(have, g[u \ {Max(u)}], s[Max(u)])
    <3>1. Max(u) \in 1..n /\ u \ {Max(u)} \in SUBSET (1..n)
      BY <1>1, <2>1, MaxIsIn
    <3>2. g[u] = step[<<g[u \ {Max(u)}], Max(u)>>] /\ g[u \ {Max(u)}] \in V
      BY <1>5, <2>1, <3>1 DEF IsTable
    <3> QED
      BY <1>4, <3>1, <3>2
  <2>2. g \in [SUBSET (1..n) -> V] /\ g[{}] = 1
    BY <1>5 DEF IsTable
  <2> QED
    BY <2>1, <2>2
<1>7. it = [u \in SUBSET (1..n) |-> Value(it, u)]
  <2> HIDE DEF Value
  <2> QED
    BY <1>6
<1> HIDE DEF it
<1>8. it[{}] = 1
  BY <1>7
<1>9. \A u \in SUBSET (1..n) : u # {} /\ it[u \ {Max(u)}] \in V
        => it[u] = step[<<it[u \ {Max(u)}], Max(u)>>]
  <2>1. \A u \in SUBSET (1..n) : u # {} => Max(u) \in 1..n
    BY <1>1, MaxIsIn
  <2> QED
    BY <1>4, <1>7, <2>1
<1>10. PICK t : IsTrace(t, n, V, 1, step) /\ t[n] = it[1..n]
  <2>1. IsFold(it, n, V, 1, step)
    BY <1>8, <1>9 DEF IsFold
  <2>2. n \in Nat /\ 1 \in V /\ step \in [V \X (1..n) -> V]
    BY <1>1, <1>3
  <2>3. Traced(it[1..n], n, V, 1, step)
    BY ONLY <2>1, <2>2, FoldIsTrace
  <2> QED
    BY <2>3 DEF Traced
<1>11. t \in [0..n -> V] /\ t[0] = 1 /\ \A k \in 1..n : t[k] = Reach(have, t[k - 1], s[k])
  <2>1. \A k \in 1..n : k - 1 \in 0..n
    BY <1>1
  <2> QED
    BY <1>4, <1>10, <2>1 DEF IsTrace
<1> QED
  BY <1>2, <1>10, <1>11 DEF n, V

(* The first interval from the cursor on that ends at the target or behind.   *)
LEMMA ReachCases ==
  ASSUME NEW have \in Seq(Bounded), NEW at \in Nat, NEW target \in Bounded
  PROVE  /\ Reach(have, at, target) \in Nat
         /\ at = 0 => Reach(have, at, target) = 0
         /\ at > 0 =>
              \/ /\ \A k \in at..Len(have) : have[k].End < target.Start
                 /\ Reach(have, at, target) = 0
              \/ \E i \in at..Len(have) :
                   /\ have[i].End >= target.Start
                   /\ \A k \in at..Len(have) : k < i => have[k].End < target.Start
                   /\ Reach(have, at, target) =
                        IF have[i].Start <= target.Start /\ target.End <= have[i].End
                        THEN i ELSE 0
<1> DEFINE I == {k \in at..Len(have) : have[k].End >= target.Start}
           i == SelectInSubSeq(have, at, Len(have), LAMBDA h : h.End >= target.Start)
<1>1. i = IF I # {} THEN Min(I) ELSE 0
  BY DEF SelectInSubSeq
<1>2. Reach(have, at, target) =
        IF at > 0 /\ i > 0 /\ have[i].Start <= target.Start /\ target.End <= have[i].End
        THEN i ELSE 0
  BY DEF Reach
<1>3. Len(have) \in Nat /\ I \in SUBSET Nat
  OBVIOUS
<1>4. CASE at = 0
  <2>1. Reach(have, at, target) = 0
    BY <1>2, <1>4
  <2> QED
    BY <1>4, <2>1
<1>5. CASE at > 0 /\ I = {}
  <2>1. i = 0
    BY <1>1, <1>5
  <2> HIDE DEF i
  <2>2. Reach(have, at, target) = 0
    BY <1>2, <2>1
  <2>3. \A k \in at..Len(have) : have[k].End < target.Start
    <3>1. ASSUME NEW k \in at..Len(have)
          PROVE  have[k].End < target.Start
      <4>1. k \in 1..Len(have)
        BY <1>3, <1>5
      <4>2. ~(have[k].End >= target.Start)
        BY <1>5
      <4> QED
        BY <4>1, <4>2, BoundedEnds
    <3> QED
      BY <3>1
  <2> QED
    BY <1>5, <2>2, <2>3
<1>6. CASE at > 0 /\ I # {}
  <2>1. i \in I /\ \A y \in I : i <= y
    <3> HIDE DEF I, i
    <3> QED
      BY <1>1, <1>3, <1>6, MinIsIn
  <2> HIDE DEF i
  <2>2. i \in at..Len(have) /\ have[i].End >= target.Start /\ i > 0 /\ i \in Nat
    BY <1>3, <1>6, <2>1
  <2>3. ASSUME NEW k \in at..Len(have), k < i
        PROVE  have[k].End < target.Start
    <3>1. k \in 1..Len(have)
      BY <1>3, <1>6
    <3>2. k \notin I
      BY <1>3, <2>1, <2>2, <2>3
    <3>3. ~(have[k].End >= target.Start)
      BY <3>2
    <3> QED
      BY <3>1, <3>3, BoundedEnds
  <2>4. Reach(have, at, target) =
          IF have[i].Start <= target.Start /\ target.End <= have[i].End THEN i ELSE 0
    BY <1>2, <1>6, <2>2
  <2>5. Reach(have, at, target) \in Nat
    BY <2>2, <2>4
  <2> QED
    BY <1>6, <2>2, <2>3, <2>4, <2>5
<1>7. at = 0 \/ at > 0
  OBVIOUS
<1> QED
  BY <1>4, <1>5, <1>6, <1>7

(* The cursor over a sorted list with gaps finds a wanted interval exactly if *)
(* the list has all its numbers, provided nothing it has passed reaches the   *)
(* interval.                                                                  *)
THEOREM ReachIsInclusion ==
  ASSUME NEW have \in Seq(Bounded), Normal(have), NEW at \in Nat, at > 0,
         NEW target \in Bounded,
         \A j \in 1..Len(have) : j < at => have[j].End < target.Start
  PROVE  /\ Reach(have, at, target) > 0 <=> Ids(target) \subseteq Named(have)
         /\ \A j \in 1..Len(have) :
              j < Reach(have, at, target) => have[j].End < target.Start
<1> DEFINE n == Len(have)
           r == Reach(have, at, target)
<1>1. n \in Nat /\ DOMAIN have = 1..n
  OBVIOUS
<1>2. \A k \in 1..n : /\ have[k] \in Bounded
                      /\ have[k].Start \in Int /\ have[k].End \in Int
                      /\ have[k].Start <= have[k].End
  BY <1>1, BoundedEnds
<1>3. \A j, k \in 1..n : j <= k => have[j].Start <= have[k].Start
  BY DEF Normal, Ascending
<1>4. /\ target.Start \in Int /\ target.End \in Int /\ target.Start <= target.End
      /\ target.Start \in Numbers /\ target.End \in Numbers
  BY BoundedEnds DEF Bounded
<1>5. target.Start \in Ids(target) /\ target.End \in Ids(target)
  BY <1>4 DEF Ids
<1>6. \A x : x \in Named(have) <=> \E k \in 1..n : x \in Ids(have[k])
  BY <1>1 DEF Named
<1>7. CASE /\ \A k \in at..n : have[k].End < target.Start
           /\ r = 0
  <2>1. \A k \in 1..n : have[k].End < target.Start
    <3>1. \A k \in 1..n : k < at \/ k \in at..n
      BY <1>1
    <3> QED
      BY <1>7, <3>1
  <2>2. \A k \in 1..n : target.Start \notin Ids(have[k])
    BY <1>2, <1>4, <2>1 DEF Ids
  <2>3. ~(r > 0) /\ \A j \in 1..n : ~(j < r)
    BY <1>1, <1>7
  <2> QED
    BY <1>5, <1>6, <2>2, <2>3
<1>8. CASE \E i \in at..n :
             /\ have[i].End >= target.Start
             /\ \A k \in at..n : k < i => have[k].End < target.Start
             /\ r = IF have[i].Start <= target.Start /\ target.End <= have[i].End
                    THEN i ELSE 0
  <2>1. PICK i \in at..n :
          /\ have[i].End >= target.Start
          /\ \A k \in at..n : k < i => have[k].End < target.Start
          /\ r = IF have[i].Start <= target.Start /\ target.End <= have[i].End
                 THEN i ELSE 0
    BY <1>8
  <2>2. i \in 1..n /\ i \in Nat /\ i > 0
    BY <1>1
  <2>3. \A k \in 1..n : k < i => have[k].End < target.Start
    <3>1. \A k \in 1..n : k < at \/ k \in at..n
      BY <1>1
    <3> QED
      BY <2>1, <3>1
  <2> HIDE DEF r
  <2>4. CASE have[i].Start <= target.Start /\ target.End <= have[i].End
    <3>1. r = i
      BY <2>1, <2>4
    <3>2. Ids(target) \subseteq Ids(have[i])
      BY <1>2, <1>4, <2>2, <2>4 DEF Ids, Numbers
    <3> QED
      BY <1>6, <2>2, <2>3, <3>1, <3>2 DEF r
  <2>5. CASE have[i].Start > target.Start
    <3>1. r = 0
      BY <1>2, <1>4, <2>1, <2>2, <2>5
    <3>2. ASSUME NEW k \in 1..n
          PROVE  target.Start \notin Ids(have[k])
      <4>1. CASE k < i
        BY <1>2, <1>4, <2>3, <4>1 DEF Ids
      <4>2. CASE ~(k < i)
        <5>1. have[i].Start <= have[k].Start
          BY <1>3, <2>2, <4>2
        <5> QED
          BY <1>2, <1>4, <2>2, <2>5, <5>1 DEF Ids
      <4> QED
        BY <4>1, <4>2
    <3>3. ~(r > 0) /\ \A j \in 1..n : ~(j < r)
      BY <1>1, <3>1
    <3> QED
      BY <1>5, <1>6, <3>2, <3>3 DEF r
  <2>6. CASE have[i].Start <= target.Start /\ target.End > have[i].End
    <3>1. r = 0
      BY <1>2, <1>4, <2>1, <2>2, <2>6
    <3> DEFINE next == have[i].End + 1
    <3>2. next \in Ids(target)
      <4>1. /\ have[i].End \in Int /\ have[i].End + 1 <= target.End
            /\ target.Start <= have[i].End + 1
        BY <1>2, <1>4, <2>1, <2>2, <2>6
      <4>2. have[i].End \in Numbers
        BY <1>2, <2>2 DEF Bounded
      <4>3. have[i].End + 1 \in Numbers
        BY <1>4, <4>1, <4>2, GtidSetsAssumption DEF Numbers
      <4> QED
        BY <4>1, <4>3 DEF Ids
    <3>3. ASSUME NEW k \in 1..n
          PROVE  next \notin Ids(have[k])
      <4>1. CASE k < i
        <5>1. have[k].End < next
          BY <1>2, <1>4, <2>1, <2>2, <2>3, <4>1
        <5> QED
          BY <1>2, <2>2, <5>1 DEF Ids
      <4>2. CASE k = i
        BY <1>2, <2>2, <4>2 DEF Ids
      <4>3. CASE k > i
        <5>1. i \in 1..(n - 1) /\ i + 1 \in 1..n /\ i + 1 <= k
          BY <1>1, <2>2, <4>3
        <5>2. next < have[i + 1].Start \/ \E j \in 1..i : have[j].End = Largest
          BY <5>1 DEF Normal, Gapped
        <5>3. ASSUME NEW j \in 1..i
              PROVE  have[j].End # Largest
          <6>1. j \in 1..n /\ (j < i \/ j = i)
            BY <1>1, <2>2
          <6>2. target.End <= Largest /\ Largest \in Int
            BY <1>4, GtidSetsAssumption DEF Numbers, Largest
          <6> QED
            BY <1>2, <1>4, <2>2, <2>3, <2>6, <6>1, <6>2
        <5>4. next < have[i + 1].Start /\ have[i + 1].Start <= have[k].Start
          BY <1>3, <5>1, <5>2, <5>3
        <5> QED
          BY <1>2, <2>2, <5>1, <5>4 DEF Ids
      <4> QED
        BY <2>2, <4>1, <4>2, <4>3
    <3>4. ~(r > 0) /\ \A j \in 1..n : ~(j < r)
      BY <1>1, <3>1
    <3> QED
      BY <1>6, <3>2, <3>3, <3>4 DEF r
  <2> QED
    BY <1>2, <1>4, <2>2, <2>4, <2>5, <2>6
<1> QED
  BY <1>7, <1>8, ReachCases

(* containsIntervals is inclusion, for a sorted list with gaps and wanted     *)
(* intervals in the order of their starts.                                    *)
THEOREM ContainsIntervalsIsInclusion ==
  ASSUME NEW have \in Seq(Bounded), Normal(have), NEW want \in Seq(Bounded), Ascending(want)
  PROVE  ContainsIntervals(have, want) <=> Named(want) \subseteq Named(have)
<1> DEFINE n == Len(want)
<1>1. n \in Nat
  OBVIOUS
<1>2. \A k \in 1..n : want[k] \in Bounded
  OBVIOUS
<1>3. PICK t \in [0..n -> Nat] :
        /\ t[0] = 1 /\ t[n] = FoldLeft(LAMBDA at, target : Reach(have, at, target), 1, want)
        /\ \A k \in 1..n : t[k] = Reach(have, t[k - 1], want[k])
  <2>1. \A at \in Nat, i \in Bounded : Reach(have, at, i) \in Nat
    BY ReachCases
  <2> QED
    BY <2>1, ReachTrace
<1>4. \A j, k \in 1..n : j <= k => want[j].Start <= want[k].Start
  BY DEF Ascending
<1>5. /\ NamedTo(want, 0) = {} /\ NamedTo(want, n) = Named(want)
      /\ \A k \in 1..n : NamedTo(want, k) = NamedTo(want, k - 1) \cup Ids(want[k])
  BY NamedToIs
<1>6. \A k \in 1..Len(have) : have[k].End \in Int
  BY BoundedEnds
<1>7. \A k \in 1..n : want[k].Start \in Int
  BY <1>2, BoundedEnds
<1> HIDE DEF n
<1> DEFINE Passed(at, k) == at > 0 => \A j \in 1..Len(have) :
             j < at => k >= 1 /\ have[j].End < want[k].Start
           Good == {k \in Nat : k <= n =>
                      /\ t[k] > 0 <=> NamedTo(want, k) \subseteq Named(have)
                      /\ Passed(t[k], k)}
<1>8. 0 \in Good
  <2>1. t[0] = 1
    BY <1>3, Zenon
  <2>2. t[0] > 0 /\ NamedTo(want, 0) \subseteq Named(have)
    BY <1>5, <2>1
  <2>3. \A j \in 1..Len(have) : ~(j < t[0])
    BY <2>1
  <2> QED
    BY <2>2, <2>3
<1>9. ASSUME NEW k \in Nat, k \in Good
      PROVE  k + 1 \in Good
  <2>1. SUFFICES ASSUME k + 1 <= n
                 PROVE  /\ t[k + 1] > 0 <=> NamedTo(want, k + 1) \subseteq Named(have)
                        /\ Passed(t[k + 1], k + 1)
    OBVIOUS
  <2>2. k + 1 \in 1..n /\ (k + 1) - 1 = k /\ k \in 0..n /\ k + 1 >= 1
    BY <1>1, <2>1
  <2>3. /\ t[k + 1] = Reach(have, t[k], want[k + 1])
        /\ t[k] \in Nat /\ want[k + 1] \in Bounded
    BY <1>2, <1>3, <2>2
  <2>4. (t[k] > 0 <=> NamedTo(want, k) \subseteq Named(have)) /\ Passed(t[k], k)
    BY <1>1, <1>9, <2>1
  <2>5. NamedTo(want, k + 1) = NamedTo(want, k) \cup Ids(want[k + 1])
    BY <1>5, <2>2
  <2>6. CASE t[k] > 0
    <3>1. ASSUME NEW j \in 1..Len(have), j < t[k]
          PROVE  have[j].End < want[k + 1].Start
      <4>1. k >= 1 /\ have[j].End < want[k].Start
        BY <2>4, <2>6, <3>1
      <4>2. k \in 1..n /\ k <= k + 1
        BY <2>2, <4>1
      <4>3. want[k].Start <= want[k + 1].Start
        BY <1>4, <2>2, <4>2
      <4> QED
        BY <1>6, <1>7, <2>2, <4>1, <4>2, <4>3
    <3>2. /\ t[k + 1] > 0 <=> Ids(want[k + 1]) \subseteq Named(have)
          /\ \A j \in 1..Len(have) : j < t[k + 1] => have[j].End < want[k + 1].Start
      BY <2>3, <2>6, <3>1, ReachIsInclusion
    <3> QED
      BY <2>2, <2>4, <2>5, <2>6, <3>2
  <2>7. CASE t[k] = 0
    <3>1. t[k + 1] = 0
      BY <2>3, <2>7, ReachCases
    <3> QED
      BY <2>4, <2>5, <2>7, <3>1
  <2> QED
    BY <2>3, <2>6, <2>7
<1>10. n \in Good
  <2> HIDE DEF Good
  <2> QED
    BY <1>1, <1>8, <1>9, Induction
<1>11. t[n] > 0 <=> Named(want) \subseteq Named(have)
  BY <1>1, <1>5, <1>10
<1>12. want = <<>> => Named(want) = {}
  BY DEF Named
<1> QED
  BY <1>3, <1>11, <1>12 DEF ContainsIntervals

-----------------------------------------------------------------------------
(* subtractIntervalSet and Subtract. *)

(* A concatenation has the numbers of both lists.                             *)
LEMMA NamedConcat ==
  ASSUME NEW s \in Seq(Bounded), NEW r \in Seq(Bounded)
  PROVE  s \o r \in Seq(Bounded) /\ Named(s \o r) = Named(s) \cup Named(r)
<1> DEFINE w == s \o r
           m == Len(s)
           n == Len(r)
<1>1. m \in Nat /\ n \in Nat
  OBVIOUS
<1>2. /\ w \in Seq(Bounded) /\ Len(w) = m + n
      /\ \A k \in 1..(m + n) : w[k] = IF k <= m THEN s[k] ELSE r[k - m]
  BY ConcatProperties
<1>3. DOMAIN s = 1..m /\ DOMAIN r = 1..n
  OBVIOUS
<1> HIDE DEF w, m, n
<1>4. DOMAIN w = 1..(m + n)
  BY <1>2
<1>5. ASSUME NEW k \in 1..(m + n)
      PROVE  (\E j \in 1..m : w[k] = s[j]) \/ \E j \in 1..n : w[k] = r[j]
  <2>1. CASE k <= m
    <3>1. k \in 1..m
      BY <1>1, <2>1
    <3> QED
      BY <1>2, <2>1, <3>1
  <2>2. CASE ~(k <= m)
    <3>1. k - m \in 1..n
      BY <1>1, <2>2
    <3> QED
      BY <1>2, <2>2, <3>1
  <2> QED
    BY <2>1, <2>2
<1>6. ASSUME NEW j \in 1..m
      PROVE  j \in 1..(m + n) /\ w[j] = s[j]
  <2>1. j \in 1..(m + n) /\ j <= m
    BY <1>1
  <2> QED
    BY <1>2, <2>1
<1>7. ASSUME NEW j \in 1..n
      PROVE  j + m \in 1..(m + n) /\ w[j + m] = r[j]
  <2>1. j + m \in 1..(m + n) /\ ~(j + m <= m) /\ (j + m) - m = j
    BY <1>1
  <2> QED
    BY <1>2, <2>1
<1>8. Named(w) = Named(s) \cup Named(r)
  BY <1>3, <1>4, <1>5, <1>6, <1>7 DEF Named
<1> QED
  BY <1>2, <1>8 DEF w

(* FlattenSeq of the community modules concatenates: the numbers are those of *)
(* all the lists.                                                             *)
LEMMA NamedFlatten ==
  ASSUME NEW n \in Nat, NEW ss \in [1..n -> Seq(Bounded)]
  PROVE  /\ FlattenSeq(ss) \in Seq(Bounded)
         /\ Named(FlattenSeq(ss)) = UNION {Named(ss[k]) : k \in 1..n}
<1>1. Len(ss) = n
  BY LenProperties
<1>2. CASE n = 0
  <2>1. FlattenSeq(ss) = ss
    BY <1>1, <1>2 DEF FlattenSeq
  <2>2. ss = <<>> /\ 1..n = {}
    BY <1>2
  <2>3. Named(ss) = {}
    BY <2>2 DEF Named
  <2> QED
    BY <2>1, <2>2, <2>3
<1>3. CASE n # 0
  <2> DEFINE V == Seq(Bounded)
             step == [p \in V \X (1..n) |-> p[1] \o ss[p[2]]]
             Value(h, k) == IF k = 1 THEN ss[k] ELSE h[k - 1] \o ss[k]
             flatten == CHOOSE h : h = [k \in 1..n |-> Value(h, k)]
  <2>1. FlattenSeq(ss) = flatten[n]
    BY <1>1, <1>3 DEF FlattenSeq
  <2>2. step \in [V \X (1..n) -> V]
    <3>1. \A p \in V \X (1..n) : p[1] \o ss[p[2]] \in V
      OBVIOUS
    <3> QED
      BY <3>1
  <2>3. \A v \in V, k \in 1..n : step[<<v, k>>] = v \o ss[k]
    OBVIOUS
  <2>4. <<>> \in V /\ \A k \in 1..n : ss[k] \in V /\ <<>> \o ss[k] = ss[k]
    BY ConcatEmptySeq
  <2> HIDE DEF step, V
  <2>5. PICK g : IsTable(g, n, V, <<>>, step)
    BY <2>2, <2>4, FoldTable
  <2>6. IsFold(g, n, V, <<>>, step)
    BY <2>5 DEF IsTable, IsFold
  <2>7. PICK t : IsTrace(t, n, V, <<>>, step)
    <3>1. Traced(g[1..n], n, V, <<>>, step)
      BY ONLY n \in Nat, <2>2, <2>4, <2>6, FoldIsTrace
    <3> QED
      BY <3>1 DEF Traced
  <2>8. t \in [0..n -> V] /\ t[0] = <<>> /\ \A k \in 1..n : t[k] = t[k - 1] \o ss[k]
    <3>1. \A k \in 1..n : k - 1 \in 0..n
      OBVIOUS
    <3> QED
      BY <2>3, <2>7, <3>1 DEF IsTrace
  <2> DEFINE h == [k \in 1..n |-> t[k]]
  <2>9. h = [k \in 1..n |-> Value(h, k)]
    <3>1. ASSUME NEW k \in 1..n
          PROVE  h[k] = Value(h, k)
      <4>1. CASE k = 1
        <5>1. t[1] = t[0] \o ss[1]
          <6>1. 1 \in 1..n /\ 1 - 1 = 0
            BY <4>1
          <6>2. t[1] = t[1 - 1] \o ss[1]
            BY <2>8, <6>1
          <6> QED
            BY <6>1, <6>2
        <5> QED
          BY <2>4, <2>8, <4>1, <5>1
      <4>2. CASE k # 1
        <5>1. k - 1 \in 1..n
          BY <4>2
        <5>2. h[k] = t[k] /\ h[k - 1] = t[k - 1]
          BY <5>1
        <5> QED
          BY <2>8, <4>2, <5>2
      <4> QED
        BY <4>1, <4>2
    <3> QED
      BY <3>1
  <2> HIDE DEF h
  <2>10. flatten = [k \in 1..n |-> Value(flatten, k)]
    <3> HIDE DEF Value
    <3> QED
      BY <2>9
  <2> HIDE DEF flatten
  <2> DEFINE Good == {k \in Nat : k \in 1..n =>
                        /\ flatten[k] \in Seq(Bounded)
                        /\ Named(flatten[k]) = UNION {Named(ss[j]) : j \in 1..k}}
  <2>11. 0 \in Good
    OBVIOUS
  <2>12. ASSUME NEW k \in Nat, k \in Good
         PROVE  k + 1 \in Good
    <3>1. SUFFICES ASSUME k + 1 \in 1..n
                   PROVE  /\ flatten[k + 1] \in Seq(Bounded)
                          /\ Named(flatten[k + 1]) = UNION {Named(ss[j]) : j \in 1..(k + 1)}
      OBVIOUS
    <3>2. flatten[k + 1] = Value(flatten, k + 1)
      BY <2>10, <3>1
    <3>3. 1..(k + 1) = (1..k) \cup {k + 1}
      OBVIOUS
    <3>4. CASE k = 0
      <4>1. flatten[k + 1] = ss[k + 1] /\ 1..k = {}
        BY <3>2, <3>4
      <4> QED
        BY <3>1, <3>3, <4>1
    <3>5. CASE k # 0
      <4>1. k \in 1..n /\ k + 1 # 1 /\ (k + 1) - 1 = k
        BY <3>1, <3>5
      <4>2. flatten[k + 1] = flatten[k] \o ss[k + 1]
        BY <3>2, <4>1
      <4>3. flatten[k] \in Seq(Bounded) /\ Named(flatten[k]) = UNION {Named(ss[j]) : j \in 1..k}
        BY <2>12, <4>1
      <4>4. ss[k + 1] \in Seq(Bounded)
        BY <3>1
      <4>5. /\ flatten[k + 1] \in Seq(Bounded)
            /\ Named(flatten[k + 1]) = Named(flatten[k]) \cup Named(ss[k + 1])
        BY <4>2, <4>3, <4>4, NamedConcat
      <4> QED
        BY <3>3, <4>3, <4>5
    <3> QED
      BY <3>4, <3>5
  <2>13. n \in Good
    <3> HIDE DEF Good
    <3> QED
      BY <2>11, <2>12, Induction
  <2>14. n \in 1..n
    BY <1>3
  <2> QED
    BY <2>1, <2>13, <2>14
<1> QED
  BY <1>2, <1>3

(* The five cases of subtractIntervalSet, each with what it leaves.           *)
LEMMA CutCases ==
  ASSUME NEW i \in Bounded, NEW r \in Bounded
  PROVE  \/ (r.End < i.Start \/ r.Start > i.End) /\ Cut(i, r) = <<i>>
         \/ r.Start <= i.Start /\ r.End >= i.End /\ Cut(i, r) = <<>>
         \/ /\ r.Start > i.Start /\ r.End < i.End
            /\ Cut(i, r) = <<Interval(i.Start, r.Start - 1), Interval(r.End + 1, i.End)>>
         \/ /\ r.Start <= i.Start /\ r.End >= i.Start /\ r.End < i.End
            /\ Cut(i, r) = <<Interval(r.End + 1, i.End)>>
         \/ /\ r.Start > i.Start /\ r.Start <= i.End /\ r.End >= i.End
            /\ Cut(i, r) = <<Interval(i.Start, r.Start - 1)>>
<1>1. /\ i.Start \in Int /\ i.End \in Int /\ i.Start <= i.End
      /\ r.Start \in Int /\ r.End \in Int /\ r.Start <= r.End
  BY BoundedEnds
<1>2. CASE r.End < i.Start \/ r.Start > i.End
  BY <1>2 DEF Cut
<1>3. CASE ~(r.End < i.Start \/ r.Start > i.End)
  <2>1. CASE r.Start <= i.Start /\ r.End >= i.End
    BY <1>3, <2>1 DEF Cut
  <2>2. CASE r.Start > i.Start /\ r.End < i.End
    BY <1>1, <1>3, <2>2 DEF Cut
  <2>3. CASE r.Start <= i.Start /\ r.End < i.End
    BY <1>1, <1>3, <2>3 DEF Cut
  <2>4. CASE r.Start > i.Start /\ r.End >= i.End
    BY <1>1, <1>3, <2>4 DEF Cut
  <2>5. QED
    BY <1>1, <2>1, <2>2, <2>3, <2>4
<1>4. QED
  BY <1>2, <1>3

(* Every piece that subtractIntervalSet leaves is a proper interval inside    *)
(* the one it came from: its End + 1 and Start - 1 never wrap.                *)
THEOREM CutStaysInside ==
  ASSUME NEW i \in Bounded, NEW r \in Bounded, NEW k \in DOMAIN Cut(i, r)
  PROVE  /\ i.Start <= Cut(i, r)[k].Start
         /\ Cut(i, r)[k].Start <= Cut(i, r)[k].End
         /\ Cut(i, r)[k].End <= i.End
<1>1. /\ i.Start \in Int /\ i.End \in Int /\ i.Start <= i.End
      /\ r.Start \in Int /\ r.End \in Int /\ r.Start <= r.End
  BY BoundedEnds
<1>2. QED
  BY <1>1, CutCases DEF Interval

(* What subtractIntervalSet leaves of an interval is exactly what the removed *)
(* one does not cover.                                                        *)
THEOREM CutIsDifference ==
  ASSUME NEW i \in Bounded, NEW r \in Bounded
  PROVE  Named(Cut(i, r)) = Ids(i) \ Ids(r)
<1>1. /\ i.Start \in Int /\ i.End \in Int /\ i.Start <= i.End
      /\ r.Start \in Int /\ r.End \in Int /\ r.Start <= r.End
  BY BoundedEnds
<1>2. SUFFICES ASSUME NEW n \in Int, n \in Numbers
      PROVE  (\E k \in DOMAIN Cut(i, r) : n \in Ids(Cut(i, r)[k]))
               <=> (n \in Ids(i) /\ n \notin Ids(r))
  BY DEF Named, Ids, Numbers
<1>3. QED
  BY <1>1, <1>2, CutCases DEF Interval, Ids

(* The pieces are bounded intervals again.                                    *)
LEMMA CutType ==
  ASSUME NEW i \in Bounded, NEW r \in Bounded
  PROVE  Cut(i, r) \in Seq(Bounded)
<1>1. /\ i.Start \in Int /\ i.End \in Int /\ i.Start <= i.End
      /\ r.Start \in Int /\ r.End \in Int /\ r.Start <= r.End
  BY BoundedEnds
<1>2. /\ i.Start \in Numbers /\ i.End \in Numbers /\ r.Start \in Numbers /\ r.End \in Numbers
  BY DEF Bounded
<1>3. r.Start > i.Start /\ r.Start <= i.End => Interval(i.Start, r.Start - 1) \in Bounded
  <2>1. SUFFICES ASSUME r.Start > i.Start, r.Start <= i.End
                 PROVE  Interval(i.Start, r.Start - 1) \in Bounded
    OBVIOUS
  <2>2. r.Start - 1 \in Numbers /\ i.Start <= r.Start - 1
    BY <1>1, <1>2, <2>1, GtidSetsAssumption DEF Numbers
  <2> QED
    BY <1>2, <2>2 DEF Interval, Bounded
<1>4. r.End >= i.Start /\ r.End < i.End => Interval(r.End + 1, i.End) \in Bounded
  <2>1. SUFFICES ASSUME r.End >= i.Start, r.End < i.End
                 PROVE  Interval(r.End + 1, i.End) \in Bounded
    OBVIOUS
  <2>2. r.End + 1 \in Numbers /\ r.End + 1 <= i.End
    BY <1>1, <1>2, <2>1, GtidSetsAssumption DEF Numbers
  <2> QED
    BY <1>2, <2>2 DEF Interval, Bounded
<1>5. /\ <<>> \in Seq(Bounded)
      /\ \A x, y \in Bounded : <<x>> \in Seq(Bounded) /\ <<x, y>> \in Seq(Bounded)
  OBVIOUS
<1>6. r.Start > i.Start /\ r.End < i.End => r.Start <= i.End /\ r.End >= i.Start
  BY <1>1
<1> DEFINE left == Interval(i.Start, r.Start - 1)
           right == Interval(r.End + 1, i.End)
<1>7. \/ Cut(i, r) = <<i>> \/ Cut(i, r) = <<>>
      \/ left \in Bounded /\ right \in Bounded /\ Cut(i, r) = <<left, right>>
      \/ right \in Bounded /\ Cut(i, r) = <<right>>
      \/ left \in Bounded /\ Cut(i, r) = <<left>>
  BY <1>3, <1>4, <1>6, CutCases
<1> HIDE DEF left, right
<1> QED
  BY <1>5, <1>7

(* One call of subtractIntervalSet removes exactly the numbers of r.          *)
THEOREM SubtractIntervalIsDifference ==
  ASSUME NEW s \in Seq(Bounded), NEW r \in Bounded
  PROVE  /\ SubtractInterval(s, r) \in Seq(Bounded)
         /\ Named(SubtractInterval(s, r)) = Named(s) \ Ids(r)
<1> DEFINE n == Len(s)
           ss == [k \in DOMAIN s |-> Cut(s[k], r)]
<1>1. n \in Nat /\ DOMAIN s = 1..n /\ \A k \in 1..n : s[k] \in Bounded
  OBVIOUS
<1> HIDE DEF n
<1>2. ss \in [1..n -> Seq(Bounded)] /\ \A k \in 1..n : ss[k] = Cut(s[k], r)
  BY <1>1, CutType
<1>3. SubtractInterval(s, r) = FlattenSeq(ss)
  BY DEF SubtractInterval
<1> HIDE DEF ss
<1>4. /\ FlattenSeq(ss) \in Seq(Bounded)
      /\ Named(FlattenSeq(ss)) = UNION {Named(ss[k]) : k \in 1..n}
  BY <1>1, <1>2, NamedFlatten
<1>5. \A k \in 1..n : Named(ss[k]) = Ids(s[k]) \ Ids(r)
  BY <1>1, <1>2, CutIsDifference
<1>6. Named(s) = UNION {Ids(s[k]) : k \in 1..n}
  BY <1>1 DEF Named
<1>7. UNION {Named(ss[k]) : k \in 1..n} = (UNION {Ids(s[k]) : k \in 1..n}) \ Ids(r)
  <2>1. ASSUME NEW x
        PROVE  (\E k \in 1..n : x \in Named(ss[k]))
                 <=> (\E k \in 1..n : x \in Ids(s[k])) /\ x \notin Ids(r)
    BY <1>5
  <2> QED
    BY <2>1
<1> QED
  BY <1>3, <1>4, <1>6, <1>7

(* The loop of Subtract as SubtractGTIDSets folds it.                         *)
LEMMA SubtractTrace ==
  ASSUME NEW from \in Seq(Bounded), NEW s \in Seq(Bounded),
         \A v \in Seq(Bounded), i \in Bounded : SubtractInterval(v, i) \in Seq(Bounded)
  PROVE  \E t \in [0..Len(s) -> Seq(Bounded)] :
           /\ t[0] = from /\ t[Len(s)] = FoldLeft(SubtractInterval, from, s)
           /\ \A k \in 1..Len(s) : t[k] = SubtractInterval(t[k - 1], s[k])
<1> DEFINE n == Len(s)
           V == Seq(Bounded)
           step == [p \in V \X (1..n) |-> SubtractInterval(p[1], s[p[2]])]
           Value(h, u) == IF u = {} THEN from ELSE SubtractInterval(h[u \ {Max(u)}], s[Max(u)])
           it == CHOOSE h : h = [u \in SUBSET (1..n) |-> Value(h, u)]
<1>1. n \in Nat /\ DOMAIN s = 1..n /\ from \in V /\ \A k \in 1..n : s[k] \in Bounded
  OBVIOUS
<1>2. FoldLeft(SubtractInterval, from, s) = it[1..n]
  BY <1>1 DEF FoldLeft, MapThenFoldSet
<1> HIDE DEF n
<1>3. step \in [V \X (1..n) -> V]
  <2>1. \A p \in V \X (1..n) : SubtractInterval(p[1], s[p[2]]) \in V
    BY <1>1
  <2> QED
    BY <2>1
<1>4. \A v \in V, k \in 1..n : step[<<v, k>>] = SubtractInterval(v, s[k])
  OBVIOUS
<1> HIDE DEF step, V
<1>5. PICK g : IsTable(g, n, V, from, step)
  BY <1>1, <1>3, FoldTable
<1>6. g = [u \in SUBSET (1..n) |-> Value(g, u)]
  <2>1. ASSUME NEW u \in SUBSET (1..n), u # {}
        PROVE  g[u] = SubtractInterval(g[u \ {Max(u)}], s[Max(u)])
    <3>1. Max(u) \in 1..n /\ u \ {Max(u)} \in SUBSET (1..n)
      BY <1>1, <2>1, MaxIsIn
    <3>2. g[u] = step[<<g[u \ {Max(u)}], Max(u)>>] /\ g[u \ {Max(u)}] \in V
      BY <1>5, <2>1, <3>1 DEF IsTable
    <3> QED
      BY <1>4, <3>1, <3>2
  <2>2. g \in [SUBSET (1..n) -> V] /\ g[{}] = from
    BY <1>5 DEF IsTable
  <2> QED
    BY <2>1, <2>2
<1>7. it = [u \in SUBSET (1..n) |-> Value(it, u)]
  <2> HIDE DEF Value
  <2> QED
    BY <1>6
<1> HIDE DEF it
<1>8. it[{}] = from
  BY <1>7
<1>9. \A u \in SUBSET (1..n) : u # {} /\ it[u \ {Max(u)}] \in V
        => it[u] = step[<<it[u \ {Max(u)}], Max(u)>>]
  <2>1. \A u \in SUBSET (1..n) : u # {} => Max(u) \in 1..n
    BY <1>1, MaxIsIn
  <2> QED
    BY <1>4, <1>7, <2>1
<1>10. PICK t : IsTrace(t, n, V, from, step) /\ t[n] = it[1..n]
  <2>1. IsFold(it, n, V, from, step)
    BY <1>8, <1>9 DEF IsFold
  <2>2. n \in Nat /\ from \in V /\ step \in [V \X (1..n) -> V]
    BY <1>1, <1>3
  <2>3. Traced(it[1..n], n, V, from, step)
    BY ONLY <2>1, <2>2, FoldIsTrace
  <2> QED
    BY <2>3 DEF Traced
<1>11. t \in [0..n -> V] /\ t[0] = from /\ \A k \in 1..n : t[k] = SubtractInterval(t[k - 1], s[k])
  <2>1. \A k \in 1..n : k - 1 \in 0..n
    BY <1>1
  <2> QED
    BY <1>4, <1>10, <2>1 DEF IsTrace
<1> QED
  BY <1>2, <1>10, <1>11 DEF n, V

(* Subtract leaves the numbers of the first list that the second has not.     *)
THEOREM SubtractIsSetDifference ==
  ASSUME NEW from \in Seq(Bounded), NEW s \in Seq(Bounded)
  PROVE  /\ FoldLeft(SubtractInterval, from, s) \in Seq(Bounded)
         /\ Named(FoldLeft(SubtractInterval, from, s)) = Named(from) \ Named(s)
<1> DEFINE n == Len(s)
<1>1. n \in Nat
  OBVIOUS
<1>2. \A k \in 1..n : s[k] \in Bounded
  OBVIOUS
<1>3. PICK t \in [0..n -> Seq(Bounded)] :
        /\ t[0] = from /\ t[n] = FoldLeft(SubtractInterval, from, s)
        /\ \A k \in 1..n : t[k] = SubtractInterval(t[k - 1], s[k])
  BY SubtractTrace, SubtractIntervalIsDifference
<1>4. /\ NamedTo(s, 0) = {} /\ NamedTo(s, n) = Named(s)
      /\ \A k \in 1..n : NamedTo(s, k) = NamedTo(s, k - 1) \cup Ids(s[k])
  BY NamedToIs
<1> HIDE DEF n
<1> DEFINE Good == {k \in Nat : k <= n => Named(t[k]) = Named(from) \ NamedTo(s, k)}
<1>5. 0 \in Good
  BY <1>3, <1>4
<1>6. ASSUME NEW k \in Nat, k \in Good
      PROVE  k + 1 \in Good
  <2>1. SUFFICES ASSUME k + 1 <= n
                 PROVE  Named(t[k + 1]) = Named(from) \ NamedTo(s, k + 1)
    OBVIOUS
  <2>2. k + 1 \in 1..n /\ (k + 1) - 1 = k /\ k \in 0..n
    BY <1>1, <2>1
  <2>3. /\ t[k + 1] = SubtractInterval(t[k], s[k + 1])
        /\ t[k] \in Seq(Bounded) /\ s[k + 1] \in Bounded
    BY <1>2, <1>3, <2>2
  <2>4. Named(t[k]) = Named(from) \ NamedTo(s, k)
    BY <1>1, <1>6, <2>1
  <2>5. NamedTo(s, k + 1) = NamedTo(s, k) \cup Ids(s[k + 1])
    BY <1>4, <2>2
  <2>6. Named(t[k + 1]) = Named(t[k]) \ Ids(s[k + 1])
    BY <2>3, SubtractIntervalIsDifference
  <2> QED
    BY <2>4, <2>5, <2>6
<1>7. n \in Good
  <2> HIDE DEF Good
  <2> QED
    BY <1>1, <1>5, <1>6, Induction
<1>8. t[n] \in Seq(Bounded)
  BY <1>1, <1>3
<1> QED
  BY <1>1, <1>3, <1>4, <1>7, <1>8

(* A bounded interval has a number, so only the empty list has none.          *)
LEMMA OnlyEmptyHasNone ==
  ASSUME NEW s \in Seq(Bounded)
  PROVE  Named(s) = {} <=> s = <<>>
<1>1. s = <<>> => Named(s) = {}
  BY DEF Named
<1>2. ASSUME s # <<>>
      PROVE  Named(s) # {}
  <2>1. 1 \in DOMAIN s /\ s[1] \in Bounded
    BY <1>2
  <2>2. s[1].Start \in Ids(s[1])
    BY <2>1, BoundedEnds DEF Ids, Bounded
  <2> QED
    BY <2>1, <2>2 DEF Named
<1> QED
  BY <1>1, <1>2

-----------------------------------------------------------------------------
(* The specification. *)

(* What holds in every state: the lists are sorted with gaps and stand for    *)
(* the numbers that were listed.                                              *)
GtidInductive ==
  /\ sets \in [Sides -> [Sids -> Seq(Bounded)]]
  /\ \A side \in Sides, sid \in Sids :
       /\ Normal(sets[side][sid])
       /\ \A n : <<sid, n>> \in listed[side] <=> n \in Named(sets[side][sid])
  /\ listed \in [Sides -> SUBSET (Sids \X Numbers)]
  /\ err \in [Sides -> BOOLEAN]

(* What is read from a token is a list of bounded intervals.                  *)
LEMMA ParsedIsBounded ==
  ASSUME NEW token \in Tokens, \A k \in DOMAIN token : Valid(token[k])
  PROVE  [k \in DOMAIN token |-> ParseInterval(token[k])] \in Seq(Bounded)
<1>1. token \in Seq(RawIntervals)
  BY GtidSetsAssumption
<1>2. ASSUME NEW k \in DOMAIN token
      PROVE  ParseInterval(token[k]) \in Bounded
  <2>1. token[k] \in RawIntervals /\ Valid(token[k])
    BY <1>1
  <2> DEFINE raw == token[k]
  <2> HIDE DEF raw
  <2>2. CASE raw \in [1..1 -> Numbers]
    <3>1. Len(raw) = 1 /\ raw[1] \in Numbers
      BY <2>2
    <3>2. raw[1] <= raw[1]
      BY <3>1 DEF Numbers
    <3> QED
      BY <3>1, <3>2 DEF ParseInterval, Interval, Bounded, raw
  <2>3. CASE raw \in [1..2 -> Numbers]
    <3>1. Len(raw) = 2 /\ raw[1] \in Numbers /\ raw[2] \in Numbers
      BY <2>3
    <3>2. raw[1] <= raw[2]
      BY <2>1, <3>1 DEF Valid, raw
    <3> QED
      BY <3>1, <3>2 DEF ParseInterval, Interval, Bounded, raw
  <2> QED
    BY <2>1, <2>2, <2>3 DEF RawIntervals, raw
<1>3. DOMAIN token = 1..Len(token) /\ Len(token) \in Nat
  BY <1>1
<1> QED
  BY <1>2, <1>3

(* The parser keeps, in every state, sorted lists with gaps that stand for    *)
(* what was listed.                                                           *)
THEOREM GtidInductiveHolds == GtidSpec => []GtidInductive
<1>1. GtidInit => GtidInductive
  <2> SUFFICES ASSUME GtidInit
               PROVE  GtidInductive
    OBVIOUS
  <2>1. Normal(<<>>) /\ Named(<<>>) = {}
    BY DEF Normal, Ascending, Gapped, Named
  <2> QED
    BY <2>1 DEF GtidInit, GtidInductive
<1>2. GtidInductive /\ [GtidNext]_gtidVars => GtidInductive'
  <2> SUFFICES ASSUME GtidInductive, [GtidNext]_gtidVars
               PROVE  GtidInductive'
    OBVIOUS
  <2>1. /\ sets \in [Sides -> [Sids -> Seq(Bounded)]]
        /\ \A d \in Sides, x \in Sids :
             /\ Normal(sets[d][x])
             /\ \A n : <<x, n>> \in listed[d] <=> n \in Named(sets[d][x])
        /\ listed \in [Sides -> SUBSET (Sids \X Numbers)]
        /\ err \in [Sides -> BOOLEAN]
    BY DEF GtidInductive
  <2>2. ASSUME NEW side \in Sides, NEW sid \in Sids, NEW token \in Tokens,
               ParseToken(side, sid, token)
        PROVE  GtidInductive'
    <3> DEFINE intervals == [k \in DOMAIN token |-> ParseInterval(token[k])]
               old == sets[side][sid]
               new == Normalize(old \o intervals)
    <3>1. intervals \in Seq(Bounded)
      BY <2>2, ParsedIsBounded DEF ParseToken
    <3>2. /\ sets' = [sets EXCEPT ![side][sid] = new]
          /\ listed' = [listed EXCEPT ![side] = @ \cup ({sid} \X Named(intervals))]
          /\ err' = err
      BY <2>2 DEF ParseToken
    <3> HIDE DEF intervals
    <3>3. /\ old \o intervals \in Seq(Bounded)
          /\ Named(old \o intervals) = Named(old) \cup Named(intervals)
      BY <2>1, <3>1, NamedConcat
    <3>4. Normal(new) /\ Named(new) = Named(old) \cup Named(intervals)
      BY <3>3, NormalizeIsCanonical
    <3> HIDE DEF new
    <3>5. new \in Seq(Bounded)
      BY <3>4 DEF Normal
    <3>6. sets' \in [Sides -> [Sids -> Seq(Bounded)]]
      BY <2>1, <3>2, <3>5
    <3>7. Named(intervals) \subseteq Numbers
      BY DEF Named, Ids
    <3>8. listed' \in [Sides -> SUBSET (Sids \X Numbers)]
      BY <2>1, <3>2, <3>7
    <3>9. ASSUME NEW d \in Sides, NEW x \in Sids
          PROVE  /\ Normal(sets'[d][x])
                 /\ \A n : <<x, n>> \in listed'[d] <=> n \in Named(sets'[d][x])
      <4>1. CASE d = side /\ x = sid
        <5>1. sets'[d][x] = new
          BY <2>1, <3>2, <4>1
        <5>2. listed'[d] = listed[d] \cup ({sid} \X Named(intervals))
          BY <2>1, <3>2, <4>1
        <5>3. \A n : <<x, n>> \in listed'[d]
                <=> <<x, n>> \in listed[d] \/ n \in Named(intervals)
          BY <4>1, <5>2
        <5> QED
          BY <2>1, <3>4, <4>1, <5>1, <5>3
      <4>2. CASE ~(d = side /\ x = sid)
        <5>1. sets'[d][x] = sets[d][x]
          BY <2>1, <3>2, <4>2
        <5>2. \A n : <<x, n>> \in listed'[d] <=> <<x, n>> \in listed[d]
          BY <2>1, <3>2, <4>2
        <5> QED
          BY <2>1, <5>1, <5>2
      <4> QED
        BY <4>1, <4>2
    <3> QED
      BY <2>1, <3>2, <3>6, <3>8, <3>9 DEF GtidInductive
  <2>3. ASSUME NEW side \in Sides, NEW sid \in Sids, NEW token \in Tokens,
               ParseError(side, sid, token)
        PROVE  GtidInductive'
    <3>1. /\ sets' = [sets EXCEPT ![side] = [x \in Sids |-> <<>>]]
          /\ listed' = [listed EXCEPT ![side] = {}]
          /\ err' = [err EXCEPT ![side] = TRUE]
      BY <2>3 DEF ParseError
    <3>2. Normal(<<>>) /\ Named(<<>>) = {}
      BY DEF Normal, Ascending, Gapped, Named
    <3>3. /\ sets' \in [Sides -> [Sids -> Seq(Bounded)]]
          /\ listed' \in [Sides -> SUBSET (Sids \X Numbers)]
          /\ err' \in [Sides -> BOOLEAN]
      BY <2>1, <3>1
    <3>4. ASSUME NEW d \in Sides, NEW x \in Sids
          PROVE  /\ Normal(sets'[d][x])
                 /\ \A n : <<x, n>> \in listed'[d] <=> n \in Named(sets'[d][x])
      <4>1. CASE d = side
        <5>1. sets'[d][x] = <<>> /\ listed'[d] = {}
          BY <2>1, <3>1, <4>1
        <5> QED
          BY <3>2, <5>1
      <4>2. CASE d # side
        <5>1. sets'[d][x] = sets[d][x] /\ listed'[d] = listed[d]
          BY <2>1, <3>1, <4>2
        <5> QED
          BY <2>1, <5>1
      <4> QED
        BY <4>1, <4>2
    <3> QED
      BY <3>3, <3>4 DEF GtidInductive
  <2>4. CASE UNCHANGED gtidVars
    BY <2>1, <2>4 DEF gtidVars, GtidInductive
  <2> QED
    BY <2>2, <2>3, <2>4 DEF GtidNext
<1> QED
  BY <1>1, <1>2, PTL DEF GtidSpec

(* What one side's list stands for.                                           *)
LEMMA SideIs ==
  ASSUME GtidInductive, NEW side \in Sides, NEW sid \in Sids
  PROVE  /\ sets[side][sid] \in Seq(Bounded)
         /\ Normal(Normalize(sets[side][sid]))
         /\ Normalize(sets[side][sid]) \in Seq(Bounded)
         /\ Named(Normalize(sets[side][sid])) = Named(sets[side][sid])
         /\ \A n : n \in Named(sets[side][sid]) <=> <<sid, n>> \in listed[side]
<1>1. sets[side][sid] \in Seq(Bounded)
  BY DEF GtidInductive
<1>2. /\ Normal(Normalize(sets[side][sid]))
      /\ Named(Normalize(sets[side][sid])) = Named(sets[side][sid])
  BY <1>1, NormalizeIsCanonical
<1> QED
  BY <1>1, <1>2 DEF GtidInductive, Normal

(* The transactions that a set of lists denotes.                              *)
LEMMA InDenoted ==
  ASSUME NEW s, NEW e
  PROVE  e \in Denoted(s) <=> \E sid \in Sids : \E n \in Named(s[sid]) : e = <<sid, n>>
BY DEF Denoted

(* What was parsed is what was listed, for every list of intervals of every   *)
(* width.                                                                     *)
THEOREM ParsedIsListedHolds == GtidSpec => []ParsedIsListed
<1>1. GtidInductive => ParsedIsListed
  <2> SUFFICES ASSUME GtidInductive, NEW side \in Sides
               PROVE  Denoted(sets[side]) = listed[side]
    BY DEF ParsedIsListed
  <2>1. listed[side] \subseteq Sids \X Numbers
    BY DEF GtidInductive
  <2>2. ASSUME NEW e
        PROVE  e \in Denoted(sets[side]) <=> e \in listed[side]
    <3>1. e \in listed[side] => \E sid \in Sids : \E n \in Numbers : e = <<sid, n>>
      BY <2>1
    <3> QED
      BY <3>1, InDenoted, SideIs
  <2> QED
    BY <2>2
<1> QED
  BY <1>1, GtidInductiveHolds, PTL

(* The lists that containsIntervals walks are sorted, with gaps.              *)
THEOREM SortedAndMergedHolds == GtidSpec => []SortedAndMerged
<1>1. GtidInductive => SortedAndMerged
  <2> SUFFICES ASSUME GtidInductive, NEW side \in Sides, NEW sid \in Sids,
                      NEW k \in 1..(Len(sets[side][sid]) - 1)
               PROVE  LET s == sets[side][sid]
                      IN /\ s[k].Start <= s[k + 1].Start
                         /\ s[k].End + 1 < s[k + 1].Start
                              \/ Largest \in {s[j].End : j \in 1..k}
    BY DEF SortedAndMerged
  <2> DEFINE s == sets[side][sid]
  <2>1. Ascending(s) /\ Gapped(s) /\ s \in Seq(Bounded)
    BY DEF GtidInductive, Normal
  <2> HIDE DEF s
  <2>2. k \in 1..(Len(s) - 1)
    BY DEF s
  <2>3. k \in 1..Len(s) /\ k + 1 \in 1..Len(s) /\ k <= k + 1
    <3>1. Len(s) \in Nat
      BY <2>1
    <3> QED
      BY <2>2, <3>1
  <2>4. s[k].Start <= s[k + 1].Start
    BY <2>1, <2>3 DEF Ascending
  <2>5. s[k].End + 1 < s[k + 1].Start \/ Largest \in {s[j].End : j \in 1..k}
    BY <2>1, <2>2 DEF Gapped
  <2> QED
    BY <2>4, <2>5 DEF s
<1> QED
  BY <1>1, GtidInductiveHolds, PTL

(* ContainsGTIDSet answers inclusion.                                         *)
THEOREM ContainsIsInclusionHolds == GtidSpec => []ContainsIsInclusion
<1>1. GtidInductive => ContainsIsInclusion
  <2> SUFFICES ASSUME GtidInductive
               PROVE  ContainsIsInclusion
    OBVIOUS
  <2> DEFINE left == sets["left"]
             right == sets["right"]
  <2>1. "left" \in Sides /\ "right" \in Sides
    BY DEF Sides
  <2>2. ASSUME NEW sid \in Sids
        PROVE  ContainsIntervals(Normalize(left[sid]), Normalize(right[sid]))
                 <=> Named(right[sid]) \subseteq Named(left[sid])
    <3>1. /\ Normalize(left[sid]) \in Seq(Bounded) /\ Normal(Normalize(left[sid]))
          /\ Normalize(right[sid]) \in Seq(Bounded) /\ Normal(Normalize(right[sid]))
          /\ Named(Normalize(left[sid])) = Named(left[sid])
          /\ Named(Normalize(right[sid])) = Named(right[sid])
      BY <2>1, SideIs
    <3> QED
      BY <3>1, ContainsIntervalsIsInclusion DEF Normal
  <2>3. /\ \A sid \in Sids : \A n : n \in Named(left[sid]) <=> <<sid, n>> \in listed["left"]
        /\ \A sid \in Sids : \A n : n \in Named(right[sid]) <=> <<sid, n>> \in listed["right"]
    BY <2>1, SideIs
  <2>4. listed["right"] \subseteq Sids \X Numbers
    BY <2>1 DEF GtidInductive
  <2>5. listed["right"] \subseteq listed["left"]
          <=> \A sid \in Sids : Named(right[sid]) \subseteq Named(left[sid])
    <3> HIDE DEF left, right
    <3>1. ASSUME \A sid \in Sids : Named(right[sid]) \subseteq Named(left[sid])
          PROVE  listed["right"] \subseteq listed["left"]
      <4>1. SUFFICES ASSUME NEW e \in listed["right"]
                     PROVE  e \in listed["left"]
        OBVIOUS
      <4>2. PICK sid \in Sids, n \in Numbers : e = <<sid, n>>
        BY <2>4
      <4> QED
        BY <2>3, <3>1, <4>2
    <3>2. ASSUME listed["right"] \subseteq listed["left"]
          PROVE  \A sid \in Sids : Named(right[sid]) \subseteq Named(left[sid])
      BY <2>3, <3>2
    <3> QED
      BY <3>1, <3>2
  <2> QED
    BY <2>2, <2>5 DEF ContainsIsInclusion, ContainsGTIDSet
<1> QED
  BY <1>1, GtidInductiveHolds, PTL

(* What is left of a side, per source ID.                                     *)
LEMMA MissingIs ==
  ASSUME GtidInductive, NEW sid \in Sids
  PROVE  LET missing == SubtractGTIDSets(sets["left"], sets["right"])
         IN /\ missing[sid] \in Seq(Bounded)
            /\ \A n : n \in Named(missing[sid])
                 <=> <<sid, n>> \in listed["left"] \ listed["right"]
<1> DEFINE from == Normalize(sets["left"][sid])
           minus == Normalize(sets["right"][sid])
<1>1. "left" \in Sides /\ "right" \in Sides
  BY DEF Sides
<1>2. SubtractGTIDSets(sets["left"], sets["right"])[sid] = FoldLeft(SubtractInterval, from, minus)
  BY DEF SubtractGTIDSets
<1>3. /\ from \in Seq(Bounded) /\ minus \in Seq(Bounded)
      /\ \A n : n \in Named(from) <=> <<sid, n>> \in listed["left"]
      /\ \A n : n \in Named(minus) <=> <<sid, n>> \in listed["right"]
  BY <1>1, SideIs
<1> HIDE DEF from, minus
<1>4. /\ FoldLeft(SubtractInterval, from, minus) \in Seq(Bounded)
      /\ Named(FoldLeft(SubtractInterval, from, minus)) = Named(from) \ Named(minus)
  BY <1>3, SubtractIsSetDifference
<1> QED
  BY <1>2, <1>3, <1>4

(* The text of a source ID is empty exactly if its list is.                   *)
LEMMA EncodedIs ==
  ASSUME NEW s, NEW sid, s[sid] \in Seq(Bounded)
  PROVE  /\ Encoded(sid, s) = <<>> <=> s[sid] = <<>>
         /\ DOMAIN Encoded(sid, s) = DOMAIN Normalize(s[sid])
         /\ \A k \in DOMAIN Encoded(sid, s) :
              /\ Valid(Encoded(sid, s)[k])
              /\ ParseInterval(Encoded(sid, s)[k]) = Normalize(s[sid])[k]
<1> DEFINE intervals == Normalize(s[sid])
<1>1. intervals \in Seq(Bounded) /\ Named(intervals) = Named(s[sid])
  BY NormalizeIsCanonical DEF Normal
<1>2. intervals = <<>> <=> s[sid] = <<>>
  BY <1>1, OnlyEmptyHasNone
<1>3. Encoded(sid, s) = [k \in DOMAIN intervals |->
                           IF intervals[k].Start = intervals[k].End THEN <<intervals[k].Start>>
                           ELSE <<intervals[k].Start, intervals[k].End>>]
  BY DEF Encoded
<1> HIDE DEF intervals
<1>4. ASSUME NEW k \in DOMAIN intervals
      PROVE  /\ Valid(Encoded(sid, s)[k])
             /\ ParseInterval(Encoded(sid, s)[k]) = intervals[k]
  <2>1. intervals[k] \in Bounded
    BY <1>1
  <2>2. /\ intervals[k].Start \in Int /\ intervals[k].End \in Int
        /\ intervals[k].Start <= intervals[k].End
        /\ intervals[k] = Interval(intervals[k].Start, intervals[k].End)
    BY <2>1, BoundedEnds DEF Interval, Bounded
  <2>3. CASE intervals[k].Start = intervals[k].End
    <3>1. Encoded(sid, s)[k] = <<intervals[k].Start>>
      BY <1>3, <2>3
    <3> QED
      BY <2>2, <2>3, <3>1 DEF Valid, ParseInterval
  <2>4. CASE intervals[k].Start # intervals[k].End
    <3>1. Encoded(sid, s)[k] = <<intervals[k].Start, intervals[k].End>>
      BY <1>3, <2>4
    <3> QED
      BY <2>2, <3>1 DEF Valid, ParseInterval
  <2> QED
    BY <2>3, <2>4
<1>5. DOMAIN Encoded(sid, s) = DOMAIN intervals
  BY <1>3
<1>6. Encoded(sid, s) = <<>> <=> intervals = <<>>
  <2>1. intervals = <<>> => Encoded(sid, s) = <<>>
    BY <1>3
  <2>2. intervals # <<>> => 1 \in DOMAIN intervals
    BY <1>1
  <2>3. DOMAIN <<>> = {}
    OBVIOUS
  <2> QED
    BY <1>5, <2>1, <2>2, <2>3
<1> QED
  BY <1>2, <1>4, <1>5, <1>6 DEF intervals

(* SubtractGTIDSets is set difference, and its text is empty exactly when     *)
(* nothing is missing.                                                        *)
THEOREM SubtractIsDifferenceHolds == GtidSpec => []SubtractIsDifference
<1>1. GtidInductive => SubtractIsDifference
  <2> SUFFICES ASSUME GtidInductive
               PROVE  SubtractIsDifference
    OBVIOUS
  <2> DEFINE missing == SubtractGTIDSets(sets["left"], sets["right"])
  <2>1. \A sid \in Sids :
          /\ missing[sid] \in Seq(Bounded)
          /\ \A n : n \in Named(missing[sid])
               <=> <<sid, n>> \in listed["left"] \ listed["right"]
    BY MissingIs
  <2> HIDE DEF missing
  <2>2. listed["left"] \subseteq Sids \X Numbers
    BY DEF GtidInductive, Sides
  <2>3. Denoted(missing) = listed["left"] \ listed["right"]
    <3>1. ASSUME NEW e
          PROVE  e \in Denoted(missing) <=> e \in listed["left"] \ listed["right"]
      <4>1. e \in listed["left"] => \E sid \in Sids : \E n \in Numbers : e = <<sid, n>>
        BY <2>2
      <4> QED
        BY <2>1, <4>1, InDenoted
    <3> QED
      BY <3>1
  <2>4. IsEmpty(missing) <=> listed["left"] \subseteq listed["right"]
    <3>1. IsEmpty(missing) <=> \A sid \in Sids : Named(missing[sid]) = {}
      BY <2>1, OnlyEmptyHasNone DEF IsEmpty
    <3>2. Denoted(missing) = {} <=> \A sid \in Sids : Named(missing[sid]) = {}
      <4>1. ASSUME NEW sid \in Sids, NEW n \in Named(missing[sid])
            PROVE  <<sid, n>> \in Denoted(missing)
        BY InDenoted
      <4>2. ASSUME NEW e \in Denoted(missing)
            PROVE  \E sid \in Sids : Named(missing[sid]) # {}
        BY InDenoted
      <4> QED
        BY <4>1, <4>2
    <3> QED
      BY <2>3, <3>1, <3>2
  <2>5. String(missing) = {} <=> IsEmpty(missing)
    <3>1. \A sid \in Sids : Encoded(sid, missing) = <<>> <=> missing[sid] = <<>>
      BY <2>1, EncodedIs
    <3>2. String(missing) = {} <=> \A sid \in Sids : Encoded(sid, missing) = <<>>
      BY DEF String
    <3> QED
      BY <3>1, <3>2 DEF IsEmpty
  <2> QED
    BY <2>3, <2>4, <2>5 DEF SubtractIsDifference, missing
<1> QED
  BY <1>1, GtidInductiveHolds, PTL

(* A printed difference reads back as the same transactions.                  *)
THEOREM PrintedCanBeReadHolds == GtidSpec => []PrintedCanBeRead
<1>1. GtidInductive => PrintedCanBeRead
  <2> DEFINE missing == SubtractGTIDSets(sets["left"], sets["right"])
  <2> SUFFICES ASSUME GtidInductive, NEW sid \in Sids
               PROVE  LET text == Encoded(sid, missing)
                      IN /\ \A k \in DOMAIN text : Valid(text[k])
                         /\ Named([k \in DOMAIN text |-> ParseInterval(text[k])])
                              = Named(missing[sid])
    BY DEF PrintedCanBeRead
  <2>1. missing[sid] \in Seq(Bounded)
    BY MissingIs
  <2> HIDE DEF missing
  <2> DEFINE text == Encoded(sid, missing)
             back == [k \in DOMAIN text |-> ParseInterval(text[k])]
             intervals == Normalize(missing[sid])
  <2>2. /\ DOMAIN text = DOMAIN intervals
        /\ \A k \in DOMAIN text : Valid(text[k]) /\ ParseInterval(text[k]) = intervals[k]
    BY <2>1, EncodedIs
  <2>3. Named(intervals) = Named(missing[sid])
    BY <2>1, NormalizeIsCanonical
  <2> HIDE DEF text, intervals
  <2>4. DOMAIN back = DOMAIN intervals /\ \A k \in DOMAIN back : back[k] = intervals[k]
    BY <2>2
  <2>5. Named(back) = Named(intervals)
    <3> HIDE DEF back
    <3> QED
      BY <2>4 DEF Named
  <2> QED
    BY <2>2, <2>3, <2>5 DEF text
<1> QED
  BY <1>1, GtidInductiveHolds, PTL
=============================================================================
