------------------------------ MODULE GtidSets ------------------------------
(***************************************************************************)
(* The GTID sets of internal/replication/gtidset.go as the code has them:  *)
(* per source ID a sorted list of closed intervals over unsigned integers  *)
(* of Width bits (64 in the code).  Two texts, a superset to be and a      *)
(* subset to be, are parsed token by token; whatever has been read so far  *)
(* can be compared, subtracted and printed, and must mean what the sets of *)
(* the listed transactions mean.                                           *)
(***************************************************************************)
EXTENDS Integers, SequencesExt

CONSTANTS
  Sids,    \* source IDs
  Width,   \* bits of a transaction number
  Tokens,  \* the tokens a text is made of: sequences of raw intervals, <<n>> or <<m, n>>
  MaxIntervals \* bound: the intervals kept per source ID

Numbers == 0..(2^Width - 1)
Largest == 2^Width - 1

(* A raw interval that strconv.ParseUint can read: one number, or two.        *)
RawIntervals == [1..1 -> Numbers] \cup [1..2 -> Numbers]

(* That a power of two is a natural number is said for the provers, which     *)
(* know nothing of exponents.                                                 *)
ASSUME GtidSetsAssumption ==
  /\ Width \in Nat \ {0} /\ 2^Width \in Nat \ {0} /\ MaxIntervals \in Nat
  /\ \A token \in Tokens : token \in Seq(RawIntervals)

Sides == {"left", "right"}

VARIABLES
  sets,   \* sets[side]: the GTIDSet parsed so far
  err,    \* err[side]: ParseGTIDSet returned an error
  listed  \* ghost: the transactions <<sid, n>> that the text has named

gtidVars == <<sets, err, listed>>

-----------------------------------------------------------------------------
(* Intervals, and the numbers they stand for. *)

Interval(m, n) == [Start |-> m, End |-> n]

Ids(i) == {n \in Numbers : i.Start <= n /\ n <= i.End}

(* parseInterval: a number, or two joined by a dash.                          *)
Valid(raw) == Len(raw) = 2 => raw[1] <= raw[2]
ParseInterval(raw) == Interval(raw[1], raw[Len(raw)])

Named(intervals) == UNION {Ids(intervals[k]) : k \in DOMAIN intervals}

Before(a, b) == a.Start < b.Start \/ (a.Start = b.Start /\ a.End < b.End)

(* One iteration of the merge: End + 1 wraps at the largest number.           *)
(* Mutant: a gap of one number is closed.                                     *)
AdjoinsLoosely(last, i) == i.Start <= last.End + 2

Adjoins(last, i) == i.Start <= (last.End + 1) % 2^Width

Merge(merged, i) ==
  IF merged # <<>> /\ Adjoins(Last(merged), i)
  THEN IF i.End > Last(merged).End THEN [merged EXCEPT ![Len(merged)].End = i.End] ELSE merged
  ELSE Append(merged, i)

(* Mutant: the intervals are merged in the order they were listed in.         *)
NormalizeUnsorted(intervals) == FoldLeft(Merge, <<>>, intervals)

(* sort.Slice, by insertion: Before leaves one sorted list, however it is got. *)
Insert(sorted, i) ==
  LET later == SelectInSeq(sorted, LAMBDA h : Before(i, h))
  IN InsertAt(sorted, IF later = 0 THEN Len(sorted) + 1 ELSE later, i)

Sorted(intervals) == FoldLeft(Insert, <<>>, intervals)

Normalize(intervals) == FoldLeft(Merge, <<>>, Sorted(intervals))

(* containsIntervals: the cursor over `have` only moves forward.              *)
(* Mutant: only the start of a wanted interval is looked up.                  *)
ReachStartOnly(have, at, target) ==
  LET i == SelectInSubSeq(have, at, Len(have), LAMBDA h : h.End >= target.Start)
  IN IF at > 0 /\ i > 0 /\ have[i].Start <= target.Start THEN i ELSE 0

(* The cursor after target, 0 for "not contained".                            *)
Reach(have, at, target) ==
  LET i == SelectInSubSeq(have, at, Len(have), LAMBDA h : h.End >= target.Start)
  IN IF at > 0 /\ i > 0 /\ have[i].Start <= target.Start /\ target.End <= have[i].End
     THEN i ELSE 0

ContainsIntervals(have, want) ==
  want = <<>> \/ FoldLeft(LAMBDA at, target : Reach(have, at, target), 1, want) > 0

(* What is left of interval i when r is taken away, in the order of the       *)
(* cases of subtractIntervalSet.                                              *)
(* Mutant: the number after the removed ones is lost.                         *)
CutShort(i, r) ==
  IF r.End < i.Start \/ r.Start > i.End THEN <<i>>
  ELSE IF r.Start <= i.Start /\ r.End >= i.End THEN <<>>
  ELSE IF r.Start > i.Start /\ r.End < i.End THEN <<Interval(i.Start, r.Start - 1)>>
  ELSE IF r.Start <= i.Start THEN <<Interval(r.End + 1, i.End)>>
  ELSE <<Interval(i.Start, r.Start - 1)>>

(* Mutant: removing up to the very end leaves an empty interval behind.       *)
CutBoundary(i, r) ==
  IF r.End < i.Start \/ r.Start > i.End THEN <<i>>
  ELSE IF r.Start <= i.Start /\ r.End > i.End THEN <<>>
  ELSE IF r.Start > i.Start /\ r.End < i.End
       THEN <<Interval(i.Start, r.Start - 1), Interval(r.End + 1, i.End)>>
  ELSE IF r.Start <= i.Start THEN <<Interval(r.End + 1, i.End)>>
  ELSE <<Interval(i.Start, r.Start - 1)>>

Cut(i, r) ==
  IF r.End < i.Start \/ r.Start > i.End THEN <<i>>
  ELSE IF r.Start <= i.Start /\ r.End >= i.End THEN <<>>
  ELSE IF r.Start > i.Start /\ r.End < i.End
       THEN <<Interval(i.Start, r.Start - 1), Interval(r.End + 1, i.End)>>
  ELSE IF r.Start <= i.Start THEN <<Interval(r.End + 1, i.End)>>
  ELSE <<Interval(i.Start, r.Start - 1)>>

SubtractInterval(intervals, r) == FlattenSeq([k \in DOMAIN intervals |-> Cut(intervals[k], r)])

-----------------------------------------------------------------------------
(* Sets. *)

ContainsGTIDSet(s, t) ==
  \A sid \in Sids : ContainsIntervals(Normalize(s[sid]), Normalize(t[sid]))

SubtractGTIDSets(s, t) ==
  [sid \in Sids |-> FoldLeft(SubtractInterval, Normalize(s[sid]), Normalize(t[sid]))]

IsEmpty(s) == \A sid \in Sids : s[sid] = <<>>

(* String: a raw interval per interval; a source ID without any is left out.  *)
Encoded(sid, s) ==
  LET intervals == Normalize(s[sid])
  IN [k \in DOMAIN intervals |->
        IF intervals[k].Start = intervals[k].End THEN <<intervals[k].Start>>
        ELSE <<intervals[k].Start, intervals[k].End>>]

String(s) == {<<sid, Encoded(sid, s)>> : sid \in {x \in Sids : Encoded(x, s) # <<>>}}

-----------------------------------------------------------------------------
GtidInit ==
  /\ sets = [side \in Sides |-> [sid \in Sids |-> <<>>]]
  /\ err = [side \in Sides |-> FALSE]
  /\ listed = [side \in Sides |-> {}]

(* ParseGTIDSet reads the next token, `sid:interval:interval...`.             *)
ParseToken(side, sid, token) ==
  /\ ~err[side]
  /\ token # <<>> /\ \A k \in DOMAIN token : Valid(token[k])
  /\ LET intervals == [k \in DOMAIN token |-> ParseInterval(token[k])]
     IN /\ sets' = [sets EXCEPT ![side][sid] = Normalize(@ \o intervals)]
        /\ Len(sets'[side][sid]) <= MaxIntervals
        /\ listed' = [listed EXCEPT ![side] =
             @ \cup ({sid} \X Named(intervals))]
  /\ UNCHANGED err

(* A token without an interval, or with one whose end is below its start,     *)
(* makes the whole text an error and the result nil.                          *)
ParseError(side, sid, token) ==
  /\ ~err[side]
  /\ token = <<>> \/ \E k \in DOMAIN token : ~Valid(token[k])
  /\ err' = [err EXCEPT ![side] = TRUE]
  /\ sets' = [sets EXCEPT ![side] = [s \in Sids |-> <<>>]]
  /\ listed' = [listed EXCEPT ![side] = {}]

GtidNext ==
  \E side \in Sides, sid \in Sids, token \in Tokens :
    ParseToken(side, sid, token) \/ ParseError(side, sid, token)

GtidSpec == GtidInit /\ [][GtidNext]_gtidVars

-----------------------------------------------------------------------------
(* Properties. *)

Denoted(s) == UNION {{sid} \X Named(s[sid]) : sid \in Sids}

(* What was parsed is what was listed, however the intervals overlap, touch,  *)
(* repeat or arrive out of order, up to the largest number (normalizeIntervals *)
(* wraps there).                                                               *)
ParsedIsListed == \A side \in Sides : Denoted(sets[side]) = listed[side]

(* The list is sorted, without overlap or touch, which containsIntervals'     *)
(* single pass relies on; only behind an interval that ends at the largest    *)
(* number may others be left unmerged.                                        *)
SortedAndMerged ==
  \A side \in Sides, sid \in Sids :
    LET s == sets[side][sid]
    IN \A k \in 1..(Len(s) - 1) :
         /\ s[k].Start <= s[k + 1].Start
         /\ s[k].End + 1 < s[k + 1].Start \/ Largest \in {s[j].End : j \in 1..k}

(* ContainsGTIDSet is inclusion: the errant-GTID check of a switchover and    *)
(* the freshness of a candidate depend on it in both directions.              *)
ContainsIsInclusion ==
  ContainsGTIDSet(sets["left"], sets["right"]) <=> listed["right"] \subseteq listed["left"]

(* SubtractGTIDSets is set difference, and its text is empty exactly when     *)
(* nothing is missing: BuildRecoverySummary takes an empty text for "no gap". *)
SubtractIsDifference ==
  LET missing == SubtractGTIDSets(sets["left"], sets["right"])
  IN /\ Denoted(missing) = listed["left"] \ listed["right"]
     /\ String(missing) = {} <=> listed["left"] \subseteq listed["right"]
     /\ IsEmpty(missing) <=> listed["left"] \subseteq listed["right"]

(* A printed difference can be read again and means the same: the gap that    *)
(* is planned is the one a donor must prove to have and the candidate waits   *)
(* for.                                                                       *)
PrintedCanBeRead ==
  LET missing == SubtractGTIDSets(sets["left"], sets["right"])
  IN \A sid \in Sids :
       LET text == Encoded(sid, missing)
       IN /\ \A k \in DOMAIN text : Valid(text[k])
          /\ Named([k \in DOMAIN text |-> ParseInterval(text[k])]) = Named(missing[sid])
=============================================================================
