------------------------------- MODULE Scoring -------------------------------
(***************************************************************************)
(* What every scorer is given and returns (core/scorers/base.py,           *)
(* core/scorers/_common.py, core/models/measurement.py).  A scorer is a    *)
(* function of a line, cut into segments, and of what its sources say.     *)
(* A measurement is kept as the set of segments it was taken on; severity, *)
(* detail and rounding are left out.                                       *)
(***************************************************************************)
EXTENDS Integers, FiniteSets

CONSTANTS
  N,        \* the segments of the line
  Unknown   \* what a source that does not say says

Segments == 1 .. N
Route == 0          \* ROUTE_SUMMARY_ID: about the whole line
Places == Segments \cup {Route}

ASSUME ScoringAssumption == N \in Nat \ {0} /\ Unknown \notin {TRUE, FALSE} \cup Int

Hard(by, at, code) == [by |-> by, at |-> at, kind |-> "hard", tier |-> "safety", code |-> code]
HardStrain(by, at, code) ==
  [by |-> by, at |-> at, kind |-> "hard", tier |-> "physiological", code |-> code]
Soft(by, at, code) == [by |-> by, at |-> at, kind |-> "soft", tier |-> "comfort", code |-> code]
SoftStrain(by, at, code) ==
  [by |-> by, at |-> at, kind |-> "soft", tier |-> "physiological", code |-> code]

\* One line of the sheet's coverage: a source, and whether it was consulted.
Entry(source, checked) == [source |-> source, checked |-> checked]
Asked(source) == Entry(source, TRUE)
NotAsked(source) == Entry(source, FALSE)

Result(known, flags, coverage) == [known |-> known, flags |-> flags, coverage |-> coverage]
Unavailable(source) == Result({}, {}, {NotAsked(source)})

HardFlags(result) == {f \in result.flags : f.kind = "hard"}
Silent(result, source) == NotAsked(source) \in result.coverage

\* The way a segment lies on, if it is matched to one and the layer has it.
TagsOf(world, i) == world.way[i]
Tagged(world) == {i \in Segments : TagsOf(world, i) # Unknown}

\* Lengths along the line: where segment i begins, and where the line ends.
Cut(start) ==
  /\ start \in [1 .. N + 1 -> Nat] /\ start[1] = 0
  /\ \A i, j \in 1 .. N + 1 : i < j => start[i] < start[j]
Begins(world, i) == world.start[i]
Length(world) == world.start[N + 1]
\* segment_at: the segment a distance falls in; the last one holds the end.
SegmentAt(world, d) ==
  {i \in Segments : Begins(world, i) <= d /\ (d < world.start[i + 1] \/ (i = N /\ d = Length(world)))}
Middle(world, i) == (Begins(world, i) + world.start[i + 1]) \div 2
Apart(a, b) == IF a < b THEN b - a ELSE a - b
\* Maximal stretches of the segments of a set.
Stretches(set) ==
  {r \in Segments \X Segments :
     r[1] <= r[2] /\ r[1] .. r[2] \subseteq set /\ r[1] - 1 \notin set /\ r[2] + 1 \notin set}
Span(world, r) == world.start[r[2] + 1] - world.start[r[1]]

\* The widest of the gaps that marks leave between two ends, 0 and an end.
Marks(set, end) == set \cup {0, end}
WidestGap(set, end) ==
  LET marks == Marks(set, end)
      next == {p \in marks \X marks : p[1] <= p[2] /\ \A m \in marks : m <= p[1] \/ m >= p[2]}
      gaps == {p[2] - p[1] : p \in next}
  IN  CHOOSE g \in gaps : \A h \in gaps : h <= g
=============================================================================
