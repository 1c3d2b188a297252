------------------------------ MODULE Segments ------------------------------
(***************************************************************************)
(* core/geo/segments.py: a line cut into the segments that scorers measure,*)
(* and the ground that two cuts of two lines have in common.               *)
(*                                                                         *)
(* A line is the sequence of its points, each with its distance along the  *)
(* line and its place, which is a pair of coordinates.                     *)
(***************************************************************************)
EXTENDS Integers, Sequences, SequencesExt

CONSTANTS MaxLen,     \* DEFAULT_MAX_SEGMENT_M
          Tolerance   \* SAME_GROUND_M

\* How far apart two places are, in whatever direction they are farther.
Abs(n) == IF n < 0 THEN -n ELSE n
Dist(p, q) == IF Abs(p[1] - q[1]) < Abs(p[2] - q[2]) THEN Abs(p[2] - q[2]) ELSE Abs(p[1] - q[1])

\* The ways of the points are unknown when nothing was matched: length alone cuts.
NoWays == <<>>

\* _boundary_indices: a segment ends where the way changes, and otherwise at the last
\* point that fits, or at the next when one step is already too long.
CutAt(line, ways, last, i) ==
  IF ways # NoWays /\ ways[i] # ways[i - 1] THEN i
  ELSE IF line[i].at - line[last].at > MaxLen THEN IF i - 1 > last THEN i - 1 ELSE i
  ELSE last
Including(cuts, cut) == IF cut = Last(cuts) THEN cuts ELSE Append(cuts, cut)
Boundaries(line, ways) ==
  LET upTo[i \in DOMAIN line] ==
        IF i = 1 THEN <<1>> ELSE Including(upTo[i - 1], CutAt(line, ways, Last(upTo[i - 1]), i))
  IN  Including(upTo[Len(line)], Len(line))

\* segment_route.  A segment is known by its place in the cut, and by nothing else.
Cut(line, ways) ==
  LET cuts == Boundaries(line, ways)
  IN  [id \in 1 .. Len(cuts) - 1 |->
         [start |-> line[cuts[id]].at, length |-> line[cuts[id + 1]].at - line[cuts[id]].at,
          way |-> IF ways = NoWays THEN 0 ELSE ways[cuts[id]],
          ends |-> <<line[cuts[id]].place, line[cuts[id + 1]].place>>,
          along |-> {line[i].place : i \in cuts[id] .. cuts[id + 1] - 1}]]

\* map_segments: a segment is where it was when its span and both its ends agree, and
\* with one segment only; one that slid is lost, and so is everything when nothing agrees.
Near(x, y) == Abs(x - y) <= Tolerance
EndsAgree(a, b) == Dist(a[1], b[1]) <= Tolerance /\ Dist(a[2], b[2]) <= Tolerance
SameSpan(a, b) ==   \* a bug: the span without the ground
  Near(a.start, b.start) /\ Near(a.length, b.length)
SameGround(a, b) == Near(a.start, b.start) /\ Near(a.length, b.length) /\ EndsAgree(a.ends, b.ends)
Counterparts(old, new, id) == {k \in DOMAIN new : SameGround(old[id], new[k])}
Landed(old, new) ==
  [id \in {k \in DOMAIN old : \E n \in DOMAIN new : Counterparts(old, new, k) = {n}} |->
     CHOOSE n \in DOMAIN new : Counterparts(old, new, id) = {n}]

\* _same_line: cut the same way, the ways included, and every point in its place.
Moved(oldLine, old, newLine, new) == old # new \/ oldLine # newLine
=============================================================================
