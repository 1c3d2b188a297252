------------------------------- MODULE Costing -------------------------------
(***************************************************************************)
(* What a way costs: the way classes, the six parameters of a costing      *)
(* model (core/routing/custom_model.py), the cost the fitter computes from *)
(* them (core/routing/tuning.py) and the rules the router is sent.         *)
(*                                                                         *)
(* A multiplier is a power of two and is written as its exponent, so that  *)
(* 0 is "no preference" and products are sums.  A line is a set of         *)
(* stretches of road; a class is the set of parameters that match it.  Of  *)
(* a graph without levels the stretches have none.                         *)
(***************************************************************************)
EXTENDS Integers, FiniteSets, Functions

CONSTANTS
  Parameters,      \* those of the six that vary; the others stay neutral
  Least, Most,     \* MIN_MULTIPLIER and MAX_MULTIPLIER
  DistanceInfluence,   \* of the router's profile: what a metre costs it whatever the way
  Unknown          \* a tag or a level that is not there

ParameterNames == {"lts2", "lts3", "lts4", "unpaved", "path_bonus", "missing_sidewalk"}

ASSUME CostingAssumption ==
  /\ Parameters \subseteq ParameterNames /\ DistanceInfluence \in Nat
  /\ Least \in Int /\ Most \in Int /\ Least < 0 /\ Most > 0

Neutral == [p \in ParameterNames |-> 0]
AvoidHighStress == [Neutral EXCEPT !["lts3"] = -2, !["lts4"] = -2]
IsNeutral(v) == v = Neutral

-----------------------------------------------------------------------------
\* way_class: what the six parameters see of a way; no tags, nothing.
WayClass(tags) ==
  IF tags = Unknown THEN {}
  ELSE {p \in ParameterNames :
          \/ p = "lts2" /\ tags.lts = 2
          \/ p = "lts3" /\ tags.lts = 3
          \/ p = "lts4" /\ tags.lts >= 4
          \/ p = "unpaved" /\ tags.unpaved
          \/ p = "path_bonus" /\ tags.highway \in {"path", "footway"}
          \/ p = "missing_sidewalk"
             /\ tags.highway \in {"secondary", "tertiary", "secondary_link", "tertiary_link"}}

Metres(stretches) == SumFunction([s \in stretches |-> s.m])
\* summarise: a line as metres per class.
Summary(line) ==
  LET classOf == [s \in line |-> WayClass(s.tags)]
  IN  [c \in {classOf[s] : s \in line} |-> Metres({s \in line : classOf[s] = c})]
LengthOf(summary) == SumFunction(summary)

\* parameter_metres: the metres one parameter sees; class_difference_m: those that
\* would have to change class to make one line of another.
ParameterMetres(summary, p) == SumFunctionOnSet(summary, {c \in DOMAIN summary : p \in c})
MetresIn(summary, c) == IF c \in DOMAIN summary THEN summary[c] ELSE 0
Apart(n) == IF n < 0 THEN -n ELSE n
ClassDifference(x, y) ==
  SumFunction([c \in DOMAIN x \cup DOMAIN y |-> Apart(MetresIn(x, c) - MetresIn(y, c))]) \div 2

-----------------------------------------------------------------------------
AtLeast(n, low) == IF n < low THEN low ELSE n
AtMost(n, high) == IF n > high THEN high ELSE n
Bounded(n) == AtMost(AtLeast(n, Least), Most)

Exponent(v, class) == SumFunctionOnSet(v, class)
TwoTo(n) ==   \* 2 ^ n, as a proof can read it
  LET power[i \in 0 .. n] == IF i = 0 THEN 1 ELSE 2 * power[i - 1] IN power[n]
\* priority_of and cost, in units that keep a cost an integer.
Priority(v, class) == AtLeast(Exponent(v, class), Least)
Unit == 6 * Most
Cost(v, summary) == SumFunction([c \in DOMAIN summary |-> summary[c] * TwoTo(Unit - Priority(v, c))])

\* effective_params: the fitted multipliers with the profile's surface on top.
SurfaceLean == [mixed |-> 0, dirt |-> 1, paved |-> -1]
Effective(v, surface) ==
  [v EXCEPT !["unpaved"] = Bounded(@ + SurfaceLean[surface]),
            !["path_bonus"] = Bounded(@ + (IF surface = "dirt" THEN SurfaceLean[surface] ELSE 0))]

\* _term: the router multiplies by at most 1, so a bonus is a penalty on the rest.
TermOnTheWays(p, value) ==   \* a bug: a bonus that penalises the ways it is for
  IF value = 0 THEN {} ELSE {[on |-> p, unless |-> FALSE, by |-> IF value < 0 THEN value ELSE -value]}
Term(p, value) ==
  IF value = 0 THEN {}
  ELSE IF value < 0 THEN {[on |-> p, unless |-> FALSE, by |-> value]}
  ELSE {[on |-> p, unless |-> TRUE, by |-> -value]}
\* to_custom_model: the rules of one vector under one profile, for a graph that has levels
\* or, as no command says, has none.
Levels == {"lts2", "lts3", "lts4"}
CustomModel(v, surface, hasLts) ==
  UNION {Term(p, Effective(v, surface)[p]) : p \in {p \in ParameterNames : hasLts \/ p \notin Levels}}
RouterExponent(model, class) ==
  SumFunction([t \in {t \in model : (t.on \in class) # t.unless} |-> t.by])
\* The weight of a line: of each metre the router's own effort there (foot_average_speed,
\* over foot_priority) over what the rules leave of its priority, and the distance itself.
RouterCost(model, line) ==
  SumFunction([s \in line |-> s.m * (s.effort * TwoTo(-RouterExponent(model, WayClass(s.tags))) + DistanceInfluence)])

\* drawn_with: the vector asked for, else the runner's own.
DrawnWith(fitted, flag) ==
  CASE flag = "avoid_high_stress" -> AvoidHighStress
    [] flag = "neutral" -> Neutral
    [] OTHER -> fitted
=============================================================================
