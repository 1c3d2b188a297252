----------------------------- MODULE Arbitration -----------------------------
(***************************************************************************)
(* Scope 8.4's choice between scored routes (core/plan/arbitrate.py).      *)
(*                                                                         *)
(* A scored route is reduced to its tier key: for each tier, safety first, *)
(* the number of hard flags and then the weighted severity of all flags.   *)
(* In a key, positions 1, 3, 5 hold the counts and 2, 4, 6 the sums, so    *)
(* the even indices of the Python tuple are the odd positions here.        *)
(* Severities are integers in units of which Margin is TRADEOFF_MARGIN.    *)
(*                                                                         *)
(* A field is the sequence of the keys the loop compares: position 1 is    *)
(* the candidate labelled "original", position i + 1 is "alternative i".   *)
(***************************************************************************)
EXTENDS Integers, Sequences

CONSTANT Margin   \* arbitrate.TRADEOFF_MARGIN: closer than this is a trade-off

ASSUME MarginAssumption == Margin \in Nat

Original == 1

KeyPosition == 1 .. 6
HardPosition == {1, 3, 5}

\* Candidate.tier_key: what a route's flags add up to.
Key == [KeyPosition -> Nat]

FirstDifference(a, b) ==
  CHOOSE i \in KeyPosition : /\ a[i] # b[i]
                             /\ \A j \in KeyPosition : j < i => a[j] = b[j]

\* A bug: the tiers added up, so that comfort can pay for safety.
BetterInTotal(a, b) == a[1] + a[2] + a[3] + a[4] + a[5] + a[6]
                         < b[1] + b[2] + b[3] + b[4] + b[5] + b[6]

\* Python's tuple comparison: lower is better, the first difference decides.
Better(a, b) == a # b /\ LET i == FirstDifference(a, b) IN a[i] < b[i]

Gap(x, y) == IF x < y THEN y - x ELSE x - y

\* A hard count is never close, a weighted sum is when it is within Margin.
Close(a, b) ==
  LET i == FirstDifference(a, b)
  IN  a # b /\ i \notin HardPosition /\ Gap(a[i], b[i]) < Margin

LabelUnordered(i, j) == i # Original /\ i < j   \* a bug: "original" loses no tie

\* "alternative i" sorts before "alternative i + 1" and before "original".
LabelBefore(i, j) == i # j /\ (j = Original \/ (i # Original /\ i < j))

Before(field, i, j) ==
  \/ Better(field[i], field[j])
  \/ field[i] = field[j] /\ LabelBefore(i, j)

First(field, S, i) == i \in S /\ \A j \in S \ {i} : Before(field, i, j)

\* sorted(candidates)[0] and sorted(candidates)[1].
Best(field, i) == First(field, DOMAIN field, i)
NextListed(field, i, j) ==   \* a bug: the runner-up is the first one listed
  j \in DOMAIN field \ {i} /\ \A k \in DOMAIN field \ {i} : j <= k
RunnerUp(field, i, j) == First(field, DOMAIN field \ {i}, j)

\* compare() on the best two: the runner is asked to choose between i and j
\* when they are close, and otherwise the best one wins, a tie included.
TradeOff(field, i, j) ==
  Best(field, i) /\ RunnerUp(field, i, j) /\ Close(field[i], field[j])

NeedsInput(field) == \E i, j \in DOMAIN field : TradeOff(field, i, j)

AdoptsWinner(field, w) == ~NeedsInput(field) /\ Best(field, w)   \* a bug: ties win

\* The loop's own guard after arbitrate(): the winner replaces the original
\* only when its key is strictly better (agent/loop.py, "or not at all").
Adopts(field, w) ==
  ~NeedsInput(field) /\ Best(field, w) /\ Better(field[w], field[Original])
=============================================================================
