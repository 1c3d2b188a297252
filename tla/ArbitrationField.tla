-------------------------- MODULE ArbitrationField --------------------------
(***************************************************************************)
(* Arbitration over every field of up to MaxField routes with keys in Keys,*)
(* as the steps of a machine that builds it: the router adds an            *)
(* alternative, or lists the same alternatives in another order.           *)
(***************************************************************************)
EXTENDS Arbitration, FiniteSets

CONSTANTS
  Keys,       \* the tier keys of the routes there are
  MaxField    \* candidates compared, the original included

ASSUME FieldAssumption == Keys \subseteq Key /\ MaxField \in Nat

VARIABLE field

InitField == \E k \in Keys : field = <<k>>

Propose == /\ Len(field) < MaxField
           /\ \E k \in Keys : field' = Append(field, k)

\* The router hands the same alternatives back in another order.
Reorder == \E i, j \in 2 .. Len(field) :
             /\ i < j
             /\ field' = [field EXCEPT ![i] = field[j], ![j] = field[i]]

NextField == Propose \/ Reorder

SpecField == InitField /\ [][NextField]_field

-----------------------------------------------------------------------------
Indices == DOMAIN field

\* A reference definition of lexicographic order, by its first tier.
TierOf(k, t) == <<k[2*t - 1], k[2*t]>>
TierLess(a, b) == a[1] < b[1] \/ (a[1] = b[1] /\ a[2] < b[2])
LexLess(a, b) ==
  \/ TierLess(TierOf(a, 1), TierOf(b, 1))
  \/ TierOf(a, 1) = TierOf(b, 1) /\ TierLess(TierOf(a, 2), TierOf(b, 2))
  \/ /\ TierOf(a, 1) = TierOf(b, 1) /\ TierOf(a, 2) = TierOf(b, 2)
     /\ TierLess(TierOf(a, 3), TierOf(b, 3))

\* What arbitrate promises of the field it is given: there is exactly one
\* best candidate, nobody beats it tier by tier, and the runner-up loses to
\* it alone (arbitrate.py: "tier_key() is a total order over the whole field").
BestIsUnbeaten ==
  \E i \in Indices :
    /\ \A k \in Indices : Best(field, k) <=> k = i
    /\ \A k \in Indices : ~LexLess(field[k], field[i])
    /\ Indices # {i} => \E j \in Indices \ {i} :
         /\ RunnerUp(field, i, j)
         /\ \A k \in Indices \ {i} : ~LexLess(field[k], field[j])

\* No comfort buys a hard safety flag: the loop never adopts a route with
\* more hard safety flags than the original, and never offers the runner a
\* route with more of them than some other candidate (Candidate.tier_key:
\* "a hard safety flag can never be offset by any amount of comfort").
HardSafetyIsNeverTraded ==
  /\ \A w \in Indices : Adopts(field, w) => field[w][1] <= field[Original][1]
  /\ \A i, j, k \in Indices :
       TradeOff(field, i, j) => field[i][1] <= field[k][1] /\ field[j][1] <= field[k][1]

\* Whether the runner is asked, and the keys of the routes chosen between, do
\* not depend on the order the router listed the alternatives in
\* (arbitrate.py: a pairwise comparison "depends on the pairing order").
Decision(f) ==
  LET D == DOMAIN f
  IN  [asked   |-> {<<f[p[1]], f[p[2]]>> : p \in {q \in D \X D : TradeOff(f, q[1], q[2])}},
       adopted |-> {f[w] : w \in {k \in D : Adopts(f, k)}}]
OrderDoesNotDecide == [][Reorder => Decision(field') = Decision(field)]_field
=============================================================================
