------------------------- MODULE PlanningLoopProofs -------------------------
(***************************************************************************)
(* What a line is judged by, how two lines are arbitrated and how a plan   *)
(* loops over them, for every set of lines, worlds, profiles and bounds.   *)
(*                                                                         *)
(* First, what arbitrate may be taken for, for every set of keys and every *)
(* field size: its order on tier keys is a strict total order, a field has *)
(* one best candidate and one runner-up, and what is decided depends on    *)
(* the keys alone and not on who is listed where.  Then the loop's own     *)
(* invariants, over any number of rounds.  Last, the scorers: what they    *)
(* refuse, whatever the profile, the cut of the line and the opening hours *)
(* they are given; recursive functions are followed from step to step by   *)
(* the least step at which a claim would fail.                             *)
(***************************************************************************)
EXTENDS PlanningLoop, ArbitrationField, Scorers, SequenceTheorems, FiniteSetTheorems,
        WellFoundedInduction, TLAPS

\* Two different keys differ somewhere first.
LEMMA FirstDifferenceExists ==
  ASSUME NEW a \in Key, NEW b \in Key, a # b
  PROVE  LET i == FirstDifference(a, b)
         IN  /\ i \in KeyPosition /\ a[i] # b[i]
             /\ \A j \in KeyPosition : j < i => a[j] = b[j]
<1> DEFINE Differs(i) == /\ a[i] # b[i]
                         /\ \A j \in KeyPosition : j < i => a[j] = b[j]
<1>1. \E i \in KeyPosition : a[i] # b[i]
  BY DEF Key
<1>2. \E i \in KeyPosition : Differs(i)
  <2>1. CASE a[1] # b[1]
    BY <2>1 DEF KeyPosition
  <2>2. CASE a[1] = b[1] /\ a[2] # b[2]
    BY <2>2 DEF KeyPosition
  <2>3. CASE a[1] = b[1] /\ a[2] = b[2] /\ a[3] # b[3]
    BY <2>3 DEF KeyPosition
  <2>4. CASE a[1] = b[1] /\ a[2] = b[2] /\ a[3] = b[3] /\ a[4] # b[4]
    BY <2>4 DEF KeyPosition
  <2>5. CASE /\ a[1] = b[1] /\ a[2] = b[2] /\ a[3] = b[3] /\ a[4] = b[4]
             /\ a[5] # b[5]
    BY <2>5 DEF KeyPosition
  <2>6. CASE /\ a[1] = b[1] /\ a[2] = b[2] /\ a[3] = b[3] /\ a[4] = b[4]
             /\ a[5] = b[5]
    BY <2>6, <1>1 DEF KeyPosition
  <2> QED BY <2>1, <2>2, <2>3, <2>4, <2>5, <2>6
<1> QED BY <1>2 DEF FirstDifference

\* Better without the CHOOSE: lexicographic order on the six positions.
LEMMA BetterIsLexicographic ==
  ASSUME NEW a \in Key, NEW b \in Key
  PROVE  Better(a, b) <=> \E i \in KeyPosition :
                             /\ a[i] < b[i]
                             /\ \A j \in KeyPosition : j < i => a[j] = b[j]
<1>1. ASSUME Better(a, b)
      PROVE  \E i \in KeyPosition : /\ a[i] < b[i]
                                    /\ \A j \in KeyPosition : j < i => a[j] = b[j]
  BY <1>1, FirstDifferenceExists DEF Better
<1>2. ASSUME NEW i \in KeyPosition, a[i] < b[i],
             \A j \in KeyPosition : j < i => a[j] = b[j]
      PROVE  Better(a, b)
  <2>1. a # b /\ a[i] \in Nat /\ b[i] \in Nat
    BY <1>2 DEF Key
  <2>2. FirstDifference(a, b) = i
    BY <1>2, <2>1, FirstDifferenceExists DEF KeyPosition
  <2> QED BY <1>2, <2>1, <2>2 DEF Better
<1> QED BY <1>1, <1>2

\* Better is irreflexive and transitive, and total up to equal keys.
LEMMA BetterTransitive ==
  ASSUME NEW a \in Key, NEW b \in Key, NEW c \in Key, Better(a, b), Better(b, c)
  PROVE  Better(a, c)
<1>1. PICK i \in KeyPosition : /\ a[i] < b[i]
                               /\ \A j \in KeyPosition : j < i => a[j] = b[j]
  BY BetterIsLexicographic
<1>2. PICK k \in KeyPosition : /\ b[k] < c[k]
                               /\ \A j \in KeyPosition : j < k => b[j] = c[j]
  BY BetterIsLexicographic
<1>3. \A j \in KeyPosition : a[j] \in Nat /\ b[j] \in Nat /\ c[j] \in Nat
  BY DEF Key
<1>4. CASE i <= k
  <2>1. a[i] < c[i] /\ \A j \in KeyPosition : j < i => a[j] = c[j]
    BY <1>1, <1>2, <1>3, <1>4 DEF KeyPosition
  <2> QED BY <2>1, BetterIsLexicographic
<1>5. CASE k < i
  <2>1. a[k] < c[k] /\ \A j \in KeyPosition : j < k => a[j] = c[j]
    BY <1>1, <1>2, <1>3, <1>5 DEF KeyPosition
  <2> QED BY <2>1, BetterIsLexicographic
<1> QED BY <1>4, <1>5 DEF KeyPosition

LEMMA BetterIrreflexive == \A a : ~Better(a, a)
  BY DEF Better

LEMMA BetterTotal ==
  ASSUME NEW a \in Key, NEW b \in Key, a # b
  PROVE  Better(a, b) \/ Better(b, a)
<1> DEFINE i == FirstDifference(a, b)
<1>1. /\ i \in KeyPosition /\ a[i] # b[i]
      /\ \A j \in KeyPosition : j < i => a[j] = b[j]
  BY FirstDifferenceExists
<1>2. a[i] \in Nat /\ b[i] \in Nat
  BY <1>1 DEF Key
<1>3. a[i] < b[i] \/ b[i] < a[i]
  BY <1>1, <1>2
<1> QED BY <1>1, <1>3, BetterIsLexicographic

\* A better key never has more hard safety flags.
LEMMA BetterIsNoLessSafe ==
  ASSUME NEW a \in Key, NEW b \in Key, Better(a, b)
  PROVE  a[1] <= b[1]
<1>1. PICK i \in KeyPosition : /\ a[i] < b[i]
                               /\ \A j \in KeyPosition : j < i => a[j] = b[j]
  BY BetterIsLexicographic
<1>2. a[1] \in Nat /\ b[1] \in Nat
  BY DEF Key, KeyPosition
<1> QED BY <1>1, <1>2 DEF KeyPosition

-----------------------------------------------------------------------------
\* A field is a sequence of keys, with the original in it.
FieldInv == field \in Seq(Keys) /\ Len(field) >= 1

LEMMA FieldStep == FieldInv /\ [NextField]_field => FieldInv'
<1> SUFFICES ASSUME FieldInv, [NextField]_field
             PROVE  FieldInv'
  OBVIOUS
<1>1. CASE Propose
  BY <1>1 DEF FieldInv, Propose
<1>2. CASE Reorder
  <2>1. PICK i, j \in 2 .. Len(field) :
          field' = [field EXCEPT ![i] = field[j], ![j] = field[i]]
    BY <1>2 DEF Reorder
  <2>2. i \in DOMAIN field /\ j \in DOMAIN field
    BY DEF FieldInv
  <2>3. field' \in Seq(Keys) /\ Len(field') = Len(field)
    BY <2>1, <2>2 DEF FieldInv
  <2> QED BY <2>3 DEF FieldInv
<1>3. CASE UNCHANGED field
  BY <1>3 DEF FieldInv
<1> QED BY <1>1, <1>2, <1>3 DEF NextField

\* Coming first in a field is having no more hard safety flags than the rest.
LEMMA FirstIsSafest ==
  ASSUME FieldInv, NEW S \in SUBSET DOMAIN field, NEW i \in DOMAIN field,
         First(field, S, i), NEW k \in S
  PROVE  field[i][1] <= field[k][1]
<1>1. field[i] \in Key /\ field[k] \in Key
  BY FieldAssumption DEF FieldInv
<1>2. field[i][1] \in Nat
  BY <1>1 DEF Key, KeyPosition
<1>3. CASE k = i
  BY <1>2, <1>3
<1>4. CASE k # i
  <2>1. Better(field[i], field[k]) \/ field[i] = field[k]
    BY <1>4 DEF First, Before
  <2> QED BY <2>1, <1>1, <1>2, BetterIsNoLessSafe
<1> QED BY <1>3, <1>4

\* Whatever keys routes have and however many are compared, the loop never
\* adopts a route with more hard safety flags than the original, nor offers
\* one with more of them than another candidate (arbitrate, Candidate.tier_key).
THEOREM HardSafetyNeverTraded == SpecField => []HardSafetyIsNeverTraded
<1>1. InitField => FieldInv
  BY DEF InitField, FieldInv
<1>2. FieldInv => HardSafetyIsNeverTraded
  <2> SUFFICES ASSUME FieldInv PROVE HardSafetyIsNeverTraded
    OBVIOUS
  <2>1. \A i \in Indices : field[i] \in Key
    BY FieldAssumption DEF FieldInv, Indices
  <2>2. ASSUME NEW w \in Indices, Adopts(field, w)
        PROVE  field[w][1] <= field[Original][1]
    <3>1. Original \in Indices
      BY DEF FieldInv, Indices, Original
    <3> QED BY <2>1, <2>2, <3>1, BetterIsNoLessSafe DEF Adopts
  <2>3. ASSUME NEW i \in Indices, NEW j \in Indices, NEW k \in Indices,
               TradeOff(field, i, j)
        PROVE  field[i][1] <= field[k][1] /\ field[j][1] <= field[k][1]
    <3>1. field[i][1] <= field[k][1]
      BY <2>3, FirstIsSafest DEF Indices, TradeOff, Best
    <3>2. CASE k # i
      <4>1. k \in DOMAIN field \ {i}
        BY <3>2 DEF Indices
      <4>2. field[j][1] <= field[k][1]
        BY <2>3, <4>1, FirstIsSafest DEF Indices, TradeOff, RunnerUp
      <4> QED BY <3>1, <4>2
    <3>3. CASE k = i
      <4>1. field[i] # field[j] /\ FirstDifference(field[i], field[j]) \notin HardPosition
        BY <2>3 DEF TradeOff, Close
      <4>2. FirstDifference(field[i], field[j]) \in KeyPosition \ {1}
        BY <4>1, <2>1, FirstDifferenceExists DEF HardPosition
      <4>3. field[i][1] = field[j][1]
        BY <4>1, <4>2, <2>1, FirstDifferenceExists DEF KeyPosition
      <4> QED BY <3>1, <3>3, <4>3
    <3> QED BY <3>2, <3>3
  <2> QED BY <2>2, <2>3 DEF HardSafetyIsNeverTraded
<1> QED BY <1>1, <1>2, FieldStep, PTL DEF SpecField

-----------------------------------------------------------------------------
(***************************************************************************)
(* That a field has a best candidate, and a second.  Every set of          *)
(* candidates has one whose key none of them beats (Lowest), and one whose *)
(* label comes before all others (Foremost), and so one that sorts first.  *)
(***************************************************************************)
Lowest(f, S, i) == i \in S /\ \A j \in S : ~Better(f[j], f[i])
Foremost(S, i) == i \in S /\ \A j \in S \ {i} : LabelBefore(i, j)

HasLowest == \A S \in SUBSET DOMAIN field : S # {} => \E i \in S : Lowest(field, S, i)
HasForemost == \A S \in SUBSET DOMAIN field : S # {} => \E i \in S : Foremost(S, i)

SortInv == FieldInv /\ HasLowest /\ HasForemost

\* A candidate more, and the lowest of the others is the lowest still, or it is.
LEMMA LowestOfOneMore ==
  ASSUME NEW f, NEW S, NEW x, NEW i, Lowest(f, S, i),
         f[x] \in Key, \A j \in S : f[j] \in Key
  PROVE  Lowest(f, S \cup {x}, i) \/ Lowest(f, S \cup {x}, x)
<1>1. CASE Better(f[x], f[i])
  <2>1. \A j \in S : Better(f[j], f[x]) => Better(f[j], f[i])
    BY <1>1, BetterTransitive DEF Lowest
  <2> QED BY <2>1, BetterIrreflexive DEF Lowest
<1>2. CASE ~Better(f[x], f[i])
  BY <1>2 DEF Lowest
<1> QED BY <1>1, <1>2

\* A sort needs no more than that.
LEMMA SomeoneIsFirst ==
  ASSUME SortInv, NEW S \in SUBSET DOMAIN field, S # {}
  PROVE  \E i \in S : First(field, S, i)
<1>1. PICK i \in S : Lowest(field, S, i)
  BY DEF SortInv, HasLowest
<1> DEFINE tied == {j \in S : field[j] = field[i]}
<1>2. PICK k \in tied : Foremost(tied, k)
  BY <1>1 DEF SortInv, HasForemost
<1>3. \A j \in S : field[j] \in Key
  BY FieldAssumption DEF SortInv, FieldInv
<1>4. ASSUME NEW j \in S \ {k}  PROVE Before(field, k, j)
  <2>1. CASE j \in tied
    BY <1>2, <1>4, <2>1 DEF Foremost, Before
  <2>2. CASE j \notin tied
    BY <1>1, <1>2, <1>3, <1>4, <2>2, BetterTotal DEF Lowest, Before
  <2> QED BY <2>1, <2>2
<1> QED BY <1>2, <1>4 DEF First

\* Where two candidates change places, each index has the other's key.
Swap(i, j, k) == IF k = i THEN j ELSE IF k = j THEN i ELSE k

LEMMA Swapped ==
  ASSUME FieldInv, NEW i \in 2 .. Len(field), NEW j \in 2 .. Len(field),
         field' = [field EXCEPT ![i] = field[j], ![j] = field[i]]
  PROVE  /\ DOMAIN field' = DOMAIN field /\ i \in DOMAIN field /\ j \in DOMAIN field
         /\ Original \in DOMAIN field /\ Swap(i, j, Original) = Original
         /\ \A k \in DOMAIN field : /\ Swap(i, j, k) \in DOMAIN field
                                    /\ Swap(i, j, Swap(i, j, k)) = k
                                    /\ field'[k] = field[Swap(i, j, k)]
<1>1. i \in DOMAIN field /\ j \in DOMAIN field /\ i # Original /\ j # Original
      /\ Original \in DOMAIN field
  BY DEF FieldInv, Original
<1>2. DOMAIN field' = DOMAIN field
  OBVIOUS
<1>3. \A k \in DOMAIN field : field'[k] = field[Swap(i, j, k)]
  BY <1>1 DEF Swap
<1> QED BY <1>1, <1>2, <1>3 DEF Swap

\* Every step keeps that.
LEMMA SortStep == SortInv /\ [NextField]_field => SortInv'
<1> SUFFICES ASSUME SortInv, [NextField]_field PROVE SortInv'
  OBVIOUS
<1>1. FieldInv'
  BY FieldStep DEF SortInv
<1>2. CASE Propose
  <2>1. PICK k \in Keys : field' = Append(field, k)
    BY <1>2 DEF Propose
  <2> DEFINE n == Len(field) + 1
  <2>2. /\ DOMAIN field' = DOMAIN field \cup {n} /\ n \notin DOMAIN field /\ n \in Nat /\ n > 1
        /\ \A j \in DOMAIN field : field'[j] = field[j] /\ j \in Nat /\ j < n
    BY <2>1 DEF SortInv, FieldInv
  <2>3. \A j \in DOMAIN field' : field'[j] \in Key
    BY <1>1, FieldAssumption DEF FieldInv
  <2> HIDE DEF n
  <2>4. ASSUME NEW S \in SUBSET DOMAIN field', S # {}
        PROVE  \E i \in S : Lowest(field', S, i)
    <3>1. CASE n \notin S
      BY <2>2, <2>4, <3>1 DEF SortInv, HasLowest, Lowest
    <3>2. CASE S = {n}
      BY <3>2, BetterIrreflexive DEF Lowest
    <3>3. CASE n \in S /\ S # {n}
      <4>1. PICK i \in S \ {n} : Lowest(field, S \ {n}, i)
        BY <2>2, <2>4, <3>3 DEF SortInv, HasLowest
      <4>2. Lowest(field', S \ {n}, i)
        BY <2>2, <2>4, <4>1 DEF Lowest
      <4>3. S = (S \ {n}) \cup {n}
        BY <3>3
      <4> QED BY <2>3, <2>4, <3>3, <4>2, <4>3, LowestOfOneMore
    <3> QED BY <3>1, <3>2, <3>3
  <2>5. ASSUME NEW S \in SUBSET DOMAIN field', S # {}
        PROVE  \E i \in S : Foremost(S, i)
    <3>1. CASE n \notin S
      BY <2>2, <2>5, <3>1 DEF SortInv, HasForemost
    <3>2. CASE S = {n}
      BY <3>2 DEF Foremost
    <3>3. CASE n \in S /\ S # {n}
      <4>1. PICK i \in S \ {n} : Foremost(S \ {n}, i)
        BY <2>2, <2>5, <3>3 DEF SortInv, HasForemost
      <4>2. CASE i = Original
        <5>1. \A j \in S \ {n} : j = Original
          BY <4>1, <4>2 DEF Foremost, LabelBefore
        <5> QED BY <2>2, <3>3, <5>1 DEF Foremost, LabelBefore, Original
      <4>3. CASE i # Original
        BY <2>2, <2>5, <3>3, <4>1, <4>3 DEF Foremost, LabelBefore
      <4> QED BY <4>2, <4>3
    <3> QED BY <3>1, <3>2, <3>3
  <2> QED BY <1>1, <2>4, <2>5 DEF SortInv, HasLowest, HasForemost
<1>3. CASE Reorder
  <2>1. PICK i, j \in 2 .. Len(field) :
          field' = [field EXCEPT ![i] = field[j], ![j] = field[i]]
    BY <1>3 DEF Reorder
  <2>2. /\ DOMAIN field' = DOMAIN field
        /\ \A k \in DOMAIN field : /\ Swap(i, j, k) \in DOMAIN field
                                   /\ Swap(i, j, Swap(i, j, k)) = k
                                   /\ field'[k] = field[Swap(i, j, k)]
    BY <2>1, Swapped DEF SortInv
  <2>3. ASSUME NEW S \in SUBSET DOMAIN field', S # {}
        PROVE  \E k \in S : Lowest(field', S, k)
    <3> DEFINE T == {Swap(i, j, k) : k \in S}
    <3>1. T \in SUBSET DOMAIN field /\ T # {}
      BY <2>2, <2>3
    <3>2. PICK l \in T : Lowest(field, T, l)
      BY <3>1 DEF SortInv, HasLowest
    <3>3. PICK k \in S : l = Swap(i, j, k)
      OBVIOUS
    <3>4. Lowest(field', S, k)
      BY <2>2, <2>3, <3>2, <3>3 DEF Lowest
    <3> QED BY <3>4
  <2> QED BY <1>1, <2>2, <2>3 DEF SortInv, HasLowest, HasForemost
<1>4. CASE UNCHANGED field
  BY <1>4 DEF SortInv, FieldInv, HasLowest, HasForemost, Lowest
<1> QED BY <1>2, <1>3, <1>4 DEF NextField

LEMMA SortHolds == SpecField => []SortInv
<1>1. InitField => SortInv
  <2> SUFFICES ASSUME InitField PROVE SortInv
    OBVIOUS
  <2>1. PICK k \in Keys : field = <<k>>
    BY DEF InitField
  <2>2. FieldInv /\ DOMAIN field = {1}
    BY <2>1 DEF FieldInv
  <2>3. \A S \in SUBSET DOMAIN field : S # {} => S = {1}
    BY <2>2
  <2> QED BY <2>2, <2>3, BetterIrreflexive
       DEF SortInv, HasLowest, HasForemost, Lowest, Foremost
<1> QED BY <1>1, SortStep, PTL DEF SpecField

\* The comparison of tuples is the comparison tier by tier.
LEMMA LexIsBetter ==
  ASSUME NEW a \in Key, NEW b \in Key
  PROVE  LexLess(a, b) <=> Better(a, b)
<1>1. \A k \in KeyPosition : a[k] \in Nat /\ b[k] \in Nat
  BY DEF Key
<1>2. LexLess(a, b) <=>
        \/ a[1] < b[1] \/ (a[1] = b[1] /\ a[2] < b[2])
        \/ /\ a[1] = b[1] /\ a[2] = b[2]
           /\ a[3] < b[3] \/ (a[3] = b[3] /\ a[4] < b[4])
        \/ /\ a[1] = b[1] /\ a[2] = b[2] /\ a[3] = b[3] /\ a[4] = b[4]
           /\ a[5] < b[5] \/ (a[5] = b[5] /\ a[6] < b[6])
  BY DEF LexLess, TierLess, TierOf
<1>3. Better(a, b) <=>
        \/ a[1] < b[1]
        \/ a[1] = b[1] /\ a[2] < b[2]
        \/ a[1] = b[1] /\ a[2] = b[2] /\ a[3] < b[3]
        \/ a[1] = b[1] /\ a[2] = b[2] /\ a[3] = b[3] /\ a[4] < b[4]
        \/ a[1] = b[1] /\ a[2] = b[2] /\ a[3] = b[3] /\ a[4] = b[4] /\ a[5] < b[5]
        \/ /\ a[1] = b[1] /\ a[2] = b[2] /\ a[3] = b[3] /\ a[4] = b[4] /\ a[5] = b[5]
           /\ a[6] < b[6]
  BY BetterIsLexicographic DEF KeyPosition
<1> QED BY <1>2, <1>3

\* What sorts first is beaten by nobody, and nothing else sorts first.
LEMMA FirstIsAlone ==
  ASSUME FieldInv, NEW S \in SUBSET DOMAIN field, NEW i, First(field, S, i)
  PROVE  /\ \A j \in S : ~Better(field[j], field[i])
         /\ \A k : First(field, S, k) => k = i
<1>1. i \in S /\ \A j \in S : field[j] \in Key
  BY FieldAssumption DEF FieldInv, First
<1>2. \A a, b \in Key : Better(a, b) => a # b /\ ~Better(b, a)
  BY BetterTransitive, BetterIrreflexive
<1>3. ASSUME NEW j \in S  PROVE ~Better(field[j], field[i])
  BY <1>1, <1>2, <1>3 DEF First, Before
<1>4. ASSUME NEW k, First(field, S, k), k # i  PROVE FALSE
  <2>1. k \in S /\ Before(field, k, i) /\ Before(field, i, k)
    BY <1>1, <1>4 DEF First
  <2>2. LabelBefore(i, k) /\ LabelBefore(k, i)
    BY <1>1, <1>2, <2>1 DEF Before
  <2>3. i \in Nat /\ k \in Nat
    BY <1>1, <2>1 DEF FieldInv
  <2> QED BY <2>2, <2>3 DEF LabelBefore
<1> QED BY <1>3, <1>4

\* A field has exactly one best candidate, which no other beats tier by tier, and a
\* runner-up that loses to it alone, whatever keys and however many candidates there are
\* (arbitrate's sort: "a total order over the whole field").
THEOREM ArbitrationIsTotal == SpecField => []BestIsUnbeaten
<1>1. SortInv => BestIsUnbeaten
  <2> SUFFICES ASSUME SortInv PROVE BestIsUnbeaten
    OBVIOUS
  <2>1. FieldInv /\ Original \in Indices /\ \A k \in Indices : field[k] \in Key
    BY FieldAssumption DEF SortInv, FieldInv, Indices, Original
  <2>2. PICK i \in Indices : First(field, Indices, i)
    BY <2>1, SomeoneIsFirst DEF Indices
  <2>3. \A k \in Indices : Best(field, k) <=> k = i
    BY <2>1, <2>2, FirstIsAlone DEF Best, Indices
  <2>4. \A k \in Indices : ~LexLess(field[k], field[i])
    BY <2>1, <2>2, FirstIsAlone, LexIsBetter DEF Indices
  <2>5. ASSUME Indices # {i}
        PROVE  \E j \in Indices \ {i} :
                 /\ RunnerUp(field, i, j)
                 /\ \A k \in Indices \ {i} : ~LexLess(field[k], field[j])
    <3> DEFINE rest == Indices \ {i}
    <3>1. rest \in SUBSET DOMAIN field /\ rest # {}
      BY <2>2, <2>5 DEF Indices
    <3>2. PICK j \in rest : First(field, rest, j)
      BY <3>1, SomeoneIsFirst
    <3>3. \A k \in rest : ~LexLess(field[k], field[j])
      BY <2>1, <3>1, <3>2, FirstIsAlone, LexIsBetter
    <3> QED BY <3>2, <3>3 DEF RunnerUp, Indices
  <2> QED BY <2>3, <2>4, <2>5 DEF BestIsUnbeaten
<1> QED BY <1>1, SortHolds, PTL

-----------------------------------------------------------------------------
(***************************************************************************)
(* That the order of the list decides nothing.  The best two of a field    *)
(* have the two lowest keys there are, and these are the same two when     *)
(* candidates change places, though the candidates may be others.          *)
(***************************************************************************)

\* g is the field f with candidates in other places.
Moves(f, g, p) ==
  /\ DOMAIN f = DOMAIN g /\ p \in [DOMAIN f -> DOMAIN f]
  /\ \A k \in DOMAIN f : p[p[k]] = k /\ g[k] = f[p[k]] /\ f[k] \in Key

\* Nobody of S beats a.
Floor(f, S, a) == \A k \in S : ~Better(f[k], a)

\* The lowest key of one is the lowest key of the other.
LEMMA SameLowest ==
  ASSUME NEW f, NEW g, NEW p, Moves(f, g, p), NEW i \in DOMAIN f, NEW ii \in DOMAIN g,
         Floor(f, DOMAIN f, f[i]), Floor(g, DOMAIN g, g[ii])
  PROVE  f[i] = g[ii]
<1>1. ~Better(g[p[i]], g[ii]) /\ g[p[i]] = f[i] /\ p[i] \in DOMAIN f
  BY DEF Moves, Floor
<1>2. ~Better(f[p[ii]], f[i]) /\ g[ii] = f[p[ii]] /\ p[ii] \in DOMAIN f
  BY DEF Moves, Floor
<1> QED BY <1>1, <1>2, BetterTotal DEF Moves

\* And so is the lowest of the others.
LEMMA SameSecond ==
  ASSUME NEW f, NEW g, NEW p, Moves(f, g, p), NEW i \in DOMAIN f, NEW ii \in DOMAIN g,
         Floor(f, DOMAIN f, f[i]), Floor(g, DOMAIN g, g[ii]),
         NEW j \in DOMAIN f \ {i}, NEW jj \in DOMAIN g \ {ii},
         Floor(f, DOMAIN f \ {i}, f[j]), Floor(g, DOMAIN g \ {ii}, g[jj])
  PROVE  f[j] = g[jj]
<1>1. f[i] = g[ii]
  BY SameLowest
<1>2. /\ \A k \in DOMAIN f : f[k] \in Key /\ g[k] \in Key /\ p[k] \in DOMAIN f
      /\ \A k \in DOMAIN f : p[p[k]] = k /\ g[k] = f[p[k]] /\ f[k] = g[p[k]]
      /\ DOMAIN f = DOMAIN g
  BY DEF Moves
<1>3. CASE ii = p[i]
  <2>1. p[j] \in DOMAIN g \ {ii} /\ p[jj] \in DOMAIN f \ {i}
    BY <1>2, <1>3
  <2>2. ~Better(g[p[j]], g[jj]) /\ ~Better(f[p[jj]], f[j])
    BY <2>1 DEF Floor
  <2> QED BY <1>2, <2>2, BetterTotal
<1>4. CASE ii # p[i]
  <2>1. p[i] \in DOMAIN g \ {ii} /\ p[ii] \in DOMAIN f \ {i}
    BY <1>2, <1>4
  <2>2. ~Better(g[p[i]], g[jj]) /\ ~Better(f[p[ii]], f[j])
    BY <2>1 DEF Floor
  <2>3. ~Better(g[jj], g[ii]) /\ ~Better(f[j], f[i])
    BY DEF Floor
  <2>4. g[jj] = f[i]
    BY <1>1, <1>2, <2>2, <2>3, BetterTotal
  <2>5. f[j] = g[ii]
    BY <1>1, <1>2, <2>2, <2>3, BetterTotal
  <2> QED BY <1>1, <2>4, <2>5
<1> QED BY <1>3, <1>4

\* What the sort of a field leaves.
Sorted(f) ==
  /\ \A S \in SUBSET DOMAIN f : \A i : First(f, S, i) => Floor(f, S, f[i])
  /\ \A S \in SUBSET DOMAIN f : S # {} => \E i \in S : First(f, S, i)

LEMMA FieldIsSorted == SortInv => Sorted(field)
BY FirstIsAlone, SomeoneIsFirst DEF Sorted, Floor, SortInv

\* What is decided in one is decided in the other.
LEMMA DecidesNoMore ==
  ASSUME NEW f, NEW g, NEW p, Moves(f, g, p), Sorted(f), Sorted(g),
         Original \in DOMAIN f, f[Original] = g[Original]
  PROVE  /\ Decision(f).asked \subseteq Decision(g).asked
         /\ NeedsInput(f) => NeedsInput(g)
         /\ (NeedsInput(g) => NeedsInput(f)) => Decision(f).adopted \subseteq Decision(g).adopted
<1>1. DOMAIN f = DOMAIN g
  BY DEF Moves
<1>2. PICK ii \in DOMAIN g : Best(g, ii)
  BY <1>1 DEF Sorted, Best
<1>3. ASSUME NEW i, Best(f, i)
      PROVE  i \in DOMAIN f /\ f[i] = g[ii] /\ Floor(f, DOMAIN f, f[i]) /\ Floor(g, DOMAIN g, g[ii])
  <2>1. i \in DOMAIN f /\ Floor(f, DOMAIN f, f[i]) /\ Floor(g, DOMAIN g, g[ii])
    BY <1>2, <1>3 DEF Best, Sorted, First
  <2> QED BY <2>1, SameLowest
<1>4. ASSUME NEW i, NEW j, TradeOff(f, i, j)
      PROVE  \E jj \in DOMAIN g : TradeOff(g, ii, jj) /\ <<f[i], f[j]>> = <<g[ii], g[jj]>>
  <2>1. Best(f, i) /\ RunnerUp(f, i, j) /\ Close(f[i], f[j])
    BY <1>4 DEF TradeOff
  <2>2. i \in DOMAIN f /\ f[i] = g[ii] /\ Floor(f, DOMAIN f, f[i]) /\ Floor(g, DOMAIN g, g[ii])
    BY <1>3, <2>1
  <2>3. j \in DOMAIN f \ {i} /\ Floor(f, DOMAIN f \ {i}, f[j])
    BY <2>1 DEF RunnerUp, Sorted, First
  <2>4. DOMAIN g \ {ii} # {}
    BY <1>1, <2>2, <2>3
  <2>5. PICK jj \in DOMAIN g \ {ii} : RunnerUp(g, ii, jj)
    BY <2>4 DEF RunnerUp, Sorted
  <2>6. Floor(g, DOMAIN g \ {ii}, g[jj])
    BY <2>5 DEF RunnerUp, Sorted
  <2>7. f[j] = g[jj]
    BY <2>2, <2>3, <2>6, SameSecond
  <2> QED BY <1>2, <2>1, <2>2, <2>5, <2>7 DEF TradeOff
<1>5. Decision(f).asked \subseteq Decision(g).asked
  <2>1. Decision(g).asked = {<<g[q[1]], g[q[2]]>> :
                               q \in {r \in (DOMAIN g) \X (DOMAIN g) : TradeOff(g, r[1], r[2])}}
    BY DEF Decision
  <2>2. ASSUME NEW q \in (DOMAIN f) \X (DOMAIN f), TradeOff(f, q[1], q[2])
        PROVE  <<f[q[1]], f[q[2]]>> \in Decision(g).asked
    <3>1. PICK jj \in DOMAIN g : /\ TradeOff(g, ii, jj)
                                 /\ <<f[q[1]], f[q[2]]>> = <<g[ii], g[jj]>>
      BY <1>4, <2>2
    <3> DEFINE qq == <<ii, jj>>
    <3>2. qq \in (DOMAIN g) \X (DOMAIN g) /\ qq[1] = ii /\ qq[2] = jj
      BY <1>2, <3>1
    <3> HIDE DEF qq
    <3>3. <<g[qq[1]], g[qq[2]]>> \in Decision(g).asked
      BY <2>1, <3>1, <3>2
    <3> QED BY <3>1, <3>2, <3>3
  <2>3. Decision(f).asked = {<<f[q[1]], f[q[2]]>> :
                               q \in {r \in (DOMAIN f) \X (DOMAIN f) : TradeOff(f, r[1], r[2])}}
    BY DEF Decision
  <2> QED BY <2>2, <2>3
<1>6. NeedsInput(f) => NeedsInput(g)
  BY <1>4 DEF NeedsInput
<1>7. ASSUME NeedsInput(g) => NeedsInput(f)
      PROVE  Decision(f).adopted \subseteq Decision(g).adopted
  <2> SUFFICES ASSUME NEW w \in DOMAIN f, Adopts(f, w)
               PROVE  f[w] \in Decision(g).adopted
    BY DEF Decision
  <2>1. f[w] = g[ii] /\ Adopts(g, ii)
    BY <1>2, <1>3, <1>7 DEF Adopts
  <2> QED BY <1>2, <2>1 DEF Decision
<1> QED BY <1>5, <1>6, <1>7

\* Listing the alternatives in another order changes neither whether the runner is asked
\* nor the keys of the routes that are chosen between or adopted, whatever ties there are
\* (arbitrate: a pairwise comparison "depends on the pairing order").
THEOREM ListingDoesNotDecide == SpecField => OrderDoesNotDecide
<1>1. SortInv => Sorted(field)
  BY FieldIsSorted
<1>2. ASSUME SortInv, Sorted(field), Sorted(field)', Reorder
      PROVE  Decision(field') = Decision(field)
  <2>1. PICK i, j \in 2 .. Len(field) :
          field' = [field EXCEPT ![i] = field[j], ![j] = field[i]]
    BY <1>2 DEF Reorder
  <2> DEFINE p == [k \in DOMAIN field |-> Swap(i, j, k)]
  <2>2. /\ Moves(field, field', p) /\ Moves(field', field, p)
        /\ Original \in DOMAIN field /\ Original \in DOMAIN field'
        /\ field[Original] = field'[Original]
    <3>1. \A k \in DOMAIN field : field[k] \in Key
      BY <1>2, FieldAssumption DEF SortInv, FieldInv
    <3>2. /\ DOMAIN field' = DOMAIN field
          /\ Original \in DOMAIN field /\ Swap(i, j, Original) = Original
          /\ \A k \in DOMAIN field : /\ Swap(i, j, k) \in DOMAIN field
                                     /\ Swap(i, j, Swap(i, j, k)) = k
                                     /\ field'[k] = field[Swap(i, j, k)]
      BY <1>2, <2>1, Swapped DEF SortInv
    <3>3. p \in [DOMAIN field -> DOMAIN field] /\ \A k \in DOMAIN field : p[k] = Swap(i, j, k)
      BY <3>2
    <3> HIDE DEF p
    <3> QED BY <3>1, <3>2, <3>3 DEF Moves
  <2> HIDE DEF p
  <2>3. Sorted(field')
    BY <1>2 DEF Sorted, First, Before, Floor
  <2>4. NeedsInput(field) <=> NeedsInput(field')
    BY <1>2, <2>2, <2>3, DecidesNoMore
  <2>5. /\ Decision(field).asked \subseteq Decision(field').asked
        /\ Decision(field).adopted \subseteq Decision(field').adopted
    BY <1>2, <2>2, <2>3, <2>4, DecidesNoMore
  <2>6. /\ Decision(field').asked \subseteq Decision(field).asked
        /\ Decision(field').adopted \subseteq Decision(field).adopted
    BY <1>2, <2>2, <2>3, <2>4, DecidesNoMore
  <2> QED BY <2>5, <2>6 DEF Decision
<1> QED BY <1>1, <1>2, SortHolds, PTL DEF OrderDoesNotDecide

-----------------------------------------------------------------------------
\* ---- sums of natural numbers: the key of a line
\* A set of numbers that is not empty has a least one.
LEMMA LeastOne == ASSUME NEW T, T \subseteq Nat, T # {} PROVE \E x \in T : \A y \in T : x <= y
<1> DEFINE R == {ss \in Nat \X Nat : ss[1] < ss[2]}
<1>1. IsWellFoundedOn(R, Nat)
  BY NatLessThanWellFounded DEF OpToRel
<1> HIDE DEF R
<1>2. PICK x \in T : \A y \in T : <<y, x>> \notin R
  BY <1>1, WFMin
<1>3. ASSUME NEW y \in T PROVE x <= y
  <2>1. <<y, x>> \notin R /\ x \in Nat /\ y \in Nat
    BY <1>2
  <2> QED  BY <2>1 DEF R
<1> QED  BY <1>3
\* What the recursion of a sum gives for every part of S with at most n elements.
SumUpTo(f, S, g, n) ==
  \A s \in SUBSET S : Cardinality(s) <= n =>
     g[s] = IF s = {} THEN 0 ELSE LET x == CHOOSE x \in s : TRUE IN f[x] + g[s \ {x}]

LEMMA SumStep ==
  ASSUME NEW f, NEW S, IsFiniteSet(S), \A x \in S : f[x] \in Nat,
         NEW n \in Nat, NEW g \in [SUBSET S -> Nat], SumUpTo(f, S, g, n)
  PROVE  \E h \in [SUBSET S -> Nat] : SumUpTo(f, S, h, n + 1)
<1> DEFINE first(s) == CHOOSE x \in s : TRUE
           h == [s \in SUBSET S |-> IF s = {} THEN 0 ELSE f[first(s)] + g[s \ {first(s)}]]
<1>1. \A s \in SUBSET S : s # {} => first(s) \in s
  OBVIOUS
<1>2. ASSUME NEW s \in SUBSET S, s # {}
      PROVE  /\ s \ {first(s)} \in SUBSET S /\ Cardinality(s) \in Nat
             /\ Cardinality(s \ {first(s)}) = Cardinality(s) - 1
             /\ f[first(s)] \in Nat
  <2>1. IsFiniteSet(s) /\ first(s) \in s
    BY <1>1, <1>2, FS_Subset
  <2> HIDE DEF first
  <2> QED  BY <2>1, FS_RemoveElement, FS_CardinalityType
<1>3. \A s \in SUBSET S : Cardinality(s) <= n =>
         g[s] = IF s = {} THEN 0 ELSE f[first(s)] + g[s \ {first(s)}]
  BY DEF SumUpTo
<1> HIDE DEF first
<1>4. h \in [SUBSET S -> Nat]
  <2>1. ASSUME NEW s \in SUBSET S, s # {} PROVE f[first(s)] + g[s \ {first(s)}] \in Nat
    BY <1>2, <2>1
  <2> QED  BY <2>1
<1>5. ASSUME NEW s \in SUBSET S, s # {}, Cardinality(s) <= n + 1
      PROVE  h[s] = f[first(s)] + h[s \ {first(s)}]
  <2> DEFINE r == s \ {first(s)}
  <2>1. r \in SUBSET S /\ Cardinality(r) <= n
    BY <1>2, <1>5
  <2> HIDE DEF r
  <2>2. h[r] = g[r]
    BY <1>3, <2>1
  <2> QED  BY <1>5, <2>2 DEF r
<1>6. SumUpTo(f, S, h, n + 1)
  <2>1. h[{}] = 0
    OBVIOUS
  <2> HIDE DEF h
  <2>2. \A s \in SUBSET S : Cardinality(s) <= n + 1 =>
           h[s] = IF s = {} THEN 0 ELSE f[first(s)] + h[s \ {first(s)}]
    BY <1>5, <2>1
  <2> QED  BY <2>2 DEF SumUpTo, first
<1> QED  BY <1>4, <1>6

LEMMA SumIsNatural ==
  ASSUME NEW f, NEW S, IsFiniteSet(S), \A x \in S : f[x] \in Nat
  PROVE  SumFunctionOnSet(f, S) \in Nat
<1> DEFINE has(n) == \E g \in [SUBSET S -> Nat] : SumUpTo(f, S, g, n)
           lacks == {n \in Nat : ~has(n)}
           size == Cardinality(S)
           iter[s \in SUBSET S] == IF s = {} THEN 0 ELSE LET x == CHOOSE x \in s : TRUE IN f[x] + iter[s \ {x}]
           Body(g) == [s \in SUBSET S |-> IF s = {} THEN 0 ELSE LET x == CHOOSE x \in s : TRUE IN f[x] + g[s \ {x}]]
<1>1. size \in Nat /\ \A s \in SUBSET S : IsFiniteSet(s) /\ Cardinality(s) \in Nat /\ Cardinality(s) <= size
  BY FS_Subset, FS_CardinalityType
<1>2. has(0)
  <2> DEFINE g == [s \in SUBSET S |-> 0]
  <2>1. \A s \in SUBSET S : Cardinality(s) <= 0 => s = {}
    BY <1>1, FS_EmptySet
  <2>2. SumUpTo(f, S, g, 0)
    BY <2>1 DEF SumUpTo
  <2> QED  BY <2>2
<1>3. \A n \in Nat : has(n) => has(n + 1)
  BY SumStep
<1> HIDE DEF has
<1>4. lacks = {}
  <2> SUFFICES ASSUME lacks # {} PROVE FALSE
    OBVIOUS
  <2>1. PICK n \in lacks : \A m \in lacks : n <= m
    BY LeastOne
  <2>2. n \in Nat /\ n # 0 /\ n - 1 \in Nat /\ n - 1 \notin lacks
    BY <1>2, <2>1
  <2> QED  BY <1>3, <2>1, <2>2
<1>5. has(size)
  BY <1>1, <1>4
<1>6. PICK g \in [SUBSET S -> Nat] : SumUpTo(f, S, g, size)
  BY <1>5 DEF has
<1> HIDE DEF size
<1>7. g = Body(g)
  BY <1>1, <1>6 DEF SumUpTo
<1>8. iter = Body(iter)
  BY <1>7
<1>9. SumFunctionOnSet(f, S) = iter[S]
  BY DEF SumFunctionOnSet, FoldFunctionOnSet, MapThenFoldSet
<1> HIDE DEF iter
<1>10. ASSUME NEW s \in SUBSET S, \A y \in s : iter[s \ {y}] \in Nat PROVE iter[s] \in Nat
  BY <1>8, <1>10
<1> DEFINE odd == {s \in SUBSET S : iter[s] \notin Nat}
           sizes == {Cardinality(s) : s \in odd}
<1>11. odd = {}
  <2> SUFFICES ASSUME odd # {} PROVE FALSE
    OBVIOUS
  <2>1. sizes \subseteq Nat /\ sizes # {}
    BY <1>1
  <2>2. PICK n \in sizes : \A m \in sizes : n <= m
    BY <2>1, LeastOne
  <2>3. PICK s \in odd : \A r \in odd : Cardinality(s) <= Cardinality(r)
    BY <2>2
  <2>4. ASSUME NEW y \in s PROVE iter[s \ {y}] \in Nat
    <3> DEFINE r == s \ {y}
    <3>1. r \in SUBSET S /\ Cardinality(r) = Cardinality(s) - 1 /\ Cardinality(s) \in Nat
      BY <1>1, <2>4, FS_RemoveElement
    <3> HIDE DEF r
    <3>2. r \notin odd
      BY <2>3, <3>1
    <3>3. iter[r] \in Nat
      BY <3>1, <3>2
    <3> QED  BY <3>3 DEF r
  <2> QED  BY <1>10, <2>3, <2>4
<1> QED  BY <1>9, <1>11

\* So the key of a line is one, whatever its flags weigh.
LEMMA KeysAreNumbers == KeyOf \in [Routes -> Key]
<1> SUFFICES ASSUME NEW r \in Routes PROVE TierKey(r) \in Key
  BY DEF KeyOf
<1>1. r.flags \in Seq(Flags) /\ Len(r.flags) = Len(r.ground) /\ Len(r.flags) \in Nat
  BY LoopAssumption DEF ScoredLine
<1>2. \A c \in SegmentsOf(r) : r.flags[c].weight \in Nat
  BY <1>1 DEF SegmentsOf, Flags, NoFlag
<1> DEFINE w == [c \in SegmentsOf(r) |-> r.flags[c].weight]
<1>3. ASSUME NEW i \in KeyPosition
      PROVE  LET mine == InTier(r, (i + 1) \div 2)
             IN  /\ Cardinality({c \in mine : r.flags[c].hard}) \in Nat
                 /\ SumFunctionOnSet(w, mine) \in Nat
  <2> DEFINE mine == InTier(r, (i + 1) \div 2)
             hard == {c \in mine : r.flags[c].hard}
  <2>1. mine \subseteq SegmentsOf(r) /\ hard \subseteq SegmentsOf(r)
    BY DEF InTier, Flagged
  <2>2. IsFiniteSet(SegmentsOf(r))
    BY <1>1, FS_Interval DEF SegmentsOf
  <2> HIDE DEF mine, hard
  <2>3. IsFiniteSet(mine) /\ Cardinality(hard) \in Nat
    BY <2>1, <2>2, FS_Subset, FS_CardinalityType
  <2>4. \A x \in mine : w[x] \in Nat
    BY <1>2, <2>1
  <2> HIDE DEF w
  <2>5. SumFunctionOnSet(w, mine) \in Nat
    BY <2>3, <2>4, SumIsNatural
  <2> QED  BY <2>3, <2>5 DEF mine, hard
<1> QED  BY <1>3 DEF TierKey, Key

-----------------------------------------------------------------------------
(***************************************************************************)
(* The loop.  One inductive invariant, Inv, carries all of its safety.     *)
(* Each property is about the pad in memory and the pad on disk, so Inv    *)
(* says the same thing, PadInv, of both; Phase ties the pad in memory to   *)
(* the loop's place, and Closed says that what was answered is locked      *)
(* wherever the plan goes on.                                              *)
(***************************************************************************)
InBudget(n) == n <= request.rounds \/ n <= MaxRounds

PadInv(p) ==
  /\ p # NoPad => Kept(p)
  /\ NotWorse(p)
  /\ p.status \in {"running", "needs_input"} => p.route \in Routes /\ request.route \in Routes
  /\ Asks(p)
  /\ p.asked <= MaxQuestions
  /\ InBudget(p.round)
  /\ p.question # NoQuestion => InBudget(p.round + 1)

Phase ==
  /\ cap \in {request.rounds, MaxRounds} \/ pc = "idle"
  /\ pc = "idle" => pad = NoPad
  /\ pc = "looping" => pad.status = "running"
  /\ pc = "returned" => pad.status \in {"needs_input", "complete", "failed"}
  /\ pad.answer = NoAnswer
  /\ store.answer # NoAnswer => store.question # NoQuestion

Closed ==
  /\ pc # "idle" => \A s \in settled : Locked(pad, s[2])
  /\ \A s \in settled :
       \/ Locked(store, s[2])
       \/ store.question # NoQuestion /\ s[2] = store.question.segment

Inv == TypeOK /\ PadInv(pad) /\ PadInv(store) /\ Phase /\ Closed

USE LoopAssumption, KeysAreNumbers

LEMMA NoPadIsPad == NoPad \in Pad /\ NoPad.question = NoQuestion /\ NoPad.status = "none"
                    /\ NoPad.locked = <<>> /\ NoPad.answer = NoAnswer
                    /\ NoPad.round = 0 /\ NoPad.asked = 0 /\ NoPad.route = NoRoute
  BY DEF NoPad, Pad, Question, NoQuestion, NoAnswer, NoRoute

LEMMA NoPadInv == TypeOK => PadInv(NoPad)
  BY NoPadIsPad DEF PadInv, NotWorse, Asks, InBudget, TypeOK

LEMMA NothingIsTyped == NoQuestion \in Question /\ NoAnswer \in 0 .. Candidates + 1
  BY DEF NoQuestion, Question, NoAnswer

LEMMA InitInv == Init => Inv
<1> SUFFICES ASSUME Init PROVE Inv
  OBVIOUS
<1>1. TypeOK
  BY NoPadIsPad DEF Init, TypeOK
<1>2. PadInv(pad) /\ PadInv(store)
  BY <1>1, NoPadInv DEF Init
<1>3. Phase /\ Closed
  BY NoPadIsPad DEF Init, Phase, Closed
<1> QED BY <1>1, <1>2, <1>3 DEF Inv

\* A segment locked covers itself; a lock added keeps the others and is last.
LEMMA WithLockAdds ==
  ASSUME NEW p \in Pad, NEW c \in Nat \ {0}, NEW by \in {"user", "loop"}
  PROVE  LET q == WithLock(p, c, by)
         IN  /\ q \in Pad
             /\ Len(q.locked) = Len(p.locked) + 1
             /\ \A i \in DOMAIN p.locked : q.locked[i] = p.locked[i]
             /\ Locked(q, c)
             /\ \A d : Locked(p, d) => Locked(q, d)
             /\ q.route = p.route /\ q.question = p.question /\ q.answer = p.answer
             /\ q.round = p.round /\ q.asked = p.asked /\ q.status = p.status
<1> DEFINE l == Lock(c - 1, c, by)
           q == WithLock(p, c, by)
<1>1. l \in Locks /\ LockCovers(l, c)
  BY DEF Lock, Locks, LockCovers
<1>2. p.locked \in Seq(Locks) /\ q.locked = Append(p.locked, l)
  BY DEF Pad, WithLock
<1>3. /\ q.locked \in Seq(Locks) /\ Len(q.locked) = Len(p.locked) + 1
      /\ \A i \in DOMAIN p.locked : i \in DOMAIN q.locked /\ q.locked[i] = p.locked[i]
      /\ Len(q.locked) \in DOMAIN q.locked /\ q.locked[Len(q.locked)] = l
  BY <1>1, <1>2
<1>4. /\ q.route = p.route /\ q.question = p.question /\ q.answer = p.answer
      /\ q.round = p.round /\ q.asked = p.asked /\ q.status = p.status
  BY DEF Pad, WithLock
<1>5. q \in Pad
  BY <1>3 DEF Pad, WithLock
<1>6. Locked(q, c)
  BY <1>1, <1>3 DEF Locked
<1>7. ASSUME NEW d, Locked(p, d) PROVE Locked(q, d)
  BY <1>3, <1>7 DEF Locked
<1> HIDE DEF q, l
<1> QED BY <1>3, <1>4, <1>5, <1>6, <1>7 DEF q

\* What it takes for the pad on disk to keep its invariant.
LEMMA StoreKept ==
  ASSUME PadInv(store), store' = store, request' = request
  PROVE  PadInv(store)'
BY DEF PadInv, Kept, NotWorse, Asks, InBudget, Open, Flagged, SegmentsOf, Locked, LockCovers, KeyOf

LEMMA PadKept ==
  ASSUME PadInv(pad), pad' = pad, request' = request
  PROVE  PadInv(pad)'
BY DEF PadInv, Kept, NotWorse, Asks, InBudget, Open, Flagged, SegmentsOf, Locked, LockCovers, KeyOf

\* A leg that starts: nothing was answered yet, for nothing is on disk.
LEMMA NothingSettled ==
  ASSUME Inv, store = NoPad
  PROVE  settled = {}
BY NoPadIsPad DEF Inv, Closed, Locked

LEMMA StartStep ==
  ASSUME Inv, NEW r \in Routes \cup {NoRoute}, NEW locks \in RequestLocks,
         NEW rounds \in RequestRounds,
         NEW status \in {"running", "failed"},
         pc = "idle", store = NoPad,
         pc' = IF status = "running" THEN "looping" ELSE "returned",
         status = "running" => r \in Routes,
         cap' = rounds, pad' = Fresh(r, locks, status),
         request' = [route |-> r, rounds |-> rounds, locks |-> locks],
         UNCHANGED <<store, lost, settled>>
  PROVE  Inv'
<1> DEFINE p == Fresh(r, locks, status)
<1>1. /\ p \in Pad /\ p.route = r /\ p.locked = locks /\ p.status = status
      /\ p.question = NoQuestion /\ p.answer = NoAnswer
      /\ p.round = 0 /\ p.asked = 0
  BY LoopAssumption, NoPadIsPad DEF Fresh, Pad, NoPad
<1>2. request'.route = r /\ request'.rounds = rounds /\ request'.locks = locks
  OBVIOUS
<1> HIDE DEF p
<1>3. TypeOK'
  <2>1. locks \in Seq(Locks) /\ rounds \in Nat
    BY LoopAssumption
  <2>2. request' \in [route : Routes \cup {NoRoute}, rounds : Nat, locks : Seq(Locks)]
    BY <2>1
  <2>3. pad' \in Pad /\ cap' \in Nat /\ pc' \in {"idle", "looping", "returned"}
    BY <1>1, <2>1 DEF p
  <2> QED BY <2>2, <2>3 DEF Inv, TypeOK
<1>4. PadInv(pad)'
  <2>1. pad' = p
    BY DEF p
  <2>2. Len(locks) \in Nat
    OBVIOUS
  <2> QED BY <1>1, <1>2, <2>1, <2>2 DEF PadInv, Kept, NotWorse, Asks, InBudget
<1>5. PadInv(store)'
  BY NoPadIsPad, <1>2 DEF PadInv, NotWorse, Asks, InBudget, Inv
<1>6. Phase'
  BY <1>1, <1>2, NoPadIsPad DEF Phase, Inv, p
<1>7. Closed'
  BY NothingSettled DEF Closed
<1> QED BY <1>3, <1>4, <1>5, <1>6, <1>7 DEF Inv

LEMMA BeginStep ==
  ASSUME Inv, NEW r \in Routes, NEW locks \in RequestLocks, NEW rounds \in RequestRounds,
         Begin(r, locks, rounds)
  PROVE  Inv'
BY StartStep, "running" \in {"running", "failed"} DEF Begin

LEMMA BeginUnroutedStep ==
  ASSUME Inv, NEW locks \in RequestLocks, NEW rounds \in RequestRounds,
         BeginUnrouted(locks, rounds)
  PROVE  Inv'
BY StartStep, "failed" \in {"running", "failed"} DEF BeginUnrouted

\* Answers, losses and saves move a pad about and change nothing the
\* invariant says of it.
LEMMA SaveStep == ASSUME Inv, Save PROVE Inv'
<1> USE NoPadIsPad DEF Inv, Save
<1>1. TypeOK'
  BY DEF TypeOK
<1>2. PadInv(store)'
  BY DEF PadInv, Kept, NotWorse, Asks, InBudget, Open, Flagged, SegmentsOf, Locked, LockCovers, KeyOf
<1>3. PadInv(pad)'
  BY DEF PadInv, NotWorse, Asks, InBudget, TypeOK
<1>4. Phase'
  BY DEF Phase
<1>5. Closed'
  BY DEF Closed, Locked, LockCovers
<1> QED BY <1>1, <1>2, <1>3, <1>4, <1>5

LEMMA LoseStep == ASSUME Inv, Lose PROVE Inv'
<1> USE NoPadIsPad DEF Inv, Lose
<1>1. TypeOK'
  BY DEF TypeOK
<1>2. PadInv(store)'
  BY StoreKept
<1>3. PadInv(pad)'
  BY DEF PadInv, NotWorse, Asks, InBudget, TypeOK
<1>4. Phase'
  BY DEF Phase
<1>5. Closed'
  BY DEF Closed, Locked, LockCovers
<1> QED BY <1>1, <1>2, <1>3, <1>4, <1>5

LEMMA CompleteStep == ASSUME Inv, Complete PROVE Inv'
<1> USE DEF Inv, Complete
<1>1. /\ pad \in Pad /\ pad' \in Pad
      /\ pad'.route = pad.route /\ pad'.locked = pad.locked /\ pad'.question = pad.question
      /\ pad'.answer = pad.answer /\ pad'.round = pad.round /\ pad'.asked = pad.asked
      /\ pad'.status = "complete"
  BY DEF TypeOK, Pad
<1>2. pad # NoPad
  BY NoPadIsPad DEF Phase
<1>3. TypeOK'
  BY <1>1 DEF TypeOK
<1>4. PadInv(store)'
  BY StoreKept
<1>5. PadInv(pad)'
  BY <1>1, <1>2 DEF PadInv, Kept, NotWorse, Asks, InBudget, Phase, KeyOf
<1>6. Phase'
  BY <1>1 DEF Phase
<1>7. Closed'
  BY <1>1 DEF Closed, Locked, LockCovers
<1> QED BY <1>3, <1>4, <1>5, <1>6, <1>7

LEMMA AnswerStep ==
  ASSUME Inv, NEW choice \in 1 .. Candidates + 1, Answer(choice)
  PROVE  Inv'
<1> USE DEF Inv, Answer
<1>1. /\ store \in Pad /\ store' \in Pad
      /\ store'.route = store.route /\ store'.locked = store.locked
      /\ store'.question = store.question
      /\ store'.answer = choice /\ store'.round = store.round /\ store'.asked = store.asked
      /\ store'.status = store.status
  <2>1. choice \in 0 .. Candidates + 1
    OBVIOUS
  <2> QED BY <2>1 DEF TypeOK, Pad
<1>2. store.question # NoQuestion /\ store # NoPad
  BY NoPadIsPad DEF NoQuestion
<1>3. TypeOK'
  BY <1>1 DEF TypeOK
<1>4. PadInv(store)'
  BY <1>1, <1>2 DEF PadInv, Kept, NotWorse, Asks, InBudget, Open, Flagged, SegmentsOf,
                    Locked, LockCovers, KeyOf
<1>5. PadInv(pad)'
  BY PadKept
<1>6. Phase'
  BY <1>1, <1>2 DEF Phase
<1>7. Closed'
  BY <1>1 DEF Closed, Locked, LockCovers
<1> QED BY <1>3, <1>4, <1>5, <1>6, <1>7

\* What the loop compares: the line as it stands, and Candidates more at most.
LEMMA LinesAreRoutes ==
  ASSUME NEW p \in Pad, p.route \in Routes, NEW proposed \in Proposals
  PROVE  /\ Len(proposed) \in 0 .. Candidates
         /\ Lines(p, proposed) \in Seq(Routes)
         /\ Len(Lines(p, proposed)) = Len(proposed) + 1
         /\ Lines(p, proposed)[Original] = p.route
<1>1. proposed \in Seq(Routes) /\ Len(proposed) \in 0 .. Candidates
  BY DEF Proposals, BoundedSeq, SeqOf
<1>2. <<p.route>> \in Seq(Routes) /\ Len(<<p.route>>) = 1 /\ <<p.route>>[1] = p.route
  OBVIOUS
<1> QED BY <1>1, <1>2 DEF Lines, Original

LEMMA SegmentIsPositive ==
  ASSUME NEW r \in Routes, NEW c \in SegmentsOf(r)
  PROVE  c \in Nat \ {0}
<1>1. r \in ScoredLine
  OBVIOUS
<1>2. Len(r.ground) \in Nat
  BY <1>1 DEF ScoredLine
<1> QED BY <1>2 DEF SegmentsOf

\* A round that adopts: one more lock, one more round, and a better line.
LEMMA ImproveStep ==
  ASSUME Inv, NEW c \in SegmentsOf(pad.route), NEW proposed \in Proposals,
         NEW w \in 1 .. Candidates + 1, Improve(c, proposed, w)
  PROVE  Inv'
<1> DEFINE r == Lines(pad, proposed)[w]
           q == [pad EXCEPT !.route = r, !.round = @ + 1]
           keys == Field(pad, proposed)
<1>1. /\ pc = "looping" /\ pad \in Pad /\ pad.status = "running" /\ pad.route \in Routes
      /\ request.route \in Routes /\ pad # NoPad /\ pad.question = NoQuestion
      /\ pad.round \in Nat /\ cap \in Nat /\ pad.round < cap
      /\ request.rounds \in Nat
  BY NoPadIsPad DEF Inv, Improve, InRound, Phase, PadInv, Asks, TypeOK, Pad
<1>2. c \in Nat \ {0}
  BY <1>1, SegmentIsPositive
<1>3. w \in DOMAIN keys /\ Better(keys[w], keys[Original])
  BY DEF Improve, Adopts, Best, First
<1>4. /\ r \in Routes /\ keys[w] = KeyOf[r] /\ keys[Original] = KeyOf[pad.route]
  BY <1>1, <1>3, LinesAreRoutes DEF Field, Original
<1>5. r = request.route \/ Better(KeyOf[r], KeyOf[request.route])
  <2>1. CASE pad.route = request.route
    BY <1>3, <1>4, <2>1
  <2>2. CASE Better(KeyOf[pad.route], KeyOf[request.route])
    <3>1. KeyOf[r] \in Key /\ KeyOf[pad.route] \in Key /\ KeyOf[request.route] \in Key
      BY <1>1, <1>4
    <3> QED BY <1>3, <1>4, <2>2, <3>1, BetterTransitive
  <2> QED BY <1>1, <2>1, <2>2 DEF Inv, PadInv, NotWorse
<1> HIDE DEF r
<1>6. /\ q \in Pad /\ q.route = r /\ q.round = pad.round + 1 /\ q.locked = pad.locked
      /\ q.question = NoQuestion /\ q.answer = pad.answer /\ q.asked = pad.asked
      /\ q.status = "running"
  <2>1. pad.round + 1 \in Nat
    BY <1>1
  <2> QED BY <1>1, <1>4, <2>1 DEF Pad
<1>7. pad' = WithLock(q, c, "loop")
  BY DEF Improve, r
<1> HIDE DEF q, keys
<1>8. /\ pad' \in Pad
      /\ Len(pad'.locked) = Len(pad.locked) + 1
      /\ \A i \in DOMAIN pad.locked : pad'.locked[i] = pad.locked[i]
      /\ \A d : Locked(pad, d) => Locked(pad', d)
      /\ pad'.route = r /\ pad'.question = NoQuestion /\ pad'.answer = pad.answer
      /\ pad'.round = pad.round + 1 /\ pad'.asked = pad.asked /\ pad'.status = "running"
  <2>1. \A d : Locked(pad, d) => Locked(q, d)
    BY <1>6 DEF Locked
  <2> QED BY <1>2, <1>6, <1>7, <2>1, WithLockAdds, "loop" \in {"user", "loop"}
<1>9. TypeOK'
  BY <1>8 DEF Inv, TypeOK, Improve
<1>10. PadInv(store)'
  BY StoreKept DEF Inv, Improve
<1>11. PadInv(pad)'
  <2>1. Kept(pad)'
    <3>1. Kept(pad) /\ request' = request
      BY <1>1 DEF Inv, PadInv, Improve
    <3>2. Len(request.locks) \in Nat /\ Len(pad.locked) \in Nat
      BY <1>1 DEF Inv, TypeOK, Pad
    <3>3. DOMAIN request.locks \subseteq DOMAIN pad.locked
      BY <1>1, <3>1, <3>2 DEF Kept, Inv, TypeOK, Pad
    <3> QED BY <1>1, <1>8, <3>1, <3>2, <3>3 DEF Kept
  <2>2. NotWorse(pad)'
    BY <1>5, <1>6, <1>8, NoPadIsPad DEF NotWorse, KeyOf, Improve
  <2>3. InBudget(pad.round)'
    BY <1>1, <1>8 DEF InBudget, Inv, Phase, Improve
  <2> QED BY <1>1, <1>4, <1>8, <2>1, <2>2, <2>3 DEF PadInv, Asks, Inv, Improve
<1>12. Phase'
  BY <1>1, <1>8 DEF Phase, Inv, Improve
<1>13. Closed'
  BY <1>1, <1>8 DEF Closed, Inv, Improve, Locked, LockCovers
<1> QED BY <1>9, <1>10, <1>11, <1>12, <1>13 DEF Inv

\* A round that parks: the pad gains a question about an open segment.
LEMMA ParkStep ==
  ASSUME Inv, NEW c \in SegmentsOf(pad.route), NEW proposed \in Proposals,
         NEW i \in 1 .. Candidates + 1, NEW j \in 1 .. Candidates + 1,
         Park(c, proposed, i, j)
  PROVE  Inv'
<1>1. /\ pc = "looping" /\ pad \in Pad /\ pad.status = "running" /\ pad.route \in Routes
      /\ request.route \in Routes /\ pad # NoPad /\ pad.question = NoQuestion
      /\ pad.round \in Nat /\ cap \in Nat /\ pad.round < cap /\ pad.asked \in Nat
      /\ request.rounds \in Nat /\ c \in Open(pad)
  BY NoPadIsPad DEF Inv, Park, InRound, Worst, Phase, PadInv, Asks, TypeOK, Pad
<1>2. c \in Nat
  BY <1>1, SegmentIsPositive
<1>3. /\ pad' \in Pad /\ pad'.route = pad.route /\ pad'.locked = pad.locked
      /\ pad'.round = pad.round /\ pad'.answer = pad.answer /\ pad'.status = "needs_input"
      /\ pad'.asked \in Nat /\ pad'.asked <= MaxQuestions
      /\ pad'.question \in Question /\ pad'.question.kind # "none"
      /\ pad'.question.segment = c
  <2>1. CASE AskPreference(pad, proposed, c)
    <3>1. Len(proposed) >= 1 /\ Len(proposed) <= Candidates
      BY <1>1, <2>1, LinesAreRoutes DEF AskPreference, Proposals, BoundedSeq, SeqOf
    <3> DEFINE question == [kind |-> "preference", segment |-> c,
                            options |-> {1, 2}]
    <3>2. question \in Question
      BY <1>2, <3>1 DEF Question
    <3>3. pad' = [pad EXCEPT !.asked = @ + 1, !.status = "needs_input",
                             !.question = question]
      BY <2>1 DEF AskPreference
    <3>4. question.kind = "preference" /\ question.segment = c
      OBVIOUS
    <3>5. pad.asked + 1 \in Nat /\ pad.asked + 1 <= MaxQuestions
      BY <1>1, <2>1 DEF AskPreference
    <3> HIDE DEF question
    <3> QED BY <1>1, <3>2, <3>3, <3>4, <3>5 DEF Pad
  <2>2. CASE AskTradeOff(pad, i, j, c)
    <3> DEFINE question == [kind |-> "trade_off", segment |-> c,
                            options |-> {i, j}]
    <3>2. question \in Question
      BY <1>2 DEF Question
    <3>3. pad' = [pad EXCEPT !.status = "needs_input", !.question = question]
      BY <2>2 DEF AskTradeOff
    <3>4. question.kind = "trade_off" /\ question.segment = c
      OBVIOUS
    <3> HIDE DEF question
    <3> QED BY <1>1, <3>2, <3>3, <3>4 DEF Pad, Inv, PadInv
  <2> QED BY <2>1, <2>2 DEF Park
<1>4. pad'.question # NoQuestion /\ pad' # NoPad
  BY <1>3, NoPadIsPad DEF NoQuestion
<1>5. TypeOK'
  BY <1>1, <1>3, LinesAreRoutes DEF Inv, TypeOK, Park
<1>6. PadInv(store)'
  BY StoreKept DEF Inv, Park
<1>7. Open(pad)' = Open(pad)
  BY <1>3 DEF Open, Flagged, SegmentsOf, Locked, LockCovers
<1>8. PadInv(pad)'
  <2>1. Kept(pad)' /\ NotWorse(pad)'
    BY <1>1, <1>3, <1>4 DEF Inv, PadInv, Kept, NotWorse, KeyOf, Park
  <2>2. Asks(pad)'
    BY <1>1, <1>3, <1>4, <1>7 DEF Asks
  <2>3. InBudget(pad.round)' /\ InBudget(pad.round + 1)'
    BY <1>1, <1>3 DEF Inv, Phase, InBudget, Park
  <2> QED BY <1>1, <1>3, <2>1, <2>2, <2>3 DEF PadInv, Park
<1>9. Phase'
  BY <1>1, <1>3 DEF Phase, Inv, Park
<1>10. Closed'
  BY <1>1, <1>3 DEF Closed, Inv, Park, Locked, LockCovers
<1> QED BY <1>5, <1>6, <1>8, <1>9, <1>10 DEF Inv

\* A leg that takes the answer: the segment is locked, and so Closed holds on
\* in memory, while on disk the question is still the one just settled.
LEMMA ResumeStep == ASSUME Inv, Resume PROVE Inv'
<1> DEFINE c == store.question.segment
           q == [store EXCEPT !.question = NoQuestion, !.answer = NoAnswer,
                              !.status = "running", !.round = @ + 1]
<1>1. /\ pc = "idle" /\ store \in Pad /\ store.question # NoQuestion
      /\ store # NoPad /\ store.status = "needs_input" /\ c \in Open(store)
      /\ store.route \in Routes /\ request.route \in Routes
      /\ c \in SegmentsOf(store.route) /\ c \in Nat \ {0} /\ store.round \in Nat
      /\ store.asked <= MaxQuestions
  <2>1. store.question # NoQuestion /\ pc = "idle" /\ store \in Pad
    BY DEF Inv, Resume, Phase, TypeOK
  <2>2. store # NoPad /\ store.status = "needs_input" /\ c \in Open(store)
    BY <2>1, NoPadIsPad DEF Inv, PadInv, Asks
  <2>3. c \in SegmentsOf(store.route) /\ store.route \in Routes /\ request.route \in Routes
    BY <2>2 DEF Open, Flagged, Inv, PadInv
  <2> QED BY <2>1, <2>2, <2>3, SegmentIsPositive DEF Pad, Inv, PadInv
<1>2. /\ q \in Pad /\ q.route = store.route /\ q.round = store.round + 1
      /\ q.locked = store.locked /\ q.question = NoQuestion /\ q.answer = NoAnswer
      /\ q.asked = store.asked /\ q.status = "running"
  <2>1. store.round + 1 \in Nat
    BY <1>1
  <2> QED BY <1>1, <2>1, NothingIsTyped DEF Pad
<1>3. pad' = WithLock(q, c, "user")
  BY <1>1 DEF Resume, Applied
<1> HIDE DEF q
<1>4. /\ pad' \in Pad
      /\ Len(pad'.locked) = Len(store.locked) + 1
      /\ \A i \in DOMAIN store.locked : pad'.locked[i] = store.locked[i]
      /\ \A d : Locked(store, d) => Locked(pad', d)
      /\ Locked(pad', c)
      /\ pad'.route = store.route /\ pad'.question = NoQuestion /\ pad'.answer = NoAnswer
      /\ pad'.round = store.round + 1 /\ pad'.asked = store.asked
      /\ pad'.status = "running"
  <2>1. \A d : Locked(store, d) => Locked(q, d)
    BY <1>2 DEF Locked
  <2> QED BY <1>1, <1>2, <1>3, <2>1, WithLockAdds, "user" \in {"user", "loop"}
<1>5. TypeOK'
  BY <1>1, <1>4 DEF Inv, TypeOK, Resume
<1>6. PadInv(store)'
  BY StoreKept DEF Inv, Resume
<1>7. PadInv(pad)'
  <2>1. Kept(pad)'
    <3>1. Kept(store) /\ request' = request
      BY <1>1 DEF Inv, PadInv, Resume
    <3>2. Len(request.locks) \in Nat /\ Len(store.locked) \in Nat
      BY <1>1 DEF Inv, TypeOK, Pad
    <3>3. DOMAIN request.locks \subseteq DOMAIN store.locked
      BY <1>1, <3>1, <3>2 DEF Kept, Inv, TypeOK, Pad
    <3> QED BY <1>1, <1>4, <3>1, <3>2, <3>3 DEF Kept
  <2>2. NotWorse(pad)'
    BY <1>1, <1>4 DEF NotWorse, KeyOf, Resume, Inv, PadInv
  <2>3. InBudget(pad.round)'
    BY <1>1, <1>4 DEF InBudget, Inv, PadInv, Resume
  <2> QED BY <1>1, <1>4, <2>1, <2>2, <2>3 DEF PadInv, Asks, Resume
<1>8. Phase'
  BY <1>1, <1>4 DEF Phase, Inv, Resume
<1>9. Closed'
  <2>1. ASSUME NEW s \in settled'
        PROVE  s[2] = c \/ Locked(store, s[2])
    BY <2>1 DEF Resume, Inv, Closed
  <2> QED BY <1>1, <1>4, <2>1 DEF Closed, Resume, Locked, LockCovers
<1> QED BY <1>5, <1>6, <1>7, <1>8, <1>9 DEF Inv

LEMMA InvStep == Inv /\ [Next]_vars => Inv'
<1> SUFFICES ASSUME Inv, [Next]_vars PROVE Inv'
  OBVIOUS
<1>1. CASE Start
  BY <1>1, BeginStep, BeginUnroutedStep DEF Start
<1>2. CASE Round
  BY <1>2, ImproveStep, ParkStep DEF Round
<1>3. CASE Complete
  BY <1>3, CompleteStep
<1>4. CASE Save
  BY <1>4, SaveStep
<1>5. CASE Reply
  BY <1>5, AnswerStep DEF Reply
<1>6. CASE Resume
  BY <1>6, ResumeStep
<1>7. CASE Lose
  BY <1>7, LoseStep
<1>8. CASE UNCHANGED vars
  <2>1. PadInv(store)' /\ PadInv(pad)'
    BY <1>8, StoreKept, PadKept DEF vars, Inv
  <2> QED BY <1>8, <2>1 DEF vars, Inv, TypeOK, Phase, Closed, Locked, LockCovers
<1> QED BY <1>1, <1>2, <1>3, <1>4, <1>5, <1>6, <1>7, <1>8 DEF Next

LEMMA Invariance == Spec => []Inv
  BY InitInv, InvStep, PTL DEF Spec

\* The loop's state keeps its shape.
THEOREM TypeCorrect == Spec => []TypeOK
<1>1. Inv => TypeOK
  BY DEF Inv
<1> QED BY <1>1, Invariance, PTL

\* A parked plan always knows what it asked, and asked about an open segment.
THEOREM ParkedPlansAsk == Spec => []ParkedMeansAsked
<1>1. Inv => ParkedMeansAsked
  BY DEF Inv, PadInv, ParkedMeansAsked
<1> QED BY <1>1, Invariance, PTL

\* Every round spent is one lock, in memory and on disk, over every leg.
THEOREM RoundsAreLocks == Spec => []OneLockPerRound
<1>1. Inv => OneLockPerRound
  BY DEF Inv, PadInv, OneLockPerRound
<1> QED BY <1>1, Invariance, PTL

\* However a plan is interrupted, its line is the one it began with or better.
THEOREM NeverWorse == Spec => []NoWorseThanAsked
<1>1. Inv => NoWorseThanAsked
  BY DEF Inv, PadInv, NoWorseThanAsked
<1> QED BY <1>1, Invariance, PTL

\* What was answered about a line's segment is never asked about it again.
THEOREM AnswersStand == Spec => []NeverReasked
<1>1. Inv => NeverReasked
  <2> SUFFICES ASSUME Inv, pad.question # NoQuestion,
                      <<pad.route, pad.question.segment>> \in settled
               PROVE  FALSE
    BY DEF NeverReasked
  <2>1. pc # "idle"
    BY NoPadIsPad DEF Inv, Phase
  <2>2. Locked(pad, pad.question.segment)
    BY <2>1 DEF Inv, Closed
  <2> QED BY <2>2 DEF Inv, PadInv, Asks, Open
<1> QED BY <1>1, Invariance, PTL

\* A plan stays within the preference questions and the rounds it is allowed.
THEOREM CapsHold == Spec => []CapsAreKept
<1>1. Inv => CapsAreKept
  BY DEF Inv, PadInv, CapsAreKept, PreferenceCap, RoundsBounded, InBudget
<1> QED BY <1>1, Invariance, PTL

-----------------------------------------------------------------------------
\* ---- numbers, and recursion over them

\* What holds at the start and from each number to the next holds to the end.
LEMMA UpTo ==
  ASSUME NEW n \in Nat, NEW T, 0 \in T, \A i \in 0 .. n - 1 : i \in T => i + 1 \in T
  PROVE  \A i \in 0 .. n : i \in T
<1> DEFINE left == (0 .. n) \ T
<1> SUFFICES ASSUME left # {} PROVE FALSE
  OBVIOUS
<1>1. left \subseteq Nat
  OBVIOUS
<1> HIDE DEF left
<1>2. PICK x \in left : \A y \in left : x <= y
  BY <1>1, LeastOne
<1>3. x \in (0 .. n) \ T /\ x - 1 \in 0 .. n - 1
  BY <1>2 DEF left
<1>4. x - 1 \in T
  BY <1>2, <1>3 DEF left
<1> QED  BY <1>3, <1>4

\* A recursion over numbers has a value, if each of its steps does.
Steps(f, low, high, base, step) ==
  \A i \in low .. high : f[i] = IF i = low THEN base ELSE step[<<i, f[i - 1]>>]
LEMMA StepsOf ==
  ASSUME NEW low \in Nat, NEW high \in Nat, low <= high,
         NEW S, NEW base \in S, NEW step \in [(low .. high) \X S -> S]
  PROVE  \E f \in [low .. high -> S] : Steps(f, low, high, base, step)
<1> USE DEF Steps
<1> DEFINE Solved(k) == \E f \in [low .. low + k -> S] : Steps(f, low, low + k, base, step)
           T == {k \in 0 .. high - low : Solved(k)}
<1>1. 0 \in T
  <2> DEFINE f == [i \in low .. low |-> base]
  <2>1. f \in [low .. low + 0 -> S] /\ Steps(f, low, low + 0, base, step)
    OBVIOUS
  <2>2. Solved(0)
    BY <2>1
  <2> QED  BY <2>2
<1>2. ASSUME NEW k \in 0 .. (high - low) - 1, k \in T PROVE k + 1 \in T
  <2> DEFINE m == low + k
  <2>1. m \in Nat /\ m + 1 \in low .. high /\ low + (k + 1) = m + 1
    OBVIOUS
  <2>2. PICK f \in [low .. m -> S] : Steps(f, low, m, base, step)
    BY <1>2
  <2> HIDE DEF m
  <2> DEFINE g == [i \in low .. m + 1 |-> IF i = m + 1 THEN step[<<m + 1, f[m]>>] ELSE f[i]]
  <2>3. m \in low .. m
    BY <2>1
  <2>4. step[<<m + 1, f[m]>>] \in S
    BY <2>1, <2>2, <2>3
  <2>5. g \in [low .. m + 1 -> S]
    BY <2>1, <2>2, <2>4
  <2>6. ASSUME NEW i \in low .. m + 1 PROVE g[i] = IF i = low THEN base ELSE step[<<i, g[i - 1]>>]
    <3>1. \A j \in low .. m : j # m + 1 /\ j \in low .. m + 1 /\ g[j] = f[j]
      BY <2>1
    <3>2. CASE i = m + 1
      <4>1. i # low /\ i - 1 = m
        BY <2>1, <3>2
      <4>2. g[i] = step[<<m + 1, f[m]>>]
        BY <3>2
      <4> QED  BY <2>3, <3>1, <3>2, <4>1, <4>2
    <3>3. CASE i # m + 1
      <4>1. i \in low .. m /\ (i # low => i - 1 \in low .. m)
        BY <2>1, <3>3
      <4>2. f[i] = IF i = low THEN base ELSE step[<<i, f[i - 1]>>]
        BY <2>2, <4>1
      <4>3. g[i] = f[i] /\ (i # low => g[i - 1] = f[i - 1])
        BY <3>1, <4>1
      <4> QED  BY <4>2, <4>3
    <3> QED  BY <3>2, <3>3
  <2>7. Steps(g, low, m + 1, base, step)
    BY <2>6
  <2>8. Solved(k + 1)
    BY <2>1, <2>5, <2>7
  <2> QED  BY <2>8
<1> HIDE DEF T
<1>3. high - low \in T
  <2>1. high - low \in Nat /\ high - low \in 0 .. high - low
    OBVIOUS
  <2>2. \A k \in 0 .. high - low : k \in T
    BY <1>1, <1>2, <2>1, UpTo
  <2> QED  BY <2>1, <2>2
<1>4. low + (high - low) = high
  OBVIOUS
<1> QED  BY <1>3, <1>4 DEF T


-----------------------------------------------------------------------------
\* ---- the scorers: what was judged is what the scorer makes of its world
JudgeInv ==
  /\ subject \in Subjects /\ world \in Worlds(subject)
  /\ profile \in Profiles(subject) /\ CheckFloors(profile)
  /\ Judged => result = Score(subject, world, profile)

\* A scorer is run once, on a world of its own and a profile that the store accepts.
LEMMA JudgeInvHolds == SpecJudge => []JudgeInv
<1>1. InitJudge => JudgeInv
  BY DEF InitJudge, JudgeInv, Judged
<1>2. JudgeInv /\ [NextJudge]_judgeVars => JudgeInv'
  <2> SUFFICES ASSUME JudgeInv, [NextJudge]_judgeVars PROVE JudgeInv'
    OBVIOUS
  <2>1. CASE UNCHANGED judgeVars
    BY <2>1 DEF JudgeInv, Judged, judgeVars
  <2>2. ASSUME NEW name \in Subjects, Judge(name, Score(name, world, profile)) PROVE JudgeInv'
    BY <2>2 DEF JudgeInv, Judge, Judged
  <2> QED  BY <2>1, <2>2 DEF NextJudge
<1> QED  BY <1>1, <1>2, PTL DEF SpecJudge

-----------------------------------------------------------------------------
\* ---- floors
\* A gap that is refused is wider than whatever a runner may tolerate, at any heat.
LEMMA FloorIsUnderTheTolerance ==
  ASSUME NEW gap \in Int, NEW threshold \in Int, threshold <= DryGapHard,
         NEW wbgt \in Int \cup {Unknown}, Exceeds(gap, DryGapHard, wbgt)
  PROVE  Exceeds(gap, threshold, wbgt)
<1> DEFINE over == Over(wbgt)
<1>1. over \in 0 .. 4
  BY DEF Over, WbgtSoft, WbgtHard
<1>2. 8 * gap > 15 * (8 - over) /\ threshold <= 15
  BY DEF Exceeds, DryGapHard, WbgtSoft, WbgtHard
<1> HIDE DEF over
<1>3. 8 * gap > threshold * (8 - over)
  <2>1. over = 0 \/ over = 1 \/ over = 2 \/ over = 3 \/ over = 4
    BY <1>1
  <2> QED  BY <1>2, <2>1
<1> QED  BY <1>3 DEF over, Exceeds, WbgtSoft, WbgtHard

\* A profile moves the comfort line of traffic stress, never the hard one.
LEMMA HostilityIsHard ==
  ASSUME NEW w, NEW p, NEW q
  PROVE  HardFlags(Hostility(w, p)) = HardFlags(Hostility(w, q))
<1>1. ASSUME NEW i PROVE {f \in Hostile(w, p, i) : f.kind = "hard"} = {f \in Hostile(w, q, i) : f.kind = "hard"}
  BY DEF Hostile, Hard, Soft
<1> QED  BY <1>1 DEF Hostility, HardFlags, Result, Unavailable
\* The marks of a line, and the widest gap between two that are next to each other.
NextTo(marks, p) == p \in marks \X marks /\ p[1] <= p[2] /\ \A m \in marks : m <= p[1] \/ m >= p[2]
LEMMA WidestGapIs ==
  ASSUME NEW end \in Nat, NEW set \in SUBSET (0 .. end)
  PROVE  LET g == WidestGap(set, end)
             marks == Marks(set, end)
         IN  /\ g \in 0 .. end
             /\ \E p \in marks \X marks : NextTo(marks, p) /\ g = p[2] - p[1]
             /\ \A p \in marks \X marks : NextTo(marks, p) => p[2] - p[1] <= g
<1> DEFINE marks == Marks(set, end)
           next == {p \in marks \X marks : p[1] <= p[2] /\ \A m \in marks : m <= p[1] \/ m >= p[2]}
           gaps == {p[2] - p[1] : p \in next}
           g == WidestGap(set, end)
<1>1. marks \subseteq 0 .. end /\ 0 \in marks
  BY DEF Marks
<1>2. next = {p \in marks \X marks : NextTo(marks, p)}
  BY DEF NextTo
<1>3. gaps \subseteq 0 .. end
  BY <1>1
<1>4. gaps # {}
  <2> DEFINE above == {m \in marks : m > 0}
  <2>1. CASE above = {}
    <3>1. <<0, 0>> \in next
      BY <1>1, <2>1
    <3> QED  BY <3>1
  <2>2. CASE above # {}
    <3>0. above \subseteq Nat
      BY <1>1
    <3> HIDE DEF above
    <3>1. PICK m \in above : \A n \in above : m <= n
      BY <2>2, <3>0, LeastOne
    <3> USE DEF above
    <3>2. <<0, m>> \in next
      BY <1>1, <3>1
    <3> QED  BY <3>2
  <2> QED  BY <2>1, <2>2
<1> HIDE DEF next
<1>5. \E h \in gaps : \A o \in gaps : o <= h
  <2> HIDE DEF gaps
  <2> DEFINE short == {end - h : h \in gaps}
  <2>1. short \subseteq Nat /\ short # {}
    <3>1. \A h \in gaps : end - h \in Nat
      BY <1>3
    <3> QED  BY <1>4, <3>1
  <2>2. PICK s \in short : \A t \in short : s <= t
    <3> HIDE DEF short
    <3> QED  BY <2>1, LeastOne
  <2>3. PICK h \in gaps : s = end - h
    OBVIOUS
  <2>4. ASSUME NEW o \in gaps PROVE o <= h
    <3>1. s <= end - o
      BY <2>2
    <3> QED  BY <1>3, <2>3, <3>1
  <2> QED  BY <2>4
<1>6. g = CHOOSE h \in gaps : \A o \in gaps : o <= h
  BY DEF WidestGap, next
<1>7. g \in gaps /\ \A o \in gaps : o <= g
  BY <1>5, <1>6
<1> QED  BY <1>2, <1>3, <1>7

\* A thing to be had at places along the line: where there is none, a gap is.
LEMMA CountedAreOnTheLine ==
  ASSUME NEW w \in Worlds("resupply_schedule"), NEW kind
  PROVE  /\ Length(w) \in Nat /\ Counted(w, kind) \in SUBSET (0 .. Length(w))
         /\ w.wbgt \in Int \cup {Unknown}
<1>1. Cut(w.start) /\ w.wbgt \in Int \cup {Unknown} /\ \A p \in w.places : p.d \in 0 .. Length(w)
  BY ScorersAssumption
<1>2. Length(w) \in Nat
  BY <1>1, ScoringAssumption DEF Cut, Length
<1>3. Along(w, kind) \subseteq w.places
  BY DEF Along
<1> QED  BY <1>1, <1>2, <1>3 DEF Counted

\* Water is refused by the floor alone: the tolerance adds soft flags above it.
LEMMA ResupplyIsHard ==
  ASSUME NEW w \in Worlds("resupply_schedule"), NEW p, p.water \in Int, CheckFloors(p)
  PROVE  HardFlags(Resupply(w, p)) =
           IF w.etas /\ w.amenities /\ Exceeds(DryGap(w), DryGapHard, w.wbgt)
           THEN {HardStrain("resupply_schedule", 1, "dry_gap_above_hard_floor")} ELSE {}
<1> DEFINE hard == Exceeds(DryGap(w), DryGapHard, w.wbgt)
<1>1. DryGap(w) \in Int
  BY CountedAreOnTheLine, WidestGapIs DEF DryGap
<1>2. hard => Exceeds(DryGap(w), p.water, w.wbgt)
  BY <1>1, CountedAreOnTheLine, FloorIsUnderTheTolerance DEF CheckFloors, CheckWaterGap
<1>3. {f \in FlagGaps(w, p) : f.kind = "hard"} =
        IF hard THEN {HardStrain("resupply_schedule", 1, "dry_gap_above_hard_floor")} ELSE {}
  <2> HIDE DEF hard
  <2> QED  BY <1>2 DEF hard, FlagGaps, HardStrain, SoftStrain, Soft
<1> QED  BY <1>3 DEF Resupply, HardFlags, Result, Unavailable

\* The other scorers that read a preference have no hard flag at all.
LEMMA ComfortIsSoft ==
  ASSUME NEW w, NEW p
  PROVE  /\ HardFlags(StopDensity(w, p)) = {} /\ HardFlags(Lighting(w, p)) = {}
         /\ HardFlags(Surface(w, p)) = {} /\ HardFlags(Sun(w, p)) = {}
<1>1. HardFlags(StopDensity(w, p)) = {}
  BY DEF StopDensity, HardFlags, Result, Unavailable, Soft
<1>2. HardFlags(Lighting(w, p)) = {}
  BY DEF Lighting, HardFlags, Result, Unavailable, Soft
<1>3. HardFlags(Surface(w, p)) = {}
  BY DEF Surface, SurfaceFlags, HardFlags, Result, Unavailable, Soft
<1>4. HardFlags(Sun(w, p)) = {}
  BY DEF Sun, SunFlags, HardFlags, Result, Unavailable, Soft
<1> QED  BY <1>1, <1>2, <1>3, <1>4

Preferring == {"segment_hostility", "stop_density", "surface_profile", "lighting", "resupply_schedule", "sun_exposure"}
\* The rest of the registry reads no preference.
LEMMA OthersIgnoreTheProfile ==
  ASSUME NEW name \in Registered \ Preferring, NEW w, NEW p, NEW q
  PROVE  Score(name, w, p) = Score(name, w, q)
BY DEF Registered, Preferring, Score

\* Whatever profile the store accepts, the hard flags on a line are those of any other
\* profile: no tolerance takes one off, for every scorer of the registry and every world
\* (core/preferences/floors.py).
THEOREM FloorsHold == SpecJudge => []FloorsIgnoreTheProfile
<1>1. JudgeInv => FloorsIgnoreTheProfile
  <2> SUFFICES ASSUME JudgeInv, Judged, NEW p \in Profiles(subject), CheckFloors(p)
               PROVE  HardFlags(Score(subject, world, p)) = HardFlags(Score(subject, world, profile))
    BY DEF JudgeInv, FloorsIgnoreTheProfile
  <2>1. subject \in Registered /\ p.water \in Int /\ profile.water \in Int
    BY ScorersAssumption DEF JudgeInv
  <2>2. CASE subject \notin Preferring
    <3>1. Score(subject, world, p) = Score(subject, world, profile)
      BY <2>1, <2>2, OthersIgnoreTheProfile
    <3> QED  BY <3>1
  <2>3. CASE subject = "segment_hostility"
    BY <2>3, HostilityIsHard DEF Score
  <2>4. CASE subject = "resupply_schedule"
    <3>1. world \in Worlds("resupply_schedule") /\ CheckFloors(profile)
      BY <2>4 DEF JudgeInv
    <3>2. HardFlags(Resupply(world, p)) = HardFlags(Resupply(world, profile))
      BY <2>1, <3>1, ResupplyIsHard
    <3> QED  BY <2>4, <3>2 DEF Score
  <2>5. CASE subject \in {"stop_density", "surface_profile", "lighting", "sun_exposure"}
    BY <2>5, ComfortIsSoft DEF Score
  <2> QED  BY <2>2, <2>3, <2>4, <2>5 DEF Preferring
<1> QED  BY <1>1, JudgeInvHolds, PTL

\* A stretch without a counted place is inside a gap between two marks.
LEMMA DryIsInAGap ==
  ASSUME NEW end \in Nat, NEW set \in SUBSET (0 .. end), NEW a \in 0 .. end, NEW b \in 0 .. end, a < b,
         \A m \in set : m <= a \/ b <= m
  PROVE  b - a <= WidestGap(set, end)
<1> DEFINE marks == Marks(set, end)
           before == {a - m : m \in {n \in marks : n <= a}}
           after == {m \in marks : b <= m}
<1>1. marks \subseteq 0 .. end /\ 0 \in marks /\ end \in marks /\ \A m \in marks : m <= a \/ b <= m
  BY DEF Marks
<1>2. PICK p \in marks : p <= a /\ \A m \in marks : m <= a => m <= p
  <2>1. before \subseteq Nat /\ before # {}
    <3>1. \A m \in marks : m <= a => a - m \in Nat
      BY <1>1
    <3>2. a - 0 \in before
      BY <1>1
    <3> QED  BY <3>1, <3>2
  <2>2. PICK s \in before : \A t \in before : s <= t
    <3> HIDE DEF before
    <3> QED  BY <2>1, LeastOne
  <2>3. PICK p \in marks : p <= a /\ s = a - p
    OBVIOUS
  <2>4. ASSUME NEW m \in marks, m <= a PROVE m <= p
    <3>1. s <= a - m
      BY <2>2, <2>4
    <3> QED  BY <1>1, <2>3, <3>1
  <2> QED  BY <2>3, <2>4
<1>3. PICK q \in marks : b <= q /\ \A m \in marks : b <= m => q <= m
  <2>1. after \subseteq Nat /\ after # {}
    BY <1>1
  <2>2. PICK q \in after : \A m \in after : q <= m
    <3> HIDE DEF after
    <3> QED  BY <2>1, LeastOne
  <2> QED  BY <2>2
<1>4. NextTo(marks, <<p, q>>)
  <2>1. p \in 0 .. end /\ q \in 0 .. end
    BY <1>1
  <2>2. \A m \in marks : m <= p \/ m >= q
    BY <1>1, <1>2, <1>3, <2>1
  <2> QED  BY <1>2, <1>3, <2>1, <2>2 DEF NextTo
<1>5. q - p <= WidestGap(set, end) /\ WidestGap(set, end) \in 0 .. end
  BY <1>4, WidestGapIs
<1>6. p \in 0 .. end /\ q \in 0 .. end
  BY <1>1
<1> HIDE DEF marks
<1> QED  BY <1>2, <1>3, <1>5, <1>6

\* What is over the floor stays over it when the gap is wider.
LEMMA WiderExceeds ==
  ASSUME NEW gap \in Int, NEW wider \in Int, gap <= wider,
         NEW wbgt \in Int \cup {Unknown}, Exceeds(gap, DryGapHard, wbgt)
  PROVE  Exceeds(wider, DryGapHard, wbgt) /\ 0 < gap
<1> DEFINE over == Over(wbgt)
<1>1. over \in 0 .. 4
  BY DEF Over, WbgtSoft, WbgtHard
<1>2. 8 * gap > 15 * (8 - over)
  BY DEF Exceeds, DryGapHard, WbgtSoft, WbgtHard
<1> HIDE DEF over
<1>3. 8 * wider > 15 * (8 - over) /\ 0 < gap
  BY <1>1, <1>2
<1> QED  BY <1>3 DEF over, Exceeds, DryGapHard, WbgtSoft, WbgtHard

\* A stretch is dry if no counted place is inside it.
LEMMA DryIsUncounted ==
  ASSUME subject = "resupply_schedule", world \in Worlds(subject), NEW a \in Nat, NEW b \in Nat
  PROVE  Dry(a, b) <=> \A m \in Counted(world, "water") : m <= a \/ b <= m
<1>1. \A p \in world.places : p.d \in Nat
  <2>1. Cut(world.start) /\ \A p \in world.places : p.d \in 0 .. Length(world)
    BY ScorersAssumption
  <2> QED  BY <2>1
<1>2. Dry(a, b) <=> \A p \in Along(world, "water") : a < p.d /\ p.d < b => OpenAt(world, p) = FALSE
  BY DEF Dry, Along, OpenAt
<1>3. \A p \in Along(world, "water") : p.d \in Nat
  BY <1>1 DEF Along
<1>4. (\A m \in Counted(world, "water") : m <= a \/ b <= m)
        <=> \A p \in Along(world, "water") : OpenAt(world, p) # FALSE => p.d <= a \/ b <= p.d
  BY DEF Counted
<1>5. \A p \in Along(world, "water") : (p.d <= a \/ b <= p.d) <=> ~(a < p.d /\ p.d < b)
  BY <1>3
<1> QED  BY <1>2, <1>4, <1>5

\* For every line and places on it, resupply_schedule refuses for want of water if, and only
\* if, some stretch longer than the floor at the heat of the day has every tap on it known shut.
THEOREM DryGapsAreRefused == SpecJudge => []DryGapsAreFlagged
<1>1. JudgeInv => DryGapsAreFlagged
  <2> SUFFICES ASSUME JudgeInv, Judged, subject = "resupply_schedule", world.etas, world.amenities
               PROVE  HardFlags(result) # {}
                        <=> \E a, b \in 0 .. Length(world) : a < b /\ Dry(a, b) /\ Exceeds(b - a, DryGapHard, world.wbgt)
    BY DEF DryGapsAreFlagged
  <2> DEFINE end == Length(world)
             set == Counted(world, "water")
             gap == DryGap(world)
  <2>1. world \in Worlds("resupply_schedule") /\ profile.water \in Int /\ CheckFloors(profile)
    BY ScorersAssumption DEF JudgeInv
  <2>2. end \in Nat /\ set \in SUBSET (0 .. end) /\ world.wbgt \in Int \cup {Unknown}
    BY <2>1, CountedAreOnTheLine
  <2>3. HardFlags(result) # {} <=> Exceeds(gap, DryGapHard, world.wbgt)
    <3>1. result = Resupply(world, profile)
      BY DEF JudgeInv, Score
    <3> QED  BY <2>1, <3>1, ResupplyIsHard
  <2>4. gap = WidestGap(set, end)
    BY DEF DryGap
  <2>5. \A a, b \in Nat : Dry(a, b) <=> \A m \in set : m <= a \/ b <= m
    BY <2>1, DryIsUncounted
  <2> HIDE DEF end, set, gap
  <2>6. ASSUME Exceeds(gap, DryGapHard, world.wbgt)
        PROVE  \E a, b \in 0 .. end : a < b /\ Dry(a, b) /\ Exceeds(b - a, DryGapHard, world.wbgt)
    <3>1. PICK p \in Marks(set, end) \X Marks(set, end) : NextTo(Marks(set, end), p) /\ gap = p[2] - p[1]
      BY <2>2, <2>4, WidestGapIs
    <3>2. p[1] \in 0 .. end /\ p[2] \in 0 .. end /\ set \subseteq Marks(set, end)
      <4>1. Marks(set, end) \subseteq 0 .. end /\ set \subseteq Marks(set, end)
        BY <2>2 DEF Marks
      <4>2. p[1] \in Marks(set, end) /\ p[2] \in Marks(set, end)
        BY <3>1
      <4> QED  BY <4>1, <4>2
    <3>3. 0 < gap
      <4>1. gap \in Int /\ gap <= gap
        BY <3>1, <3>2
      <4> QED  BY <2>2, <2>6, <4>1, WiderExceeds
    <3>4. p[1] < p[2]
      BY <3>1, <3>2, <3>3
    <3>5. Dry(p[1], p[2])
      BY <2>2, <2>5, <3>1, <3>2 DEF NextTo
    <3> QED  BY <2>6, <3>1, <3>2, <3>4, <3>5
  <2>7. ASSUME NEW a \in 0 .. end, NEW b \in 0 .. end, a < b, Dry(a, b), Exceeds(b - a, DryGapHard, world.wbgt)
        PROVE  Exceeds(gap, DryGapHard, world.wbgt)
    <3>1. b - a <= gap
      <4>1. a \in Nat /\ b \in Nat
        OBVIOUS
      <4>2. \A m \in set : m <= a \/ b <= m
        BY <2>5, <2>7, <4>1
      <4> QED  BY <2>2, <2>4, <2>7, <4>2, DryIsInAGap
    <3>2. gap \in Int /\ b - a \in Int
      BY <2>2, <2>4, WidestGapIs
    <3> QED  BY <2>2, <2>7, <3>1, <3>2, WiderExceeds
  <2> QED  BY <2>3, <2>6, <2>7 DEF end
<1> QED  BY <1>1, JudgeInvHolds, PTL

-----------------------------------------------------------------------------
\* ---- a line and its cuts
\* Every distance before the end is on one segment, the last that begins before it.
LEMMA OneSegment ==
  ASSUME NEW w, Cut(w.start), NEW d \in Nat, d < Length(w)
  PROVE  \E i \in Segments : SegmentAt(w, d) = {i} /\ w.start[i] <= d /\ d < w.start[i + 1]
<1> DEFINE begun == {i \in Segments : w.start[i] <= d}
           left == {N - i : i \in begun}
<1>0. /\ N \in Nat \ {0} /\ \A i \in 1 .. N + 1 : w.start[i] \in Nat
      /\ w.start[1] = 0 /\ \A i, j \in 1 .. N + 1 : i < j => w.start[i] < w.start[j]
  BY ScoringAssumption DEF Cut
<1>1. left \subseteq Nat /\ left # {}
  <2>1. \A i \in begun : N - i \in Nat
    BY <1>0 DEF Segments
  <2>2. 1 \in begun
    BY <1>0 DEF Segments
  <2> QED  BY <2>1, <2>2
<1>2. PICK s \in left : \A t \in left : s <= t
  <2> HIDE DEF left
  <2> QED  BY <1>1, LeastOne
<1>3. PICK i \in begun : s = N - i
  OBVIOUS
<1>4. \A j \in begun : j <= i
  <2> SUFFICES ASSUME NEW j \in begun PROVE j <= i
    OBVIOUS
  <2>1. s <= N - j
    BY <1>2
  <2> QED  BY <1>0, <1>3, <2>1 DEF Segments
<1>5. i \in 1 .. N /\ w.start[i] <= d /\ d < w.start[i + 1]
  <2>1. CASE i = N
    BY <1>0, <2>1 DEF Length, Segments
  <2>2. CASE i # N
    <3>1. i + 1 \in Segments /\ i + 1 \notin begun
      BY <1>0, <1>4, <2>2 DEF Segments
    <3> QED  BY <1>0, <3>1 DEF Segments
  <2> QED  BY <2>1, <2>2
<1>6. SegmentAt(w, d) = {i}
  <2>1. ASSUME NEW j \in SegmentAt(w, d) PROVE j = i
    <3>1. j \in 1 .. N /\ w.start[j] <= d /\ d < w.start[j + 1]
      BY <1>0, <2>1 DEF SegmentAt, Segments, Begins, Length
    <3>2. ~(j < i) /\ ~(i < j)
      <4>1. ASSUME NEW x \in 1 .. N, NEW y \in 1 .. N, x < y PROVE w.start[x + 1] <= w.start[y]
        <5>1. x + 1 \in 1 .. N + 1 /\ y \in 1 .. N + 1 /\ (x + 1 = y \/ x + 1 < y)
          BY <1>0, <4>1
        <5> QED  BY <1>0, <5>1
      <4>2. /\ w.start[i] \in Nat /\ w.start[j] \in Nat
            /\ w.start[i + 1] \in Nat /\ w.start[j + 1] \in Nat
        BY <1>0, <1>5, <3>1
      <4>3. ASSUME j < i PROVE FALSE
        BY <1>5, <3>1, <4>1, <4>2, <4>3
      <4>4. ASSUME i < j PROVE FALSE
        BY <1>5, <3>1, <4>1, <4>2, <4>4
      <4> QED  BY <4>3, <4>4
    <3> QED  BY <1>5, <3>1, <3>2
  <2>2. i \in SegmentAt(w, d)
    BY <1>5 DEF SegmentAt, Segments, Begins
  <2> QED  BY <2>1, <2>2
<1> QED  BY <1>5, <1>6 DEF Segments

\* Segments of a set that follow one another are part of a stretch of the set.
LEMMA InAStretch ==
  ASSUME NEW set \in SUBSET Segments, NEW i \in Segments, NEW j \in Segments, i <= j, i .. j \subseteq set
  PROVE  \E r \in Stretches(set) : r[1] <= i /\ j <= r[2]
<1>0. N \in Nat \ {0} /\ Segments = 1 .. N
  BY ScoringAssumption DEF Segments
<1> DEFINE starts == {k \in 1 .. i : k .. j \subseteq set}
           ends == {N - k : k \in {n \in j .. N : i .. n \subseteq set}}
<1>1. PICK low \in starts : \A k \in starts : low <= k
  <2>1. starts \subseteq Nat /\ i \in starts
    BY <1>0
  <2> HIDE DEF starts
  <2> QED  BY <2>1, LeastOne
<1>2. PICK high \in j .. N : i .. high \subseteq set /\ \A k \in j .. N : i .. k \subseteq set => k <= high
  <2>1. ends \subseteq Nat /\ ends # {}
    <3>1. N - j \in ends
      BY <1>0
    <3>2. \A n \in j .. N : N - n \in Nat
      BY <1>0
    <3>3. ends \subseteq {N - n : n \in j .. N}
      OBVIOUS
    <3> HIDE DEF ends
    <3>4. ends \subseteq Nat
      BY <3>2, <3>3
    <3> QED  BY <3>1, <3>4
  <2>2. PICK s \in ends : \A t \in ends : s <= t
    <3> HIDE DEF ends
    <3> QED  BY <2>1, LeastOne
  <2>3. PICK high \in j .. N : i .. high \subseteq set /\ s = N - high
    OBVIOUS
  <2>4. ASSUME NEW k \in j .. N, i .. k \subseteq set PROVE k <= high
    <3>1. s <= N - k
      BY <2>2, <2>4
    <3> QED  BY <1>0, <2>3, <3>1
  <2> QED  BY <2>3, <2>4
<1>3. low \in 1 .. i /\ low .. high \subseteq set
  BY <1>0, <1>1, <1>2
<1>4. low - 1 \notin set
  <2> SUFFICES ASSUME low - 1 \in set PROVE FALSE
    OBVIOUS
  <2>1. low - 1 \in 1 .. i /\ (low - 1) .. j \subseteq set
    BY <1>0, <1>1, <1>3
  <2>2. low <= low - 1
    BY <1>1, <2>1
  <2> QED  BY <1>3, <2>2
<1>5. high + 1 \notin set
  <2> SUFFICES ASSUME high + 1 \in set PROVE FALSE
    OBVIOUS
  <2>1. high + 1 \in j .. N /\ i .. (high + 1) \subseteq set
    BY <1>0, <1>2
  <2>2. high + 1 <= high
    BY <1>2, <2>1
  <2> QED  BY <1>2, <2>2
<1>6. <<low, high>> \in Stretches(set)
  BY <1>0, <1>2, <1>3, <1>4, <1>5 DEF Stretches
<1> QED  BY <1>0, <1>2, <1>3, <1>6

\* A cut is not before an earlier one.
LEMMA CutsAreOrdered ==
  ASSUME NEW w, Cut(w.start)
  PROVE  /\ N \in Nat \ {0} /\ Segments = 1 .. N /\ Length(w) \in Nat /\ Length(w) = w.start[N + 1]
         /\ \A i \in 1 .. N : /\ i \in 1 .. N + 1 /\ i + 1 \in 1 .. N + 1
                             /\ w.start[i] \in Nat /\ w.start[i + 1] \in Nat /\ w.start[i] < w.start[i + 1]
                             /\ w.start[i + 1] <= Length(w)
         /\ \A i, j \in 1 .. N : i <= j => w.start[i] <= w.start[j] /\ w.start[i + 1] <= w.start[j + 1]
         /\ \A i, j \in 1 .. N : i < j => w.start[i + 1] <= w.start[j]
<1>0. /\ N \in Nat \ {0} /\ Segments = 1 .. N
      /\ \A i \in 1 .. N + 1 : w.start[i] \in Nat
      /\ \A i, j \in 1 .. N + 1 : i < j => w.start[i] < w.start[j]
  BY ScoringAssumption DEF Cut, Segments
<1>1. \A i, j \in 1 .. N + 1 : i <= j => w.start[i] <= w.start[j]
  BY <1>0
<1>2. \A i \in 1 .. N : i \in 1 .. N + 1 /\ i + 1 \in 1 .. N + 1 /\ i + 1 <= N + 1 /\ i < i + 1
  BY <1>0
<1>3. N + 1 \in 1 .. N + 1 /\ Length(w) = w.start[N + 1]
  BY <1>0 DEF Length
<1>4. \A i, j \in 1 .. N : (i <= j => i + 1 <= j + 1) /\ (i < j => i + 1 <= j)
  BY <1>0
<1> QED  BY <1>0, <1>1, <1>2, <1>3, <1>4

\* A flagged stretch is that long on the ground.
LEMMA SustainedIsThere ==
  ASSUME NEW w, Cut(w.start), NEW set \in SUBSET Segments, NEW least \in Nat \ {0}
  PROVE  Sustained(w, set, least) # {}
           <=> \E a \in 0 .. Length(w) : \A d \in a .. (a + least - 1) :
                 d < Length(w) /\ \E i \in SegmentAt(w, d) : i \in set
<1>0. /\ N \in Nat \ {0} /\ Segments = 1 .. N /\ Length(w) \in Nat
      /\ \A i \in 1 .. N : /\ w.start[i] \in Nat /\ w.start[i + 1] \in Nat /\ w.start[i] < w.start[i + 1]
                          /\ w.start[i + 1] <= Length(w)
      /\ \A i, j \in 1 .. N : i <= j => w.start[i] <= w.start[j] /\ w.start[i + 1] <= w.start[j + 1]
      /\ \A i, j \in 1 .. N : i < j => w.start[i + 1] <= w.start[j]
  BY CutsAreOrdered
<1>1. ASSUME NEW r \in Sustained(w, set, least)
      PROVE  \E a \in 0 .. Length(w) : \A d \in a .. (a + least - 1) :
               d < Length(w) /\ \E i \in SegmentAt(w, d) : i \in set
  <2>1. PICK p \in 1 .. N, q \in 1 .. N : p <= q /\ p .. q \subseteq set /\ w.start[q + 1] - w.start[p] >= least
    BY <1>0 DEF Sustained, Stretches, Span
  <2> DEFINE a == w.start[p]
             z == w.start[q + 1]
  <2>2. a \in 0 .. Length(w) /\ z \in Nat /\ z <= Length(w) /\ z - a >= least
    <3>1. a \in Nat /\ w.start[p + 1] \in Nat /\ a < w.start[p + 1] /\ w.start[p + 1] <= Length(w)
      BY <1>0
    <3>2. z \in Nat /\ z <= Length(w) /\ z - a >= least
      BY <1>0, <2>1
    <3> HIDE DEF a, z
    <3> QED  BY <1>0, <3>1, <3>2
  <2>3. ASSUME NEW d \in a .. (a + least - 1)
        PROVE  d < Length(w) /\ \E i \in SegmentAt(w, d) : i \in set
    <3>1. d \in Nat /\ a <= d /\ d < z
      <4> HIDE DEF a, z
      <4> QED  BY <2>2
    <3>2. d < Length(w)
      BY <1>0, <2>2, <3>1
    <3>3. PICK i \in 1 .. N : SegmentAt(w, d) = {i} /\ w.start[i] <= d /\ d < w.start[i + 1]
      BY <1>0, <3>1, <3>2, OneSegment
    <3>4. ~(i < p)
      <4> SUFFICES ASSUME i < p PROVE FALSE
        OBVIOUS
      <4>1. w.start[i + 1] <= a /\ w.start[i + 1] \in Nat
        BY <1>0, <2>1
      <4> QED  BY <2>2, <3>1, <3>3, <4>1
    <3>5. ~(q < i)
      <4> SUFFICES ASSUME q < i PROVE FALSE
        OBVIOUS
      <4>1. z <= w.start[i] /\ w.start[i] \in Nat
        BY <1>0, <2>1
      <4> QED  BY <2>2, <3>1, <3>3, <4>1
    <3>6. i \in p .. q
      BY <3>4, <3>5
    <3> QED  BY <2>1, <3>2, <3>3, <3>6
  <2> QED  BY <2>2, <2>3
<1>2. ASSUME NEW a \in 0 .. Length(w),
             \A d \in a .. (a + least - 1) : d < Length(w) /\ \E i \in SegmentAt(w, d) : i \in set
      PROVE  Sustained(w, set, least) # {}
  <2> DEFINE z == a + least - 1
  <2>1. a \in Nat /\ z \in Nat /\ a <= z /\ a < Length(w) /\ z < Length(w) /\ a \in a .. z
    BY <1>0, <1>2
  <2>2. PICK i \in 1 .. N : SegmentAt(w, a) = {i} /\ w.start[i] <= a /\ a < w.start[i + 1]
    BY <1>0, <2>1, OneSegment
  <2>3. PICK j \in 1 .. N : SegmentAt(w, z) = {j} /\ w.start[j] <= z /\ z < w.start[j + 1]
    BY <1>0, <2>1, OneSegment
  <2>4. i <= j
    <3> SUFFICES ASSUME j < i PROVE FALSE
      OBVIOUS
    <3>1. w.start[j + 1] <= w.start[i] /\ w.start[j + 1] \in Nat /\ w.start[i] \in Nat
      BY <1>0
    <3> QED  BY <2>1, <2>2, <2>3, <3>1
  <2>5. ASSUME NEW k \in i .. j PROVE k \in set
    <3>1. CASE k = i
      BY <1>2, <2>1, <2>2, <3>1
    <3>2. CASE k # i
      <4>1. k \in 1 .. N /\ w.start[k] \in Nat /\ w.start[k] < w.start[k + 1]
        BY <1>0, <2>4
      <4>2. /\ w.start[i + 1] <= w.start[k] /\ w.start[k] <= w.start[j]
            /\ w.start[i + 1] \in Nat /\ w.start[j] \in Nat
        BY <1>0, <2>4, <3>2, <4>1
      <4>3. w.start[k] \in a .. z
        <5>1. a <= w.start[k] /\ w.start[k] <= z
          <6> HIDE DEF z
          <6>1. a \in Nat /\ z \in Nat /\ a < w.start[i + 1] /\ w.start[j] <= z
            BY <2>1, <2>2, <2>3
          <6> QED  BY ONLY <4>1, <4>2, <6>1
        <5> HIDE DEF z
        <5> QED  BY <2>1, <4>1, <5>1
      <4>4. k \in SegmentAt(w, w.start[k])
        BY <1>0, <4>1 DEF SegmentAt, Begins
      <4>5. PICK n \in SegmentAt(w, w.start[k]) : n \in set
        BY <1>2, <4>3
      <4>6. w.start[k] < Length(w)
        BY <1>2, <4>3
      <4>7. \E x : SegmentAt(w, w.start[k]) = {x}
        BY <4>1, <4>6, OneSegment
      <4> QED  BY <4>4, <4>5, <4>7
    <3> QED  BY <3>1, <3>2
  <2>6. PICK r \in Stretches(set) : r[1] <= i /\ j <= r[2]
    BY <1>0, <2>4, <2>5, InAStretch
  <2>7. PICK p \in 1 .. N, q \in 1 .. N : r[1] = p /\ r[2] = q /\ p <= i /\ j <= q
    BY <1>0, <2>6 DEF Stretches
  <2>8. /\ w.start[p] <= w.start[i] /\ w.start[j + 1] <= w.start[q + 1]
        /\ w.start[p] \in Nat /\ w.start[q + 1] \in Nat /\ w.start[i] \in Nat /\ w.start[j + 1] \in Nat
    BY <1>0, <2>7
  <2>9. w.start[q + 1] - w.start[p] >= least
    <3>1. w.start[i] <= a /\ a \in Nat /\ z < w.start[j + 1] /\ z = a + least - 1
      BY <2>1, <2>2, <2>3
    <3>2. least \in Int /\ z \in Int
      BY <2>1
    <3> HIDE DEF z
    <3>3. w.start[p] <= a
      BY <2>8, <3>1
    <3>4. z < w.start[q + 1]
      BY <2>8, <3>1, <3>2
    <3>5. w.start[p] \in Int /\ w.start[q + 1] \in Int
      BY <2>8
    <3> QED  BY <3>1, <3>2, <3>3, <3>4, <3>5
  <2> QED  BY <2>6, <2>7, <2>9 DEF Sustained, Span
<1> QED  BY <1>1, <1>2

\* However a line is cut, surface_profile flags a sustained surface if, and only if, the line
\* has that much of it without a break.
THEOREM SustainedStretchesAreFlagged == SpecJudge => []SustainedIsOnTheGround
<1>1. JudgeInv => SustainedIsOnTheGround
  <2> SUFFICES ASSUME JudgeInv, Judged, subject = "surface_profile", world.ways,
                      profile.surface \in DOMAIN FlaggedClass
               PROVE  (\E f \in result.flags : f.code = "sustained_surface")
                        <=> SustainedOnTheGround(FlaggedClass[profile.surface])
    BY DEF SustainedIsOnTheGround
  <2> DEFINE class == FlaggedClass[profile.surface]
             set == OfClass(world, class)
  <2>1. Cut(world.start) /\ set \in SUBSET Segments
    BY ScorersAssumption DEF JudgeInv, OfClass, Tagged
  <2>2. result.flags = SurfaceFlags(world, profile)
    <3>1. result = Surface(world, profile)
      BY DEF JudgeInv, Score
    <3> QED  BY <3>1 DEF Surface, Result
  <2>3. (\E f \in result.flags : f.code = "sustained_surface") <=> Sustained(world, set, SustainedSurface) # {}
    <3> DEFINE long == Sustained(world, set, SustainedSurface)
               worn == Sustained(world, InRoadway(world), SustainedShoulder)
    <3>1. result.flags = {Soft("surface_profile", r[1], "sustained_surface") : r \in long}
                           \cup {Soft("surface_profile", r[1], "sustained_shoulder_running") : r \in worn}
      BY <2>2 DEF SurfaceFlags
    <3> HIDE DEF long, worn
    <3>2. ASSUME NEW r \in long PROVE \E f \in result.flags : f.code = "sustained_surface"
      <4>1. Soft("surface_profile", r[1], "sustained_surface") \in result.flags
        BY <3>1
      <4> QED  BY <4>1 DEF Soft
    <3>3. ASSUME NEW f \in result.flags, f.code = "sustained_surface" PROVE long # {}
      BY <3>1, <3>3 DEF Soft
    <3>4. (\E f \in result.flags : f.code = "sustained_surface") <=> long # {}
      BY <3>2, <3>3
    <3> QED  BY <3>4 DEF long
  <2>4. \A d : OnSurface(class, d) <=> \E i \in SegmentAt(world, d) : i \in set
    BY DEF OnSurface, OfClass, Tagged, SegmentAt
  <2> HIDE DEF class, set
  <2>5. SustainedSurface \in Nat \ {0}
    BY DEF SustainedSurface
  <2>6. Sustained(world, set, SustainedSurface) # {} <=> SustainedOnTheGround(class)
    BY <2>1, <2>4, <2>5, SustainedIsThere DEF SustainedOnTheGround
  <2> QED  BY <2>3, <2>6 DEF class
<1> QED  BY <1>1, JudgeInvHolds, PTL

-----------------------------------------------------------------------------
\* ---- opening hours: what is unknown of them, however it turns out
Rulings == {TRUE, FALSE, Unknown}
Ruled(rules, day, moment, n, before) ==
  IF n \notin Effective(rules, day) THEN before
  ELSE CASE Covers(rules[n], moment) = TRUE -> rules[n].state
         [] Covers(rules[n], moment) = Unknown /\ before # rules[n].state -> Unknown
         [] OTHER -> before

\* What holds after each rule.
RuledBy(rules, day, moment, f) ==
  /\ f[0] = FALSE /\ StateOn(rules, day, moment) = f[Len(rules)]
  /\ \A n \in 1 .. Len(rules) : f[n] = Ruled(rules, day, moment, n, f[n - 1])
LEMMA StateIsOfAChain ==
  ASSUME NEW rules \in Seq(Rule), NEW day, NEW moment
  PROVE  \E f : RuledBy(rules, day, moment, f)
<1> DEFINE len == Len(rules)
           step == [x \in (0 .. len) \X Rulings |->
                      IF x[1] = 0 THEN FALSE ELSE Ruled(rules, day, moment, x[1], x[2])]
<1>1. len \in Nat /\ \A n \in 1 .. len : rules[n] \in Rule
  OBVIOUS
<1> HIDE DEF len
<1>2. step \in [(0 .. len) \X Rulings -> Rulings]
  <2> SUFFICES ASSUME NEW n \in 0 .. len, NEW before \in Rulings, n # 0
               PROVE  Ruled(rules, day, moment, n, before) \in Rulings
    BY DEF Rulings
  <2>1. rules[n] \in Rule
    BY <1>1
  <2>2. rules[n].state \in Rulings
    BY <2>1 DEF Rule, Rulings
  <2> QED  BY <2>2 DEF Ruled, Rulings
<1>3. \A n \in 0 .. len, before \in Rulings : n # 0 => step[<<n, before>>] = Ruled(rules, day, moment, n, before)
  OBVIOUS
<1> HIDE DEF step
<1>4. PICK f \in [0 .. len -> Rulings] : Steps(f, 0, len, FALSE, step)
  <2>1. FALSE \in Rulings /\ 0 \in Nat /\ 0 <= len
    BY <1>1 DEF Rulings
  <2> QED  BY <1>1, <1>2, <2>1, StepsOf
<1>5. \A n \in 0 .. len : f[n] = IF n = 0 THEN FALSE ELSE Ruled(rules, day, moment, n, f[n - 1])
  <2> SUFFICES ASSUME NEW n \in 0 .. len, n # 0 PROVE f[n] = Ruled(rules, day, moment, n, f[n - 1])
    BY <1>4 DEF Steps
  <2>1. n - 1 \in 0 .. len /\ f[n - 1] \in Rulings
    BY <1>1, <1>4
  <2> QED  BY <1>3, <1>4, <2>1 DEF Steps
<1> DEFINE Body(g) == [n \in 0 .. Len(rules) |->
                         IF n = 0 THEN FALSE
                         ELSE IF n \notin Effective(rules, day) THEN g[n - 1]
                         ELSE CASE Covers(rules[n], moment) = TRUE -> rules[n].state
                                [] Covers(rules[n], moment) = Unknown /\ g[n - 1] # rules[n].state -> Unknown
                                [] OTHER -> g[n - 1]]
           state[n \in 0 .. Len(rules)] ==
             IF n = 0 THEN FALSE
             ELSE IF n \notin Effective(rules, day) THEN state[n - 1]
             ELSE CASE Covers(rules[n], moment) = TRUE -> rules[n].state
                    [] Covers(rules[n], moment) = Unknown /\ state[n - 1] # rules[n].state -> Unknown
                    [] OTHER -> state[n - 1]
<1>6. f = Body(f)
  BY <1>4, <1>5 DEF Ruled, len
<1>7. state = Body(state)
  BY <1>6
<1>8. StateOn(rules, day, moment) = state[Len(rules)]
  BY DEF StateOn
<1> HIDE DEF state
<1>9. state[0] = FALSE
  BY <1>1, <1>7 DEF len
<1>10. ASSUME NEW n \in 1 .. Len(rules) PROVE state[n] = Ruled(rules, day, moment, n, state[n - 1])
  <2>1. n \in 0 .. Len(rules) /\ n # 0
    BY <1>1 DEF len
  <2> QED  BY <1>7, <2>1 DEF Ruled
<1> QED  BY <1>8, <1>9, <1>10 DEF RuledBy

\* A rule that is filled in is about the same days, and covers what it was known to cover.
LEMMA FilledRule ==
  ASSUME NEW rule \in Rule, NEW filled \in Fillings(rule), NEW moment
  PROVE  /\ filled.days = rule.days /\ filled.additional = rule.additional
         /\ rule.state = Unknown \/ filled.state = rule.state
         /\ filled \in Rule /\ filled.state \in BOOLEAN
         /\ Covers(filled, moment) \in BOOLEAN
         /\ Covers(rule, moment) = Unknown \/ Covers(filled, moment) = Covers(rule, moment)
<1> DEFINE Fill(m, n) == {<<IF s[1] = Unknown THEN m ELSE s[1], IF s[2] = Unknown THEN n ELSE s[2]>> : s \in rule.spans}
           Made(s, t) == [days |-> rule.days, spans |-> s, state |-> t, additional |-> rule.additional]
<1>30. /\ rule.days \in SUBSET Weekdays /\ rule.spans \in SUBSET (Times \X Times)
      /\ rule.state \in {TRUE, FALSE, Unknown} /\ rule.additional \in BOOLEAN
      /\ rule = Made(rule.spans, rule.state)
  BY DEF Rule
<1>0. /\ rule.days \in SUBSET Weekdays /\ rule.spans \in SUBSET (Times \X Times) /\ rule.state \in Rulings
      /\ rule.additional \in BOOLEAN
  BY <1>30 DEF Rulings
<1>1. PICK m \in Moments, n \in Moments, state \in IF rule.state = Unknown THEN BOOLEAN ELSE {rule.state} :
        filled = Made(Fill(m, n), state)
  <2> HIDE DEF Made
  <2>1. PICK s \in Guesses(rule.spans), t \in IF rule.state = Unknown THEN BOOLEAN ELSE {rule.state} :
          filled = Made(s, t)
    BY DEF Fillings, Made
  <2>2. PICK m \in Moments, n \in Moments : s = Fill(m, n)
    BY <2>1 DEF Guesses
  <2> QED  BY <2>1, <2>2
<1>2. m \in Int /\ n \in Int /\ Unknown \notin Int /\ Unknown \notin BOOLEAN
  <2>1. 0 .. DayLength - 1 \subseteq Int
    OBVIOUS
  <2>2. Unknown \notin Int /\ Unknown \notin BOOLEAN
    BY ScoringAssumption
  <2> QED  BY <2>1, <2>2 DEF Moments
<1>3. state \in BOOLEAN /\ (rule.state = Unknown \/ state = rule.state)
  BY <1>0, <1>1 DEF Rulings
<1>4. \A s \in rule.spans : s[1] \in Times /\ s[2] \in Times
  BY <1>0
<1>5. Fill(m, n) \in SUBSET (Times \X Times) /\ \A t \in Fill(m, n) : Resolved(t)
  BY <1>2, <1>4 DEF Times, Resolved
<1>6. \A s \in rule.spans : Resolved(s) => <<s[1], s[2]>> \in Fill(m, n)
  BY DEF Resolved
<1>7. (\A s \in rule.spans : Resolved(s)) => \A t \in Fill(m, n) : \E s \in rule.spans : t = <<s[1], s[2]>>
  BY DEF Resolved
<1>8. rule.spans = {} <=> Fill(m, n) = {}
  OBVIOUS
<1> DEFINE spans == Fill(m, n)
<1>9. filled.spans = spans /\ filled.days = rule.days /\ filled.additional = rule.additional /\ filled.state = state
  BY <1>1
<1>10. filled \in Rule
  BY <1>0, <1>1, <1>3, <1>5 DEF Rule
<1> HIDE DEF spans, Fill
<1>11. Covers(filled, moment) \in BOOLEAN
  <2>1. CASE spans = {}
    <3>1. Covers(filled, moment) = (moment \in Moments)
      BY <1>9, <2>1 DEF Covers
    <3> QED  BY <3>1
  <2>2. CASE spans # {}
    <3>1. \A t \in spans : Resolved(t)
      BY <1>5 DEF spans
    <3> QED  BY <1>9, <2>2, <3>1 DEF Covers
  <2> QED  BY <2>1, <2>2
<1> DEFINE In(t) == t[1] <= moment /\ moment <= Until(t)
<1>12. Covers(rule, moment) = Unknown \/ Covers(filled, moment) = Covers(rule, moment)
  <2>1. CASE rule.spans = {}
    BY <1>8, <1>9, <2>1 DEF Covers, spans
  <2>2. CASE rule.spans # {} /\ \E s \in rule.spans : Resolved(s) /\ In(s)
    <3>1. PICK s \in rule.spans : Resolved(s) /\ In(s)
      BY <2>2
    <3>2. <<s[1], s[2]>> \in spans /\ Resolved(<<s[1], s[2]>>) /\ In(<<s[1], s[2]>>)
      BY <1>6, <3>1 DEF Resolved, Until, spans
    <3>3. Covers(filled, moment) = TRUE
      BY <1>9, <3>2 DEF Covers
    <3>4. Covers(rule, moment) = TRUE
      BY <2>2 DEF Covers
    <3> QED  BY <3>3, <3>4
  <2>3. CASE rule.spans # {} /\ ~\E s \in rule.spans : Resolved(s) /\ In(s)
    <3>1. CASE \E s \in rule.spans : ~Resolved(s)
      <4>1. Covers(rule, moment) = Unknown
        BY <2>3, <3>1 DEF Covers
      <4> QED  BY <4>1
    <3>2. CASE \A s \in rule.spans : Resolved(s)
      <4>1. Covers(rule, moment) = FALSE
        BY <2>3, <3>2 DEF Covers
      <4>2. \A t \in spans : Resolved(t) /\ ~In(t)
        <5>1. ASSUME NEW t \in spans PROVE ~In(t)
          <6>1. PICK s \in rule.spans : t = <<s[1], s[2]>>
            BY <1>7, <3>2 DEF spans
          <6>2. In(t) <=> In(s)
            BY <6>1 DEF Until
          <6> QED  BY <2>3, <3>2, <6>1, <6>2
        <5> QED  BY <1>5, <5>1 DEF spans
      <4>3. Covers(filled, moment) = FALSE
        BY <1>8, <1>9, <2>3, <4>2 DEF Covers, spans
      <4> QED  BY <4>1, <4>3
    <3> QED  BY <3>1, <3>2
  <2> QED  BY <2>1, <2>2, <2>3
<1> QED  BY <1>3, <1>9, <1>10, <1>11, <1>12

\* What is not unknown stays so, rule by rule.
LEMMA FilledRulesAgree ==
  ASSUME NEW rules \in Seq(Rule), NEW filled \in FilledRules(rules), NEW day, NEW moment
  PROVE  StateOn(rules, day, moment) = Unknown \/ StateOn(filled, day, moment) = StateOn(rules, day, moment)
<1> DEFINE len == Len(rules)
<1>1. /\ len \in Nat /\ DOMAIN rules = 1 .. len /\ \A n \in 1 .. len : rules[n] \in Rule
  OBVIOUS
<1>2. DOMAIN filled = 1 .. len /\ \A n \in 1 .. len : filled[n] \in Fillings(rules[n])
  BY <1>1 DEF FilledRules
<1>3. \A n \in 1 .. len : filled[n] \in Rule
  BY <1>1, <1>2, FilledRule
<1>4. filled \in Seq(Rule) /\ Len(filled) = len
  <2>1. filled = [n \in 1 .. len |-> filled[n]]
    BY <1>1 DEF FilledRules
  <2>2. filled \in [1 .. len -> Rule]
    BY <1>3, <2>1
  <2> HIDE DEF len
  <2>3. filled \in Seq(Rule)
    BY <1>1, <2>2, SeqDef
  <2>4. Len(filled) \in Nat /\ 1 .. Len(filled) = 1 .. len
    BY <1>2, <2>3, LenProperties
  <2>5. ASSUME Len(filled) < len PROVE FALSE
    <3>1. len \in 1 .. len
      BY <1>1, <2>4, <2>5
    <3> QED  BY <1>1, <2>4, <2>5, <3>1
  <2>6. ASSUME len < Len(filled) PROVE FALSE
    <3>1. Len(filled) \in 1 .. Len(filled)
      BY <1>1, <2>4, <2>6
    <3> QED  BY <1>1, <2>4, <2>6, <3>1
  <2> QED  BY <1>1, <2>3, <2>4, <2>5, <2>6
<1>5. Effective(filled, day) = Effective(rules, day)
  <2>1. \A n \in 1 .. len : filled[n].days = rules[n].days /\ filled[n].additional = rules[n].additional
    BY <1>1, <1>2, FilledRule
  <2> QED  BY <1>1, <1>2, <2>1 DEF Effective
<1>6. PICK f : RuledBy(rules, day, moment, f)
  BY StateIsOfAChain
<1>7. PICK g : RuledBy(filled, day, moment, g)
  BY <1>4, StateIsOfAChain
<1>20. /\ f[0] = FALSE /\ StateOn(rules, day, moment) = f[len]
      /\ \A n \in 1 .. len : f[n] = Ruled(rules, day, moment, n, f[n - 1])
  BY <1>6 DEF RuledBy
<1>21. /\ g[0] = FALSE /\ StateOn(filled, day, moment) = g[len]
      /\ \A n \in 1 .. len : g[n] = Ruled(filled, day, moment, n, g[n - 1])
  BY <1>4, <1>7 DEF RuledBy
<1> HIDE DEF len
<1> DEFINE T == {n \in 0 .. len : f[n] = Unknown \/ g[n] = f[n]}
<1>8. 0 \in T
  <2>1. g[0] = f[0]
    BY <1>20, <1>21, Zenon
  <2>2. 0 \in 0 .. len
    BY <1>1
  <2> QED  BY <2>1, <2>2
<1>9. ASSUME NEW k \in 0 .. len - 1, k \in T PROVE k + 1 \in T
  <2> DEFINE n == k + 1
  <2>1. n \in 1 .. len /\ n - 1 = k
    BY <1>1
  <2> HIDE DEF n
  <2>2. f[n] = Ruled(rules, day, moment, n, f[k]) /\ g[n] = Ruled(filled, day, moment, n, g[k])
    BY <1>20, <1>21, <2>1
  <2>3. /\ rules[n].state = Unknown \/ filled[n].state = rules[n].state
        /\ Covers(filled[n], moment) \in BOOLEAN /\ Unknown \notin BOOLEAN
        /\ Covers(rules[n], moment) = Unknown \/ Covers(filled[n], moment) = Covers(rules[n], moment)
    BY <1>1, <1>2, <2>1, FilledRule, ScoringAssumption
  <2>4. f[k] = Unknown \/ g[k] = f[k]
    BY <1>9
  <2>5. f[n] = Unknown \/ g[n] = f[n]
    <3>1. CASE n \notin Effective(rules, day)
      BY <1>5, <2>2, <2>4, <3>1 DEF Ruled
    <3>2. CASE n \in Effective(rules, day)
      BY <1>5, <2>2, <2>3, <2>4, <3>2 DEF Ruled
    <3> QED  BY <3>1, <3>2
  <2> QED  BY <1>1, <2>1, <2>5 DEF n
<1>10. len \in T
  <2> HIDE DEF T
  <2>1. \A n \in 0 .. len : n \in T
    BY <1>1, <1>8, <1>9, UpTo
  <2> QED  BY <1>1, <2>1
<1> QED  BY <1>20, <1>21, <1>10

\* What is read of a place's hours is rules, whichever parts were given up on.
LEMMA ReadPartIsRules ==
  ASSUME NEW rules \in Seq(Rule), NEW part \in Seq(Rule)
  PROVE  ReadPart(rules, part) \in Seq(Rule)
<1>1. CASE part = Unread
  BY <1>1 DEF ReadPart
<1>2. CASE part # Unread
  <2>1. part # <<>> /\ Head(part) \in Rule /\ Tail(part) \in Seq(Rule)
    BY <1>2 DEF Unread
  <2> DEFINE added == [Head(part) EXCEPT !.additional = TRUE]
  <2>2. added \in Rule
    BY <2>1 DEF Rule
  <2> HIDE DEF added
  <2>3. rules \o <<added>> \o Tail(part) \in Seq(Rule) /\ rules \o part \in Seq(Rule)
    BY <2>1, <2>2
  <2> QED  BY <1>2, <2>3 DEF ReadPart, added
<1> QED  BY <1>1, <1>2

LEMMA RulesOfIsRules ==
  ASSUME NEW parts \in Seq(Seq(Rule))
  PROVE  RulesOf(parts) \in Seq(Rule)
<1> DEFINE len == Len(parts)
           R == Seq(Rule)
           step == [x \in (0 .. len) \X R |-> IF x[1] = 0 THEN <<>> ELSE ReadPart(x[2], parts[x[1]])]
<1>1. len \in Nat /\ \A n \in 1 .. len : parts[n] \in R
  OBVIOUS
<1>2. <<>> \in R
  OBVIOUS
<1>3. \A rules \in R, part \in R : ReadPart(rules, part) \in R
  BY ReadPartIsRules
<1> HIDE DEF len, R
<1>4. step \in [(0 .. len) \X R -> R]
  <2> SUFFICES ASSUME NEW n \in 0 .. len, NEW before \in R, n # 0
               PROVE  ReadPart(before, parts[n]) \in R
    BY <1>2
  <2>1. parts[n] \in R
    BY <1>1
  <2> QED  BY <1>3, <2>1
<1>5. \A n \in 0 .. len, before \in R : n # 0 => step[<<n, before>>] = ReadPart(before, parts[n])
  OBVIOUS
<1> HIDE DEF step
<1>6. PICK f \in [0 .. len -> R] : Steps(f, 0, len, <<>>, step)
  <2>1. 0 \in Nat /\ 0 <= len
    BY <1>1
  <2> QED  BY <1>1, <1>2, <1>4, <2>1, StepsOf
<1>7. \A n \in 0 .. len : f[n] = IF n = 0 THEN <<>> ELSE ReadPart(f[n - 1], parts[n])
  <2> SUFFICES ASSUME NEW n \in 0 .. len, n # 0 PROVE f[n] = ReadPart(f[n - 1], parts[n])
    BY <1>6 DEF Steps
  <2>1. n - 1 \in 0 .. len /\ f[n - 1] \in R
    BY <1>1, <1>6
  <2> QED  BY <1>5, <1>6, <2>1 DEF Steps
<1> DEFINE Body(g) == [n \in 0 .. Len(parts) |-> IF n = 0 THEN <<>> ELSE ReadPart(g[n - 1], parts[n])]
           read[n \in 0 .. Len(parts)] == IF n = 0 THEN <<>> ELSE ReadPart(read[n - 1], parts[n])
<1>8. f = Body(f)
  BY <1>6, <1>7 DEF len
<1>9. read = Body(read)
  BY <1>8
<1>10. RulesOf(parts) = read[Len(parts)]
  BY DEF RulesOf
<1> HIDE DEF read
<1>11. read[0] = <<>>
  BY <1>1, <1>9 DEF len
<1>12. ASSUME NEW n \in 1 .. len PROVE read[n] = ReadPart(read[n - 1], parts[n])
  <2>1. n \in 0 .. Len(parts) /\ n # 0
    BY <1>1 DEF len
  <2> QED  BY <1>9, <2>1
<1> DEFINE T == {n \in 0 .. len : read[n] \in R}
<1>13. 0 \in T
  BY <1>1, <1>2, <1>11
<1>14. ASSUME NEW k \in 0 .. len - 1, k \in T PROVE k + 1 \in T
  <2> DEFINE n == k + 1
  <2>1. n \in 1 .. len /\ n \in 0 .. len /\ n - 1 = k
    BY <1>1
  <2> HIDE DEF n
  <2>2. read[n] = ReadPart(read[k], parts[n])
    BY <1>12, <2>1
  <2>3. parts[n] \in R /\ read[k] \in R
    BY <1>1, <1>14, <2>1
  <2> QED  BY <1>3, <2>1, <2>2, <2>3 DEF n
<1>15. read[len] \in R
  <2> HIDE DEF T
  <2>1. \A n \in 0 .. len : n \in T
    BY <1>1, <1>13, <1>14, UpTo
  <2>2. len \in 0 .. len
    BY <1>1
  <2> QED  BY <2>1, <2>2 DEF T
<1> QED  BY <1>10, <1>15 DEF len, R

\* The rules of a place say open, closed or unknown, and nothing else.
LEMMA StateOnIsARuling ==
  ASSUME NEW rules \in Seq(Rule), NEW day, NEW moment
  PROVE  StateOn(rules, day, moment) \in Rulings
<1> DEFINE len == Len(rules)
<1>1. len \in Nat /\ \A n \in 1 .. len : rules[n] \in Rule
  OBVIOUS
<1>2. PICK f : RuledBy(rules, day, moment, f)
  BY StateIsOfAChain
<1>3. /\ f[0] = FALSE /\ StateOn(rules, day, moment) = f[len]
      /\ \A n \in 1 .. len : f[n] = Ruled(rules, day, moment, n, f[n - 1])
  BY <1>2 DEF RuledBy
<1> HIDE DEF len
<1> DEFINE T == {n \in 0 .. len : f[n] \in Rulings}
<1>4. 0 \in T
  <2>1. f[0] \in Rulings
    BY <1>3 DEF Rulings
  <2>2. 0 \in 0 .. len
    BY <1>1
  <2> QED  BY <2>1, <2>2
<1>5. ASSUME NEW k \in 0 .. len - 1, k \in T PROVE k + 1 \in T
  <2> DEFINE n == k + 1
  <2>1. n \in 1 .. len /\ n \in 0 .. len /\ n - 1 = k
    BY <1>1
  <2> HIDE DEF n
  <2>2. f[n] = Ruled(rules, day, moment, n, f[k])
    BY <1>3, <2>1
  <2>3. rules[n].state \in Rulings
    BY <1>1, <2>1 DEF Rule, Rulings
  <2>4. f[n] \in Rulings
    BY <1>5, <2>2, <2>3 DEF Ruled, Rulings
  <2> QED  BY <2>1, <2>4 DEF n
<1>6. len \in T
  <2> HIDE DEF T
  <2>1. \A n \in 0 .. len : n \in T
    BY <1>1, <1>4, <1>5, UpTo
  <2>2. len \in 0 .. len
    BY <1>1
  <2> QED  BY <2>1, <2>2
<1> QED  BY <1>3, <1>6

\* A verdict of closed is one of every completion of the hours, and of hours all of which were read.
LEMMA ShutHoweverFilled ==
  ASSUME NEW parts \in Seq(Seq(Rule)), NEW day, NEW moment
  PROVE  ClosedForCertain(parts, day, moment)
<1> DEFINE hours == ReadHours(parts)
           today == StateOn(hours.rules, day, moment)
           spill == StateOn(hours.rules, DayBefore(day), moment + DayLength)
<1> SUFFICES ASSUME IsOpen(parts, day, moment) = FALSE
             PROVE  /\ \A i \in DOMAIN parts : parts[i] # Unread
                    /\ \A rules \in FilledRules(hours.rules) :
                         State([rules |-> rules, unread |-> FALSE], day, moment) = FALSE
  BY DEF ClosedForCertain
<1>1. hours.rules = RulesOf(parts) /\ (hours.unread <=> \E i \in DOMAIN parts : parts[i] = Unread)
  BY DEF ReadHours
<1>2. hours.rules \in Seq(Rule)
  BY <1>1, RulesOfIsRules
<1>3. State(hours, day, moment) = FALSE
  BY DEF IsOpen
<1> HIDE DEF hours
<1>4. today \in Rulings /\ spill \in Rulings
  BY <1>2, StateOnIsARuling
<1>5. today = FALSE /\ spill = FALSE /\ ~hours.unread
  <2>1. TRUE \notin {today, spill}
    BY <1>3 DEF State
  <2>2. ~(Unknown \in {today, spill} \/ hours.unread)
    BY <1>3, <2>1, ScoringAssumption DEF State
  <2> QED  BY <1>4, <2>1, <2>2 DEF Rulings
<1>6. ASSUME NEW rules \in FilledRules(hours.rules)
      PROVE  State([rules |-> rules, unread |-> FALSE], day, moment) = FALSE
  <2>0. today # Unknown /\ spill # Unknown
    BY <1>5, ScoringAssumption
  <2>1. StateOn(rules, day, moment) = today /\ StateOn(rules, DayBefore(day), moment + DayLength) = spill
    <3>1. StateOn(rules, day, moment) = today
      BY <1>2, <2>0, FilledRulesAgree
    <3>2. StateOn(rules, DayBefore(day), moment + DayLength) = spill
      BY <1>2, <2>0, FilledRulesAgree
    <3> QED  BY <3>1, <3>2
  <2> QED  BY <1>5, <2>1, ScoringAssumption DEF State
<1> QED  BY <1>1, <1>5, <1>6

\* Whatever its opening_hours say, resupply_schedule calls a place shut only if it is shut
\* however the sun events, states and parts that could not be read turn out.
THEOREM ClosedIsCertain == SpecJudge => []ShutIsCertain
<1>1. JudgeInv => ShutIsCertain
  <2> SUFFICES ASSUME JudgeInv, subject = "resupply_schedule", NEW p \in world.places
               PROVE  ClosedForCertain(p.hours, world.weekday, p.d)
    BY DEF ShutIsCertain
  <2>1. p.hours \in Seq(Seq(Rule))
    BY ScorersAssumption DEF JudgeInv
  <2> QED  BY <2>1, ShutHoweverFilled
<1> QED  BY <1>1, JudgeInvHolds, PTL

-----------------------------------------------------------------------------
\* ---- what is missing, and what the sheet says of it
\* The shape of a world, as assumed.
Worldly(name, w) ==
  /\ w = [f \in DOMAIN w |-> w[f]] /\ Given(name) \subseteq DOMAIN w
  /\ (SourceFields \cup AnswerFields) \cap DOMAIN w = MayMiss(name)
  /\ \A f \in MayMiss(name) \cap SourceFields : w[f] \in BOOLEAN
  /\ "nws" \in MayMiss(name) => 1 .. Sites \subseteq DOMAIN w.nws
  /\ "calls" \in Given(name) => w.calls \in Nat
  /\ "jurisdictions" \in MayMiss(name) =>
       \A j \in w.jurisdictions : /\ j = [id |-> j.id, agency |-> j.agency, answered |-> j.answered]
                                   /\ {j.agency, j.answered} \subseteq BOOLEAN

\* Something is said to be unknown.
Unchecked(outcome) == \E e \in outcome.coverage : ~e.checked
LEMMA SaysSo ==
  ASSUME NEW known, NEW flags, NEW coverage, NEW source, NotAsked(source) \in coverage
  PROVE  Unchecked(Result(known, flags, coverage))
  BY DEF Unchecked, Result, NotAsked, Entry
LEMMA EntrySaysSo ==
  ASSUME NEW outcome, NEW source, NEW checked, ~checked, Entry(source, checked) \in outcome.coverage
  PROVE  Unchecked(outcome)
  BY DEF Unchecked, Entry
LEMMA UnavailableSaysSo == \A source : Unchecked(Unavailable(source))
  BY DEF Unchecked, Unavailable, Result, NotAsked, Entry

\* A world of which nothing is missing is as it would be with every source there.
LEMMA NothingMissing ==
  ASSUME NEW name, NEW w, Worldly(name, w), MayMiss(name) \cap {"nws", "meteo", "air", "covered"} = {},
         \A f \in MayMiss(name) \cap SourceFields : w[f] = TRUE,
         "jurisdictions" \in MayMiss(name) => \A j \in w.jurisdictions : j.answered = TRUE
  PROVE  Revealed(w) = w
<1>1. ASSUME NEW f \in DOMAIN w PROVE Revealed(w)[f] = w[f]
  <2>1. CASE f \in SourceFields
    <3>1. w[f] = TRUE
      BY <1>1, <2>1 DEF Worldly
    <3>2. f \notin {"nws", "meteo", "air", "covered", "jurisdictions"}
      BY <2>1 DEF SourceFields
    <3> QED  BY <1>1, <2>1, <3>1, <3>2 DEF Revealed
  <2>2. CASE f = "jurisdictions"
    <3>1. \A j \in w.jurisdictions : [j EXCEPT !.answered = TRUE] = j
      BY <1>1, <2>2 DEF Worldly, AnswerFields
    <3>2. {[j EXCEPT !.answered = TRUE] : j \in w.jurisdictions} = w.jurisdictions
      BY <3>1
    <3>3. f \notin SourceFields /\ f \notin {"nws", "meteo", "air"} /\ f # "covered"
      BY <2>2 DEF SourceFields
    <3> QED  BY <1>1, <2>2, <3>2, <3>3 DEF Revealed
  <2>3. CASE f \notin SourceFields /\ f # "jurisdictions"
    <3>1. f \notin {"nws", "meteo", "air", "covered"}
      BY <1>1 DEF Worldly, AnswerFields
    <3> QED  BY <1>1, <2>3, <3>1 DEF Revealed
  <2> QED  BY <2>1, <2>2, <2>3
<1>2. Revealed(w) = [f \in DOMAIN w |-> Revealed(w)[f]] /\ DOMAIN Revealed(w) = DOMAIN w
  BY DEF Revealed
<1> QED  BY <1>1, <1>2 DEF Worldly

\* What a field of the revealed world is.
LEMMA FieldOf ==
  ASSUME NEW w, NEW f \in DOMAIN w
  PROVE  /\ f \in SourceFields => Revealed(w)[f] = TRUE
         /\ f \notin SourceFields \cup AnswerFields => Revealed(w)[f] = w[f]
         /\ f = "nws" => Revealed(w)[f] = Answering(w[f])
         /\ f = "covered" => Revealed(w)[f] = PointsOf
         /\ f = "jurisdictions" => Revealed(w)[f] = {[j EXCEPT !.answered = TRUE] : j \in w[f]}
  BY DEF Revealed, SourceFields, AnswerFields

Layered == {"legality", "segment_hostility", "crossings", "stop_density", "surface_profile", "lighting",
            "services_along", "resupply_schedule", "transit", "bailouts", "crew_points", "cell_coverage",
            "closures", "hazards"}
LEMMA LayersAreNamed ==
  ASSUME NEW name \in Layered, NEW w, NEW p, Worldly(name, w), name = "closures" => w.parks
  PROVE  Unchecked(Score(name, w, p)) \/ Revealed(w) = w
<1> USE SaysSo, UnavailableSaysSo
<1>1. CASE name = "legality"
  <2>1. MayMiss(name) = {"ways"}
    BY <1>1 DEF MayMiss
  <2>2. w.ways \in BOOLEAN
    BY <2>1 DEF Worldly, SourceFields
  <2>3. CASE ~w.ways
    BY <1>1, <2>2, <2>3 DEF Score, Legality
  <2>4. CASE w.ways
    BY <2>1, <2>2, <2>4, NothingMissing
  <2> QED  BY <2>2, <2>3, <2>4
<1>2. CASE name = "segment_hostility"
  <2>1. MayMiss(name) = {"ways"}
    BY <1>2 DEF MayMiss
  <2>2. w.ways \in BOOLEAN
    BY <2>1 DEF Worldly, SourceFields
  <2>3. CASE ~w.ways
    BY <1>2, <2>2, <2>3 DEF Score, Hostility
  <2>4. CASE w.ways
    BY <2>1, <2>2, <2>4, NothingMissing
  <2> QED  BY <2>2, <2>3, <2>4
<1>3. CASE name = "crossings"
  <2>1. MayMiss(name) = {"ways", "nodes"}
    BY <1>3 DEF MayMiss
  <2>2. w.ways \in BOOLEAN /\ w.nodes \in BOOLEAN
    BY <2>1 DEF Worldly, SourceFields
  <2>3. CASE ~w.ways
    BY <1>3, <2>2, <2>3 DEF Score, Crossings
  <2>4. CASE w.ways /\ ~w.nodes
    <3>1. Entry("nodes", w.nodes) \in Score(name, w, p).coverage
      BY <1>3, <2>4 DEF Score, Crossings, Result
    <3> QED  BY <2>4, <3>1, EntrySaysSo
  <2>5. CASE w.ways /\ w.nodes
    BY <2>1, <2>2, <2>5, NothingMissing
  <2> QED  BY <2>2, <2>3, <2>4, <2>5
<1>4. CASE name = "stop_density"
  <2>1. MayMiss(name) = {"nodes"}
    BY <1>4 DEF MayMiss
  <2>2. w.nodes \in BOOLEAN
    BY <2>1 DEF Worldly, SourceFields
  <2>3. CASE ~w.nodes
    BY <1>4, <2>2, <2>3 DEF Score, StopDensity
  <2>4. CASE w.nodes
    BY <2>1, <2>2, <2>4, NothingMissing
  <2> QED  BY <2>2, <2>3, <2>4
<1>5. CASE name = "surface_profile"
  <2>1. MayMiss(name) = {"ways"}
    BY <1>5 DEF MayMiss
  <2>2. w.ways \in BOOLEAN
    BY <2>1 DEF Worldly, SourceFields
  <2>3. CASE ~w.ways
    BY <1>5, <2>2, <2>3 DEF Score, Surface
  <2>4. CASE w.ways
    BY <2>1, <2>2, <2>4, NothingMissing
  <2> QED  BY <2>2, <2>3, <2>4
<1>6. CASE name = "lighting"
  <2>1. MayMiss(name) = {"ways"}
    BY <1>6 DEF MayMiss
  <2>2. w.ways \in BOOLEAN
    BY <2>1 DEF Worldly, SourceFields
  <2>3. CASE ~w.ways
    BY <1>6, <2>2, <2>3 DEF Score, Lighting
  <2>4. CASE w.ways
    BY <2>1, <2>2, <2>4, NothingMissing
  <2> QED  BY <2>2, <2>3, <2>4
<1>7. CASE name = "services_along"
  <2>1. MayMiss(name) = {"amenities", "parks"}
    BY <1>7 DEF MayMiss
  <2>2. w.amenities \in BOOLEAN /\ w.parks \in BOOLEAN
    BY <2>1 DEF Worldly, SourceFields
  <2>3. CASE ~w.amenities
    BY <1>7, <2>2, <2>3 DEF Score, Services
  <2>4. CASE w.amenities /\ ~w.parks
    <3>1. Entry("parks", w.parks) \in Score(name, w, p).coverage
      BY <1>7, <2>4 DEF Score, Services, Result
    <3> QED  BY <2>4, <3>1, EntrySaysSo
  <2>5. CASE w.amenities /\ w.parks
    BY <2>1, <2>2, <2>5, NothingMissing
  <2> QED  BY <2>2, <2>3, <2>4, <2>5
<1>8. CASE name = "resupply_schedule"
  <2>1. MayMiss(name) = {"amenities"}
    BY <1>8 DEF MayMiss
  <2>2. w.amenities \in BOOLEAN
    BY <2>1 DEF Worldly, SourceFields
  <2>3. CASE ~w.amenities
    BY <1>8, <2>2, <2>3 DEF Score, Resupply
  <2>4. CASE w.amenities
    BY <2>1, <2>2, <2>4, NothingMissing
  <2> QED  BY <2>2, <2>3, <2>4
<1>9. CASE name = "transit"
  <2>1. MayMiss(name) = {"stopsLayer"}
    BY <1>9 DEF MayMiss
  <2>2. w.stopsLayer \in BOOLEAN
    BY <2>1 DEF Worldly, SourceFields
  <2>3. CASE ~w.stopsLayer
    BY <1>9, <2>2, <2>3 DEF Score, Transit
  <2>4. CASE w.stopsLayer
    BY <2>1, <2>2, <2>4, NothingMissing
  <2> QED  BY <2>2, <2>3, <2>4
<1>10. CASE name = "bailouts"
  <2>1. MayMiss(name) = {"stopsLayer", "ways"}
    BY <1>10 DEF MayMiss
  <2>2. w.stopsLayer \in BOOLEAN /\ w.ways \in BOOLEAN
    BY <2>1 DEF Worldly, SourceFields
  <2>3. CASE ~w.stopsLayer /\ ~w.ways
    BY <1>10, <2>2, <2>3 DEF Score, Bailouts
  <2>4. CASE ~w.stopsLayer /\ w.ways
    <3>1. Entry("transit_stops", w.stopsLayer /\ ~Unreadable(w)) \in Score(name, w, p).coverage
      BY <1>10, <2>4 DEF Score, Bailouts, Result
    <3> QED  BY <2>4, <3>1, EntrySaysSo
  <2>5. CASE w.stopsLayer /\ ~w.ways
    <3>1. Entry("ways", w.ways) \in Score(name, w, p).coverage
      BY <1>10, <2>5 DEF Score, Bailouts, Result
    <3> QED  BY <2>5, <3>1, EntrySaysSo
  <2>6. CASE w.stopsLayer /\ w.ways
    BY <2>1, <2>2, <2>6, NothingMissing
  <2> QED  BY <2>2, <2>3, <2>4, <2>5, <2>6
<1>11. CASE name = "crew_points"
  <2>1. MayMiss(name) = {"amenities", "ways"}
    BY <1>11 DEF MayMiss
  <2>2. w.amenities \in BOOLEAN /\ w.ways \in BOOLEAN
    BY <2>1 DEF Worldly, SourceFields
  <2>3. CASE ~w.amenities
    BY <1>11, <2>2, <2>3 DEF Score, CrewPoints
  <2>4. CASE w.amenities
    <3>1. NotAsked("router") \in Score(name, w, p).coverage
      BY <1>11, <2>4 DEF Score, CrewPoints, Result
    <3> QED  BY <3>1, EntrySaysSo DEF NotAsked
  <2> QED  BY <2>2, <2>3, <2>4
<1>12. CASE name = "cell_coverage"
  <2>1. MayMiss(name) = {"coverageLayer"}
    BY <1>12 DEF MayMiss
  <2>2. w.coverageLayer \in BOOLEAN
    BY <2>1 DEF Worldly, SourceFields
  <2>3. CASE ~w.coverageLayer
    BY <1>12, <2>2, <2>3 DEF Score, CellCoverage
  <2>4. CASE w.coverageLayer
    BY <2>1, <2>2, <2>4, NothingMissing
  <2> QED  BY <2>2, <2>3, <2>4
<1>13. CASE name = "hazards"
  <2>1. MayMiss(name) = {"ways", "railways", "flowlines", "nodes"}
    BY <1>13 DEF MayMiss
  <2>2. w.ways \in BOOLEAN /\ w.railways \in BOOLEAN /\ w.flowlines \in BOOLEAN /\ w.nodes \in BOOLEAN
    BY <2>1 DEF Worldly, SourceFields
  <2>3. CASE ~w.ways
    <3>1. Entry("ways", w.ways) \in Score(name, w, p).coverage
      BY <1>13, <2>3 DEF Score, Hazards, Result
    <3> QED  BY <2>3, <3>1, EntrySaysSo
  <2>4. CASE ~w.railways
    <3>1. Entry("railways", w.railways) \in Score(name, w, p).coverage
      BY <1>13, <2>4 DEF Score, Hazards, Result
    <3> QED  BY <2>4, <3>1, EntrySaysSo
  <2>5. CASE ~w.flowlines
    <3>1. Entry("flowlines", w.flowlines) \in Score(name, w, p).coverage
      BY <1>13, <2>5 DEF Score, Hazards, Result
    <3> QED  BY <2>5, <3>1, EntrySaysSo
  <2>6. CASE ~w.nodes
    <3>1. Entry("nodes", w.nodes) \in Score(name, w, p).coverage
      BY <1>13, <2>6 DEF Score, Hazards, Result
    <3> QED  BY <2>6, <3>1, EntrySaysSo
  <2>7. CASE w.ways /\ w.railways /\ w.flowlines /\ w.nodes
    BY <2>1, <2>2, <2>7, NothingMissing
  <2> QED  BY <2>2, <2>3, <2>4, <2>5, <2>6, <2>7
<1>14. CASE name = "closures"
  <2>1. MayMiss(name) = {"boundaries", "parks", "registry", "jurisdictions"}
    BY <1>14 DEF MayMiss
  <2>2. w.boundaries \in BOOLEAN /\ w.parks \in BOOLEAN /\ w.registry \in BOOLEAN
    BY <2>1 DEF Worldly, SourceFields
  <2>3. ScanAnswered(w) /\ w.parks
    BY <1>14, <2>2 DEF ScanAnswered
  <2>4. CASE ~w.boundaries \/ ~w.registry
    <3>1. NotAsked("closures") \in Score(name, w, p).coverage
      BY <1>14, <2>3, <2>4 DEF Score, Closures, Result
    <3> QED  BY <3>1, EntrySaysSo DEF NotAsked
  <2>5. ASSUME w.boundaries, w.registry, NEW j \in w.jurisdictions, j.answered # TRUE
        PROVE  Unchecked(Score(name, w, p))
    <3>1. j \in Crossed(w)
      BY <2>3, <2>5 DEF Crossed
    <3>2. Entry(j.id, j.answered) \in Score(name, w, p).coverage
      BY <1>14, <2>3, <2>5, <3>1 DEF Score, Closures, Result, Answers
    <3>3. ~j.answered
      BY <2>1, <2>5 DEF Worldly
    <3> QED  BY <3>2, <3>3, EntrySaysSo
  <2>6. CASE w.boundaries /\ w.registry /\ \A j \in w.jurisdictions : j.answered = TRUE
    <3>1. \A f \in MayMiss(name) \cap SourceFields : w[f] = TRUE
      BY <2>1, <2>2, <2>3, <2>6 DEF SourceFields
    <3>2. MayMiss(name) \cap {"nws", "meteo", "air", "covered"} = {}
      BY <2>1
    <3> QED  BY <2>6, <3>1, <3>2, NothingMissing
  <2> QED  BY <2>2, <2>4, <2>5, <2>6
<1> QED
  BY <1>1, <1>2, <1>3, <1>4, <1>5, <1>6, <1>7, <1>8, <1>9, <1>10, <1>11, <1>12, <1>13, <1>14 DEF Layered

\* Once every service answers for nothing, every site along the line has its hours.
LEMMA EverySiteAnswers ==
  ASSUME NEW name, NEW w, Worldly(name, w), {"contact", "nws"} \subseteq MayMiss(name), "calls" \in Given(name)
  PROVE  Answered(Revealed(w)) = 1 .. Sites
<1> DEFINE v == Revealed(w)
           first == [left |-> v.calls, exhausted |-> FALSE, provider |-> "none"]
           good == [left |-> v.calls, exhausted |-> FALSE, provider |-> "nws"]
<1>1. v.contact = TRUE /\ v.calls = w.calls /\ v.nws = Answering(w.nws) /\ w.calls \in Nat
      /\ 1 .. Sites \subseteq DOMAIN w.nws
  <2>1. "contact" \in DOMAIN w /\ "nws" \in DOMAIN w /\ "calls" \in DOMAIN w
    BY DEF Worldly
  <2>2. "contact" \in SourceFields /\ "calls" \notin SourceFields \cup AnswerFields
    BY DEF SourceFields, AnswerFields
  <2> QED  BY <2>1, <2>2, FieldOf DEF Worldly
<1> HIDE DEF v
<1>2. \A s \in 1 .. Sites : v.nws[s].reply = "hours" /\ v.nws[s].cost = 0
  BY <1>1 DEF Answering
<1>3. ASSUME NEW n \in 1 .. Sites, NEW before, before \in {first, good} PROVE AskSite(v, n, before) = good
  <2>1. NwsCost(v, n) = 0 /\ NwsAnswers(v, n)
    BY <1>1, <1>2 DEF NwsCost, NwsAnswers
  <2>2. before.exhausted = FALSE /\ before.left = v.calls
    BY <1>3
  <2>3. ~Refused(v.calls, 0) /\ Spend(v.calls, 0) = v.calls
    BY <1>1 DEF Refused, Spend
  <2> QED  BY <2>1, <2>2, <2>3 DEF AskSite
<1> DEFINE Body(g) == [n \in 0 .. Sites |-> IF n = 0 THEN first ELSE AskSite(v, n, g[n - 1])]
           site[n \in 0 .. Sites] == IF n = 0 THEN first ELSE AskSite(v, n, site[n - 1])
           f == [n \in 0 .. Sites |-> IF n = 0 THEN first ELSE good]
<1>4. f = Body(f)
  <2> HIDE DEF first, good
  <2>1. ASSUME NEW n \in 0 .. Sites, n # 0 PROVE AskSite(v, n, f[n - 1]) = good
    <3>1. n \in 1 .. Sites /\ n - 1 \in 0 .. Sites /\ f[n - 1] \in {first, good}
      BY <2>1, WeatherAssumption
    <3> QED  BY <1>3, <3>1
  <2> QED  BY <2>1
<1>5. site = Body(site)
  <2> HIDE DEF f
  <2> QED  BY <1>4
<1>6. Asking(v) = site
  BY DEF Asking
<1> HIDE DEF site, first, good
<1>7. \A n \in 1 .. Sites : site[n] = good
  <2> DEFINE bad == {n \in 1 .. Sites : site[n] # good}
  <2> SUFFICES ASSUME bad # {} PROVE FALSE
    OBVIOUS
  <2>1. PICK n \in bad : \A m \in bad : n <= m
    <3>1. bad \subseteq Nat
      OBVIOUS
    <3> HIDE DEF bad
    <3> QED  BY <3>1, LeastOne
  <2>2. n \in 0 .. Sites /\ n # 0 /\ n - 1 \in 0 .. Sites
    BY <2>1, WeatherAssumption
  <2>3. site[n - 1] \in {first, good}
    <3>1. CASE n = 1
      BY <1>5, <2>2, <3>1
    <3>2. CASE n # 1
      <4>1. n - 1 \in 1 .. Sites /\ ~(n <= n - 1)
        BY <2>2, <3>2, WeatherAssumption
      <4> QED  BY <2>1, <4>1
    <3> QED  BY <3>1, <3>2
  <2>4. site[n] = AskSite(v, n, site[n - 1])
    BY <1>5, <2>2
  <2> QED  BY <1>3, <2>1, <2>3, <2>4
<1>8. \A s \in 1 .. Sites : Provider(v, s) # "none"
  BY <1>6, <1>7 DEF Provider, good
<1> QED  BY <1>8 DEF Answered, v

\* What is read off the same sites at the same place and hour is the same.
LEMMA SameReadings ==
  ASSUME NEW w, NEW v, v.at = w.at, v.hours = w.hours, v.says = w.says, Answered(v) = Answered(w), NEW d, NEW t
  PROVE  (HasReading(v, d, t) <=> HasReading(w, d, t)) /\ (Says(v, d, t) <=> Says(w, d, t))
<1> DEFINE Near(at, sites) ==
             CHOOSE s \in sites :
               \A r \in sites : Apart(at[s], d) < Apart(at[r], d) \/ (Apart(at[s], d) = Apart(at[r], d) /\ s <= r)
<1>1. NearestSite(v, d) = Near(v.at, Answered(v)) /\ NearestSite(w, d) = Near(w.at, Answered(w))
  BY DEF NearestSite
<1> HIDE DEF Near
<1>2. NearestSite(v, d) = NearestSite(w, d)
  BY <1>1
<1>3. HasReading(v, d, t) <=> HasReading(w, d, t)
  BY <1>2 DEF HasReading
<1> QED  BY <1>2, <1>3 DEF Says

\* Nothing is measured, or flagged, but what would be.
NothingMore(name, w, p) ==
  /\ Score(name, Revealed(w), p).flags \subseteq Score(name, w, p).flags
  /\ Score(name, Revealed(w), p).known \subseteq Score(name, w, p).known
Reports(name, w, p) == Unchecked(Score(name, w, p)) \/ NothingMore(name, w, p)

\* A site that did not answer is told of.
LEMMA SitesAreNamed ==
  ASSUME NEW w, Answered(w) # 1 .. Sites
  PROVE  NotAsked("forecast") \in ForecastCoverage(w)
  BY DEF ForecastCoverage

LEMMA WeatherIsNamed ==
  ASSUME NEW name \in {"microclimate", "heat_stress"}, NEW w, NEW p, Worldly(name, w)
  PROVE  Reports(name, w, p)
<1> DEFINE v == Revealed(w)
<1>1. /\ {"contact", "nws"} \subseteq MayMiss(name)
      /\ {"etas", "calls", "at", "start", "eta", "hours", "says"} \subseteq Given(name)
  <2>1. CASE name = "microclimate"
    BY <2>1 DEF MayMiss, Given
  <2>2. CASE name = "heat_stress"
    BY <2>2 DEF MayMiss, Given
  <2> QED  BY <2>1, <2>2
<1>2. /\ v.etas = w.etas /\ v.at = w.at /\ v.start = w.start /\ v.eta = w.eta
      /\ v.hours = w.hours /\ v.says = w.says
  <2>1. {"etas", "at", "start", "eta", "hours", "says"} \subseteq DOMAIN w
    BY <1>1 DEF Worldly
  <2>2. {"etas", "at", "start", "eta", "hours", "says"} \cap (SourceFields \cup AnswerFields) = {}
    BY DEF SourceFields, AnswerFields
  <2> QED  BY <2>1, <2>2, FieldOf
<1>3. Answered(v) = 1 .. Sites
  BY <1>1, EverySiteAnswers
<1>4. CASE Answered(w) # 1 .. Sites
  <2>1. CASE name = "microclimate"
    <3>1. CASE ~w.etas
      BY <2>1, <3>1, UnavailableSaysSo DEF Score, Microclimate, Reports
    <3>2. CASE w.etas
      <4>1. NotAsked("forecast") \in Score(name, w, p).coverage
        BY <1>4, <2>1, <3>2, SitesAreNamed DEF Score, Microclimate, Result
      <4> QED  BY <4>1, EntrySaysSo DEF NotAsked, Reports
    <3> QED  BY <3>1, <3>2
  <2>2. CASE name = "heat_stress"
    <3>1. CASE ~w.etas \/ Answered(w) = {}
      BY <2>2, <3>1, UnavailableSaysSo DEF Score, Heat, Reports
    <3>2. CASE w.etas /\ Answered(w) # {}
      <4>1. NotAsked("forecast") \in Score(name, w, p).coverage
        BY <1>4, <2>2, <3>2, SitesAreNamed DEF Score, Heat, Result
      <4> QED  BY <4>1, EntrySaysSo DEF NotAsked, Reports
    <3> QED  BY <3>1, <3>2
  <2> QED  BY <2>1, <2>2
<1>5. CASE Answered(w) = 1 .. Sites
  <2> HIDE DEF v
  <2>1. \A d, t : (HasReading(v, d, t) <=> HasReading(w, d, t)) /\ (Says(v, d, t) <=> Says(w, d, t))
    BY <1>2, <1>3, <1>5, SameReadings
  <2>2. ASSUME NEW i PROVE (Read(v, i) <=> Read(w, i)) /\ (Known(v, i) <=> Known(w, i))
    <3>1. Middle(v, i) = Middle(w, i) /\ v.eta[i] = w.eta[i]
      BY <1>2 DEF Middle, Begins
    <3> QED  BY <2>1, <3>1 DEF Read, Known
  <2>3. CASE name = "microclimate"
    <3>1. Score(name, v, p).flags \subseteq Score(name, w, p).flags
      BY <1>2, <2>3 DEF Score, Microclimate, Result, Unavailable
    <3>2. Score(name, v, p).known \subseteq Score(name, w, p).known
      BY <1>2, <2>2, <2>3 DEF Score, Microclimate, Result, Unavailable
    <3> QED  BY <3>1, <3>2 DEF Reports, NothingMore, v
  <2>4. CASE name = "heat_stress"
    <3>1. v.wbgt = w.wbgt
      <4>1. "wbgt" \in DOMAIN w
        BY <2>4 DEF Worldly, Given
      <4>2. "wbgt" \notin SourceFields \cup AnswerFields
        BY DEF SourceFields, AnswerFields
      <4> QED  BY <4>1, <4>2, FieldOf DEF v
    <3>2. \A i : HeatFlag(v, i) = HeatFlag(w, i)
      BY <3>1 DEF HeatFlag
    <3>3. CASE ~w.etas \/ Answered(w) = {}
      BY <2>4, <3>3, UnavailableSaysSo DEF Score, Heat, Reports
    <3>4. CASE w.etas /\ Answered(w) # {}
      <4> DEFINE flags(x) == UNION {HeatFlag(x, i) : i \in {j \in Segments : Known(x, j)}}
                 known(x) == {i \in Segments : Known(x, i)}
      <4>1. known(v) = known(w)
        BY <2>2
      <4>2. flags(v) = flags(w)
        BY <2>2, <3>2
      <4>3. /\ Score(name, v, p).flags = flags(v) /\ Score(name, v, p).known = known(v)
            /\ Score(name, w, p).flags = flags(w) /\ Score(name, w, p).known = known(w)
        BY <1>2, <1>3, <1>5, <2>4, <3>4 DEF Score, Heat, Result
      <4> QED  BY <4>1, <4>2, <4>3 DEF Reports, NothingMore, v
    <3> QED  BY <3>3, <3>4
  <2> QED  BY <2>3, <2>4
<1> QED  BY <1>4, <1>5

\* Three that say so whenever there is anything to say, but where they are known to be silent.
LEMMA SunIsNamed ==
  ASSUME NEW w, NEW p, ~CloudKnown(w)
  PROVE  Reports("sun_exposure", w, p)
<1>1. CASE ~w.etas \/ ~w.surface
  BY <1>1, UnavailableSaysSo DEF Score, Sun, Reports
<1>2. CASE w.etas /\ w.surface
  <2>1. NotAsked("forecast") \in Score("sun_exposure", w, p).coverage
    BY <1>2 DEF Score, Sun, Result
  <2> QED  BY <2>1, EntrySaysSo DEF NotAsked, Reports
<1> QED  BY <1>1, <1>2
LEMMA AirIsNamed ==
  ASSUME NEW w, NEW p, Worldly("air_quality", w)
  PROVE  Reports("air_quality", w, p)
<1>1. CASE ~w.etas
  BY <1>1, UnavailableSaysSo DEF Score, AirQuality, Reports
<1>2. CASE w.etas /\ AirAnswered(w) = {}
  <2>1. Entry("open_meteo", AirAnswered(w) # {}) \in Score("air_quality", w, p).coverage
    BY <1>2 DEF Score, AirQuality, Result
  <2> QED  BY <1>2, <2>1, EntrySaysSo DEF Reports
<1>3. CASE w.etas /\ AirAnswered(w) # {}
  <2>1. Score("air_quality", w, p).known = Segments /\ Score("air_quality", w, p).flags = {}
    BY <1>3 DEF Score, AirQuality, Result
  <2>2. \A x : Score("air_quality", x, p).known \subseteq Segments /\ Score("air_quality", x, p).flags = {}
    BY DEF Score, AirQuality, Result, Unavailable
  <2> QED  BY <2>1, <2>2 DEF Reports, NothingMore
<1> QED  BY <1>1, <1>2, <1>3
LEMMA WarningsAreNamed ==
  ASSUME NEW w, NEW p, Worldly("warnings", w), SiteAlerts(w) = 1 .. Sites
  PROVE  Reports("warnings", w, p)
<1> DEFINE v == Revealed(w)
<1>1. v.alerts = w.alerts /\ v.day = w.day
  <2>1. {"alerts", "day"} \subseteq DOMAIN w
    BY DEF Worldly, Given
  <2>2. {"alerts", "day"} \cap (SourceFields \cup AnswerFields) = {}
    BY DEF SourceFields, AnswerFields
  <2> QED  BY <2>1, <2>2, FieldOf
<1>2. CASE BeyondHorizon(w) \/ SiteAlerts(w) = {}
  BY <1>2, UnavailableSaysSo DEF Score, Alerts, Reports
<1>3. CASE ~BeyondHorizon(w) /\ SiteAlerts(w) # {}
  <2> DEFINE flags(x) == {Soft("hazards", Route, a.code) : a \in InForce(x)}
  <2> HIDE DEF v
  <2>1. InForce(v) \subseteq InForce(w)
    <3>1. SiteAlerts(v) \subseteq SiteAlerts(w)
      BY DEF SiteAlerts
    <3> QED  BY <1>1, <3>1 DEF InForce
  <2>2. Score("warnings", w, p).known = {Route} /\ Score("warnings", w, p).flags = flags(w)
    BY <1>3 DEF Score, Alerts, Result
  <2>3. Score("warnings", v, p).known \subseteq {Route} /\ Score("warnings", v, p).flags \subseteq flags(v)
    BY DEF Score, Alerts, Result, Unavailable
  <2>4. flags(v) \subseteq flags(w)
    BY <2>1
  <2> QED  BY <2>2, <2>3, <2>4 DEF Reports, NothingMore, v
<1> QED  BY <1>2, <1>3

\* An agency that would be asked, and would answer, was asked and did, or is named.
LEMMA AgenciesAreNamed ==
  ASSUME NEW name \in {"trail_status", "access_hours"}, NEW w, Worldly(name, w)
  PROVE  \/ \E e \in AgencyCoverage(w, name) : ~e.checked
         \/ \A id : (\E j \in Agencies(Revealed(w)) : j.id = id)
                      => w.parks /\ w.registry /\ \E j \in Agencies(w) : j.answered /\ j.id = id
<1> DEFINE v == Revealed(w)
<1>1. {"parks", "registry", "jurisdictions"} \subseteq MayMiss(name)
  <2>1. CASE name = "trail_status"
    BY <2>1 DEF MayMiss
  <2>2. CASE name = "access_hours"
    BY <2>2 DEF MayMiss
  <2> QED  BY <2>1, <2>2
<1>2. w.parks \in BOOLEAN /\ w.registry \in BOOLEAN
      /\ v.jurisdictions = {[j EXCEPT !.answered = TRUE] : j \in w.jurisdictions}
  BY <1>1, FieldOf DEF Worldly, SourceFields
<1>3. \A j \in w.jurisdictions : /\ j = [id |-> j.id, agency |-> j.agency, answered |-> j.answered]
                                 /\ {j.agency, j.answered} \subseteq BOOLEAN
  BY <1>1 DEF Worldly
<1> HIDE DEF v
<1> SUFFICES ASSUME \A e \in AgencyCoverage(w, name) : e.checked, NEW j \in Agencies(v)
             PROVE  w.parks /\ w.registry /\ \E k \in Agencies(w) : k.answered /\ k.id = j.id
  BY DEF v
<1>4. \A source, checked : Entry(source, checked) \in AgencyCoverage(w, name) => checked
  BY DEF Entry
<1>5. w.parks
  <2>1. ~w.parks => NotAsked(name) \in AgencyCoverage(w, name)
    BY DEF AgencyCoverage
  <2> QED  BY <1>4, <2>1 DEF NotAsked
<1>6. PICK k \in w.jurisdictions : j = [k EXCEPT !.answered = TRUE]
  BY <1>2 DEF Agencies, Crossed
<1>7. j.id = k.id /\ j.agency = k.agency
  BY <1>3, <1>6
<1>8. k \in Agencies(w)
  BY <1>2, <1>5, <1>7 DEF Agencies, Crossed
<1>9. w.registry
  <2>1. ~w.registry => NotAsked(k.id) \in AgencyCoverage(w, name)
    BY <1>5, <1>8 DEF AgencyCoverage, NobodyAsked
  <2> QED  BY <1>4, <2>1 DEF NotAsked
<1>10. k.answered
  <2>1. Entry(k.id, k.answered) \in AgencyCoverage(w, name)
    BY <1>5, <1>8, <1>9 DEF AgencyCoverage, Answers
  <2> QED  BY <1>4, <2>1
<1> QED  BY <1>5, <1>7, <1>8, <1>9, <1>10

LEMMA SameSegmentOf ==
  ASSUME NEW w, NEW v, v.start = w.start, NEW d
  PROVE  SegmentOf(v, d) = SegmentOf(w, d)
<1>1. SegmentAt(v, d) = SegmentAt(w, d)
  BY DEF SegmentAt, Begins, Length
<1> QED  BY <1>1 DEF SegmentOf

LEMMA TrailsAreNamed ==
  ASSUME NEW w, NEW p, Worldly("trail_status", w)
  PROVE  Reports("trail_status", w, p)
<1> DEFINE v == Revealed(w)
<1>1. v.etas = w.etas /\ v.clock = w.clock /\ v.start = w.start /\ v.records = w.records
  <2>1. {"etas", "clock", "start", "records"} \subseteq DOMAIN w
    BY DEF Worldly, Given
  <2>2. {"etas", "clock", "start", "records"} \cap (SourceFields \cup AnswerFields) = {}
    BY DEF SourceFields, AnswerFields
  <2> QED  BY <2>1, <2>2, FieldOf
<1>2. CASE \E e \in AgencyCoverage(w, "trail_status") : ~e.checked
  BY <1>2 DEF Reports, Unchecked, Score, TrailStatus, Result
<1>3. CASE \A e \in AgencyCoverage(w, "trail_status") : e.checked
  <2>1. \A id : (\E j \in Agencies(v) : j.id = id)
                  => w.parks /\ w.registry /\ \E j \in Agencies(w) : j.answered /\ j.id = id
    BY <1>3, AgenciesAreNamed
  <2> HIDE DEF v
  <2>2. AgencyRecords(v) \subseteq AgencyRecords(w)
    BY <1>1, <2>1 DEF AgencyRecords, Records
  <2>3. \A r : Applies(v, r) <=> Applies(w, r)
    BY <1>1 DEF Applies, ActiveAt
  <2>4. \A d : SegmentOf(v, d) = SegmentOf(w, d)
    BY <1>1, SameSegmentOf
  <2> DEFINE flags(x) == {Soft("trail_status", SegmentOf(x, IF r.placed THEN r.d ELSE 0), "trail_alert") :
                            r \in {s \in AgencyRecords(x) : (s.placed => s.off <= AlertReach) /\ Applies(x, s)}}
  <2>5. \A x : Score("trail_status", x, p).flags = flags(x) /\ Score("trail_status", x, p).known = Segments
    BY DEF Score, TrailStatus, Result
  <2>6. flags(v) \subseteq flags(w)
    BY <2>2, <2>3, <2>4
  <2> HIDE DEF flags
  <2> QED  BY <2>5, <2>6 DEF Reports, NothingMore, v
<1> QED  BY <1>2, <1>3

LEMMA AccessIsNamed ==
  ASSUME NEW w, NEW p, Worldly("access_hours", w)
  PROVE  Reports("access_hours", w, p)
<1> DEFINE v == Revealed(w)
           fields == {"etas", "clock", "start", "weekday", "gates", "spans", "coast", "gauge", "highs"}
<1>1. /\ v.etas = w.etas /\ v.clock = w.clock /\ v.start = w.start /\ v.weekday = w.weekday
      /\ v.gates = w.gates /\ v.spans = w.spans /\ v.coast = w.coast /\ v.gauge = w.gauge /\ v.highs = w.highs
  <2>1. fields \subseteq DOMAIN w
    BY DEF Worldly, Given
  <2>2. fields \cap (SourceFields \cup AnswerFields) = {}
    BY DEF SourceFields, AnswerFields
  <2> QED  BY <2>1, <2>2, FieldOf
<1>2. v.ways = TRUE
  BY FieldOf DEF Worldly, MayMiss, SourceFields
<1>3. CASE \E e \in AgencyCoverage(w, "access_hours") : ~e.checked
  BY <1>3 DEF Reports, Unchecked, Score, AccessHours, Result
<1>4. CASE ~w.ways
  <2>1. NotAsked("ways") \in Score("access_hours", w, p).coverage
    BY <1>4 DEF Score, AccessHours, TideCoverage, Result
  <2> QED  BY <2>1, EntrySaysSo DEF NotAsked, Reports
<1>5. CASE w.ways /\ \A e \in AgencyCoverage(w, "access_hours") : e.checked
  <2>1. \A id : (\E j \in Agencies(v) : j.id = id)
                  => w.parks /\ w.registry /\ \E j \in Agencies(w) : j.answered /\ j.id = id
    BY <1>5, AgenciesAreNamed
  <2> HIDE DEF v, fields
  <2>2. \A d : SegmentOf(v, d) = SegmentOf(w, d)
    BY <1>1, SameSegmentOf
  <2>3. Gates(v) \subseteq Gates(w)
    BY <1>1, <2>1 DEF Gates
  <2>4. \A g : GatePlaces(v, g) = GatePlaces(w, g)
    BY <1>1 DEF GatePlaces
  <2>5. ASSUME NEW g, NEW d PROVE GateFlag(v, g, d) = GateFlag(w, g, d)
    <3>1. \A r : ActiveAt(v, r, d) = ActiveAt(w, r, d)
      BY <1>1 DEF ActiveAt
    <3>2. Holding(v, g, d) = Holding(w, g, d)
      BY <3>1 DEF Holding
    <3>3. Applicable(v, g, d) = Applicable(w, g, d)
      BY <3>2 DEF Applicable
    <3>4. Unsure(v, g, d) <=> Unsure(w, g, d)
      BY <3>1 DEF Unsure
    <3>5. GateState(v, g, d) = GateState(w, g, d)
      BY <1>1, <3>3, <3>4 DEF GateState
    <3>6. StateOnArrival(v, g, d) = StateOnArrival(w, g, d)
      BY <1>1, <3>5 DEF StateOnArrival
    <3> QED  BY <2>2, <3>6 DEF GateFlag
  <2>6. GateFlags(v) \subseteq GateFlags(w)
    <3> SUFFICES ASSUME NEW f \in GateFlags(v) PROVE f \in GateFlags(w)
      OBVIOUS
    <3>1. PICK g \in Gates(v) : \E d \in GatePlaces(v, g) : f \in GateFlag(v, g, d)
      BY DEF GateFlags
    <3>2. PICK d \in GatePlaces(v, g) : f \in GateFlag(v, g, d)
      BY <3>1
    <3> QED  BY <2>3, <2>4, <2>5, <3>1, <3>2 DEF GateFlags
  <2>7. CoastRuns(v) = CoastRuns(w)
    BY <1>1 DEF CoastRuns, CoastKind
  <2>8. ASSUME NEW r
        PROVE  /\ Governed(v, r) = Governed(w, r) /\ (Conflict(v, r) <=> Conflict(w, r))
               /\ \A code : TideFlag(v, r, code) = TideFlag(w, r, code)
    <3>1. Ends(v, r) = Ends(w, r) /\ \A t : HighWaterAt(v, t) <=> HighWaterAt(w, t)
      BY <1>1 DEF Ends, Begins, HighWaterAt
    <3> QED  BY <1>1, <3>1 DEF Governed, Conflict, TideFlag, CoastKind
  <2>9. TideFlags(v) = TideFlags(w)
    <3> DEFINE unknown(x) == {TideFlag(x, r, "tide_unknown") : r \in {s \in CoastRuns(x) : ~Governed(x, s)}}
               conflict(x) == {TideFlag(x, r, "tide_conflict_at_eta") :
                                 r \in {s \in CoastRuns(x) : Governed(x, s) /\ Conflict(x, s)}}
    <3>1. TideFlags(v) = unknown(v) \cup conflict(v) /\ TideFlags(w) = unknown(w) \cup conflict(w)
      BY <1>2, <1>5 DEF TideFlags
    <3>2. unknown(v) = unknown(w)
      BY <2>7, <2>8
    <3>3. conflict(v) = conflict(w)
      BY <2>7, <2>8
    <3> HIDE DEF unknown, conflict
    <3> QED  BY <3>1, <3>2, <3>3
  <2>10. \A x : /\ Score("access_hours", x, p).flags = GateFlags(x) \cup TideFlags(x)
                /\ Score("access_hours", x, p).known = Segments
    BY DEF Score, AccessHours, Result
  <2> QED  BY <2>6, <2>9, <2>10 DEF Reports, NothingMore, v
<1> QED  BY <1>3, <1>4, <1>5

\* Arrivals are of the cut, the elevations and the curve.
LEMMA SameArrivals ==
  ASSUME NEW w, NEW v, v.start = w.start, Sampled(v) = Sampled(w), NEW curve
  PROVE  Arrivals(v, curve) = Arrivals(w, curve)
<1> DEFINE WindowOf(start, i) ==
             LET before == {j \in 1 .. i : start[i] - start[j] >= HalfWindow}
                 after == {k \in i .. N + 1 : start[k] - start[i] >= HalfWindow}
             IN  <<IF before = {} THEN 1 ELSE CHOOSE j \in before : \A o \in before : o <= j,
                   IF after = {} THEN N + 1 ELSE CHOOSE k \in after : \A o \in after : k <= o>>
<1>1. \A i : WindowBounds(v, i) = WindowOf(v.start, i) /\ WindowBounds(w, i) = WindowOf(w.start, i)
  BY DEF WindowBounds, At
<1> HIDE DEF WindowOf
<1>2. \A i : WindowBounds(v, i) = WindowBounds(w, i)
  BY <1>1
<1> DEFINE ele == Sampled(w)
<1>3. Grades(v, ele) = Grades(w, ele)
  BY <1>2 DEF Grades, At
<1> DEFINE TimesOf(start, grade) ==
             LET after[i \in PointsOf] ==
                   IF i = 1 THEN 0
                   ELSE after[i - 1] + (10000 * (start[i] - start[i - 1]))
                                         \div SpeedMs(curve, IF grade[i] = Unknown THEN 0 ELSE grade[i], start[i])
             IN  after
<1>4. Arrivals(v, curve) = TimesOf(v.start, Grades(v, Sampled(v)))
  BY DEF Arrivals, At
<1>5. Arrivals(w, curve) = TimesOf(w.start, Grades(w, Sampled(w)))
  BY DEF Arrivals, At
<1> HIDE DEF TimesOf
<1> QED  BY <1>3, <1>4, <1>5

LEMMA PacingIsNamed ==
  ASSUME NEW w, NEW p, Worldly("pacing_model", w)
  PROVE  Reports("pacing_model", w, p)
<1> DEFINE v == Revealed(w)
<1>1. /\ v.start = w.start /\ v.ground = w.ground /\ v.runs = w.runs /\ v.drift = w.drift
  <2>1. {"start", "ground", "runs", "drift"} \subseteq DOMAIN w
    BY DEF Worldly, Given
  <2>2. {"start", "ground", "runs", "drift"} \cap (SourceFields \cup AnswerFields) = {}
    BY DEF SourceFields, AnswerFields
  <2> QED  BY <2>1, <2>2, FieldOf
<1>2. v.dem = TRUE /\ v.history = TRUE /\ v.covered = PointsOf /\ w.dem \in BOOLEAN /\ w.history \in BOOLEAN
  BY FieldOf DEF Worldly, MayMiss, SourceFields
<1> HIDE DEF v
<1>3. \A x : /\ Score("pacing_model", x, p).coverage = Caveats(x, CurveOf(x))
             /\ Score("pacing_model", x, p).flags = {}
  BY DEF Score, PacingModel, Result
<1>4. CASE ~w.history
  <2>1. CurveOf(w).history = FALSE
    BY <1>4 DEF CurveOf, Population
  <2>2. NotAsked("history") \in Score("pacing_model", w, p).coverage
    BY <1>3, <2>1 DEF Caveats
  <2> QED  BY <2>2, EntrySaysSo DEF NotAsked, Reports
<1>5. CASE \E i \in PointsOf : Sampled(w)[i] = Unknown
  <2>1. NotAsked("elevation") \in Score("pacing_model", w, p).coverage
    BY <1>3, <1>5 DEF Caveats
  <2> QED  BY <2>1, EntrySaysSo DEF NotAsked, Reports
<1>6. CASE w.history /\ \A i \in PointsOf : Sampled(w)[i] # Unknown
  <2>1. CurveOf(v) = CurveOf(w)
    BY <1>1, <1>2, <1>6 DEF CurveOf
  <2>2. Sampled(v) = Sampled(w)
    <3>1. ASSUME NEW i \in PointsOf PROVE w.dem /\ i \in w.covered
      BY <1>6, <3>1 DEF Sampled
    <3> QED  BY <1>1, <1>2, <3>1 DEF Sampled
  <2>3. Arrivals(v, CurveOf(v)) = Arrivals(w, CurveOf(w))
    BY <1>1, <2>1, <2>2, SameArrivals
  <2> DEFINE measured(after, climb) ==
               {<<"at", i, after[i]>> : i \in PointsOf} \cup {<<"gain", climb.gain>>, <<"loss", climb.loss>>}
             climbOf(x) == Accumulate(StripSpikes(Sampled(x)))
  <2>4. \A x : Score("pacing_model", x, p).known = measured(Arrivals(x, CurveOf(x)), climbOf(x))
    BY DEF Score, PacingModel, Result
  <2>5. climbOf(v) = climbOf(w)
    BY <2>2
  <2> HIDE DEF measured, climbOf
  <2> QED  BY <1>3, <2>3, <2>4, <2>5 DEF Reports, NothingMore, v
<1> QED  BY <1>4, <1>5, <1>6

\* A row of the table of starts is of the line and the places on it, and of what is read.
LEMMA SameRow ==
  ASSUME NEW w, NEW v, v.start = w.start, v.places = w.places, v.weekday = w.weekday, v.noon = w.noon,
         v.halts = w.halts, v.amenities = w.amenities, v.stopsLayer = w.stopsLayer,
         \A d, t : Says(v, d, t) <=> Says(w, d, t), NEW start
  PROVE  Row(v, start) = Row(w, start)
<1> DEFINE Point(s, d) ==
             CHOOSE i \in PointsOf : \A j \in PointsOf : Apart(s[i], d) <= Apart(s[j], d)
<1>1. \A d : NearestPoint(v, d) = Point(v.start, d) /\ NearestPoint(w, d) = Point(w.start, d)
  BY DEF NearestPoint, At
<1> HIDE DEF Point
<1>2. \A d : NearestPoint(v, d) = NearestPoint(w, d)
  BY <1>1
<1>3. \A i : At(v, i) = At(w, i)
  BY DEF At
<1>4. TapsOpen(v, start) = TapsOpen(w, start)
  BY <1>2, <1>3 DEF TapsOpen
<1>5. DarkPoints(v, start) = DarkPoints(w, start)
  <2> DEFINE dark(x) == {i \in PointsOf : LET t == EtaAt(start, At(x, i)) % DayLength IN t < Dawn \/ t >= Dusk}
  <2>1. dark(v) = dark(w)
    BY <1>3
  <2>2. \A x : DarkPoints(x, start) = Cardinality(dark(x))
    BY DEF DarkPoints
  <2> HIDE DEF dark
  <2> QED  BY <2>1, <2>2
<1>6. PeakWbgt(v, start) = PeakWbgt(w, start)
  <2> DEFINE read(x) == {WbgtAt(x, EtaAt(start, At(x, i))) :
                           i \in {j \in PointsOf : Says(x, At(x, j), EtaAt(start, At(x, j)))}}
             Peak(set) == IF set = {} THEN Unknown ELSE CHOOSE h \in set : \A o \in set : o <= h
  <2>1. \A t : WbgtAt(v, t) = WbgtAt(w, t)
    BY DEF WbgtAt
  <2>2. read(v) = read(w)
    BY <1>3, <2>1
  <2>3. PeakWbgt(v, start) = Peak(read(v)) /\ PeakWbgt(w, start) = Peak(read(w))
    BY DEF PeakWbgt
  <2> HIDE DEF read, Peak
  <2> QED  BY <2>2, <2>3
<1>7. (\E h \in v.halts : EtaAt(start, Length(v)) \in h.departs)
         = (\E h \in w.halts : EtaAt(start, Length(w)) \in h.departs)
  BY DEF Length
<1> QED  BY <1>4, <1>5, <1>6, <1>7 DEF Row

LEMMA StartsAreNamed ==
  ASSUME NEW w, NEW p, Worldly("start_time_optimizer", w), Answered(w) \in {{}, 1 .. Sites}
  PROVE  Reports("start_time_optimizer", w, p)
<1> DEFINE v == Revealed(w)
           fields == {"etas", "calls", "at", "start", "hours", "says", "window", "begin", "weekday", "noon",
                      "places", "halts"}
<1>1. /\ v.etas = w.etas /\ v.at = w.at /\ v.start = w.start /\ v.hours = w.hours /\ v.says = w.says
      /\ v.window = w.window /\ v.begin = w.begin /\ v.weekday = w.weekday /\ v.noon = w.noon
      /\ v.places = w.places /\ v.halts = w.halts
  <2>1. fields \subseteq DOMAIN w
    BY DEF Worldly, Given
  <2>2. fields \cap (SourceFields \cup AnswerFields) = {}
    BY DEF SourceFields, AnswerFields
  <2> QED  BY <2>1, <2>2, FieldOf
<1>2. /\ v.surface = TRUE /\ v.amenities = TRUE /\ v.stopsLayer = TRUE
      /\ w.surface \in BOOLEAN /\ w.amenities \in BOOLEAN /\ w.stopsLayer \in BOOLEAN
  BY FieldOf DEF Worldly, MayMiss, SourceFields
<1>3. Answered(v) = 1 .. Sites
  BY EverySiteAnswers DEF MayMiss, Given
<1> HIDE DEF v, fields
<1>4. CASE ~w.etas \/ ~w.surface
  BY <1>4, UnavailableSaysSo DEF Score, StartTimes, Reports
<1>5. CASE w.etas /\ w.surface /\ (Answered(w) = {} \/ ~w.amenities \/ ~w.stopsLayer)
  <2> DEFINE source == IF Answered(w) = {} THEN "forecast" ELSE IF ~w.amenities THEN "amenities" ELSE "transit_stops"
  <2>1. NotAsked(source) \in Score("start_time_optimizer", w, p).coverage
    BY <1>5 DEF Score, StartTimes, Result
  <2> QED  BY <2>1, EntrySaysSo DEF NotAsked, Reports
<1>6. CASE w.etas /\ w.surface /\ Answered(w) = 1 .. Sites /\ w.amenities /\ w.stopsLayer
  <2>1. \A d, t : Says(v, d, t) <=> Says(w, d, t)
    BY <1>1, <1>3, <1>6, SameReadings
  <2>2. \A start : Row(v, start) = Row(w, start)
    BY <1>1, <1>2, <1>6, <2>1, SameRow
  <2>3. CandidateStarts(v) = CandidateStarts(w)
    BY <1>1 DEF CandidateStarts
  <2> DEFINE rows(x) == {Row(x, start) : start \in CandidateStarts(x)}
             known(set) == {<<"row", r.start, r>> : r \in set} \cup {<<"coolest", Coolest(set)>>}
  <2>4. rows(v) = rows(w)
    BY <2>2, <2>3
  <2>5. /\ Score("start_time_optimizer", w, p).flags = {} /\ Score("start_time_optimizer", v, p).flags = {}
        /\ Score("start_time_optimizer", w, p).known = known(rows(w))
        /\ Score("start_time_optimizer", v, p).known = known(rows(v))
    BY <1>1, <1>2, <1>6 DEF Score, StartTimes, Result
  <2> HIDE DEF rows, known
  <2> QED  BY <2>4, <2>5 DEF Reports, NothingMore, v
<1> QED  BY <1>2, <1>4, <1>5, <1>6

\* What is said of a line that would be judged otherwise, had every source been there,
\* names a source that was not: for any line, any cut of it, any sites and whatever they
\* answer, with the exceptions of KnownSilence (core/scorers, "unknown, not absent").
THEOREM AbsenceNamed == SpecJudge => []AbsenceIsReported
<1>1. JudgeInv => AbsenceIsReported
  <2> SUFFICES ASSUME JudgeInv, Judged, ~KnownSilence
               PROVE  Unchecked(result) \/ NothingMore(subject, world, profile)
    BY DEF JudgeInv, AbsenceIsReported, Unchecked, NothingMore
  <2>1. result = Score(subject, world, profile) /\ subject \in Registered
    BY ScorersAssumption DEF JudgeInv
  <2>2. Worldly(subject, world)
    BY ScorersAssumption DEF JudgeInv, Worldly
  <2> SUFFICES Reports(subject, world, profile)
    BY <2>1 DEF Reports
  <2>3. CASE subject \in Layered
    <3>1. subject = "closures" => world.parks
      BY DEF KnownSilence
    <3>2. CASE Unchecked(Score(subject, world, profile))
      BY <3>2 DEF Reports
    <3>3. CASE Revealed(world) = world
      BY <3>3 DEF Reports, NothingMore
    <3> QED  BY <2>2, <2>3, <3>1, <3>2, <3>3, LayersAreNamed
  <2>4. CASE subject \in {"microclimate", "heat_stress"}
    BY <2>2, <2>4, WeatherIsNamed
  <2>5. CASE subject = "sun_exposure"
    BY <2>5, SunIsNamed DEF KnownSilence
  <2>6. CASE subject = "air_quality"
    BY <2>2, <2>6, AirIsNamed
  <2>7. CASE subject = "warnings"
    BY <2>2, <2>7, WarningsAreNamed DEF KnownSilence
  <2>8. CASE subject = "trail_status"
    BY <2>2, <2>8, TrailsAreNamed
  <2>9. CASE subject = "access_hours"
    BY <2>2, <2>9, AccessIsNamed
  <2>10. CASE subject = "pacing_model"
    BY <2>2, <2>10, PacingIsNamed
  <2>11. CASE subject = "start_time_optimizer"
    BY <2>2, <2>11, StartsAreNamed DEF KnownSilence
  <2> QED
    BY <2>1, <2>3, <2>4, <2>5, <2>6, <2>7, <2>8, <2>9, <2>10, <2>11 DEF Registered, Layered
<1> QED  BY <1>1, JudgeInvHolds, PTL
=============================================================================
