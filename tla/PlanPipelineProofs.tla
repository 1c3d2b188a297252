-------------------------- MODULE PlanPipelineProofs -------------------------
(***************************************************************************)
(* A plan and its passes, for any registry of scorers and any lines, and   *)
(* the router's answers its lines are drawn from, for any number of plans. *)
(*                                                                         *)
(* The invariant of the passes is about the pass that runs and the plan it *)
(* starts from: a pass wants all that what it wants reads, a result of a   *)
(* wanted scorer is of the pass, and every measurement lies where it was   *)
(* taken but for one tolerance a pass.  It rests on three lemmas about     *)
(* recursive definitions, which are proved by induction on a set of        *)
(* numbers: that a closure is closed, that a recursion has a value, and    *)
(* that the cuts of a line are points of it.  What is read of a plan (the  *)
(* report, the sheets, the course and the delta) follows from one more,    *)
(* ReadInv, of what a result tells and where a carried one comes from.     *)
(***************************************************************************)
EXTENDS RouterCache, Sheets, SequenceTheorems, FiniteSetTheorems, WellFoundedInduction, TLAPS

-----------------------------------------------------------------------------
\* ---- induction, by a set of the numbers for which something holds
LEMMA LeastOne == ASSUME NEW T, T \subseteq Nat, T # {} PROVE \E x \in T : \A y \in T : x <= y
<1> DEFINE R == {ss \in Nat \X Nat : ss[1] < ss[2]}
<1>1. IsWellFoundedOn(R, Nat)
  BY NatLessThanWellFounded DEF OpToRel
<1> HIDE DEF R
<1>2. PICK x \in T : \A y \in T : <<y, x>> \notin R
  BY <1>1, WFMin
<1>3. ASSUME NEW y \in T PROVE x <= y
  <2>1. <<y, x>> \notin R /\ x \in Nat /\ y \in Nat
    BY <1>2
  <2> QED  BY <2>1 DEF R
<1> QED  BY <1>3

LEMMA UpTo ==
  ASSUME NEW n \in Nat, NEW T, 0 \in T, \A i \in 0 .. n - 1 : i \in T => i + 1 \in T
  PROVE  \A i \in 0 .. n : i \in T
<1> DEFINE left == (0 .. n) \ T
<1> SUFFICES ASSUME left # {} PROVE FALSE
  OBVIOUS
<1>1. left \subseteq Nat
  OBVIOUS
<1> HIDE DEF left
<1>2. PICK x \in left : \A y \in left : x <= y
  BY <1>1, LeastOne
<1>3. x \in (0 .. n) \ T /\ x - 1 \in 0 .. n - 1
  BY <1>2 DEF left
<1>4. x - 1 \in T
  BY <1>2, <1>3 DEF left
<1> QED  BY <1>3, <1>4

\* A recursion over numbers has a value, if each of its steps does.
Steps(f, low, high, base, step) ==
  \A i \in low .. high : f[i] = IF i = low THEN base ELSE step[<<i, f[i - 1]>>]
LEMMA StepsOf ==
  ASSUME NEW low \in Nat, NEW high \in Nat, low <= high,
         NEW S, NEW base \in S, NEW step \in [(low .. high) \X S -> S]
  PROVE  \E f \in [low .. high -> S] : Steps(f, low, high, base, step)
<1> USE DEF Steps
<1> DEFINE Solved(k) == \E f \in [low .. low + k -> S] : Steps(f, low, low + k, base, step)
           T == {k \in 0 .. high - low : Solved(k)}
<1>1. 0 \in T
  <2> DEFINE f == [i \in low .. low |-> base]
  <2>1. f \in [low .. low + 0 -> S] /\ Steps(f, low, low + 0, base, step)
    OBVIOUS
  <2>2. Solved(0)
    BY <2>1
  <2> QED  BY <2>2
<1>2. ASSUME NEW k \in 0 .. (high - low) - 1, k \in T PROVE k + 1 \in T
  <2> DEFINE m == low + k
  <2>1. m \in Nat /\ m + 1 \in low .. high /\ low + (k + 1) = m + 1
    OBVIOUS
  <2>2. PICK f \in [low .. m -> S] : Steps(f, low, m, base, step)
    BY <1>2
  <2> HIDE DEF m
  <2> DEFINE g == [i \in low .. m + 1 |-> IF i = m + 1 THEN step[<<m + 1, f[m]>>] ELSE f[i]]
  <2>3. m \in low .. m
    BY <2>1
  <2>4. step[<<m + 1, f[m]>>] \in S
    BY <2>1, <2>2, <2>3
  <2>5. g \in [low .. m + 1 -> S]
    BY <2>1, <2>2, <2>4
  <2>6. ASSUME NEW i \in low .. m + 1 PROVE g[i] = IF i = low THEN base ELSE step[<<i, g[i - 1]>>]
    <3>1. \A j \in low .. m : j # m + 1 /\ j \in low .. m + 1 /\ g[j] = f[j]
      BY <2>1
    <3>2. CASE i = m + 1
      <4>1. i # low /\ i - 1 = m
        BY <2>1, <3>2
      <4>2. g[i] = step[<<m + 1, f[m]>>]
        BY <3>2
      <4> QED  BY <2>3, <3>1, <3>2, <4>1, <4>2
    <3>3. CASE i # m + 1
      <4>1. i \in low .. m /\ (i # low => i - 1 \in low .. m)
        BY <2>1, <3>3
      <4>2. f[i] = IF i = low THEN base ELSE step[<<i, f[i - 1]>>]
        BY <2>2, <4>1
      <4>3. g[i] = f[i] /\ (i # low => g[i - 1] = f[i - 1])
        BY <3>1, <4>1
      <4> QED  BY <4>2, <4>3
    <3> QED  BY <3>2, <3>3
  <2>7. Steps(g, low, m + 1, base, step)
    BY <2>6
  <2>8. Solved(k + 1)
    BY <2>1, <2>5, <2>7
  <2> QED  BY <2>8
<1> HIDE DEF T
<1>3. high - low \in T
  BY <1>1, <1>2, UpTo
<1>4. low + (high - low) = high
  OBVIOUS
<1> QED  BY <1>3, <1>4 DEF T

-----------------------------------------------------------------------------
\* ---- closure: what is read is closed under reading
Reading(names) == names \cup UNION {Reads[s] : s \in names}
Chain(f, names) == \A i \in 0 .. Len(Scorers) : f[i] = IF i = 0 THEN names ELSE Reading(f[i - 1])

LEMMA ReadsAreNames == ASSUME NEW s \in Names PROVE Reads[s] \subseteq Names
<1>1. PICK i \in DOMAIN Scorers : s = Scorers[i]
  BY DEF Names
<1>2. Len(Scorers) \in Nat /\ DOMAIN Scorers = 1 .. Len(Scorers)
  BY PipelineAssumption
<1>3. \A j \in 1 .. i - 1 : Scorers[j] \in Names
  BY <1>2 DEF Names
<1> QED  BY <1>1, <1>3, PipelineAssumption

LEMMA ClosureIsOfAChain ==
  ASSUME NEW names \in SUBSET Names
  PROVE  \E f : Chain(f, names) /\ Closure(names) = f[Len(Scorers)]
<1>1. Len(Scorers) \in Nat
  BY PipelineAssumption
<1> DEFINE S == SUBSET Names
           step == [x \in (0 .. Len(Scorers)) \X S |-> Reading(x[2])]
<1>2. step \in [(0 .. Len(Scorers)) \X S -> S] /\ names \in S
  BY ReadsAreNames DEF Reading
<1>3. \A i \in 0 .. Len(Scorers), some \in S : step[<<i, some>>] = Reading(some)
  OBVIOUS
<1> HIDE DEF step, S
<1>4. PICK f \in [0 .. Len(Scorers) -> S] : Steps(f, 0, Len(Scorers), names, step)
  <2>1. 0 \in Nat /\ 0 <= Len(Scorers)
    BY <1>1
  <2> QED  BY <1>1, <1>2, <2>1, StepsOf
<1>5. \A i \in 0 .. Len(Scorers) : f[i] = IF i = 0 THEN names ELSE Reading(f[i - 1])
  <2> SUFFICES ASSUME NEW i \in 0 .. Len(Scorers), i # 0 PROVE f[i] = Reading(f[i - 1])
    BY <1>4 DEF Steps
  <2>1. i - 1 \in 0 .. Len(Scorers)
    BY <1>1
  <2> QED  BY <1>3, <1>4, <2>1 DEF Steps
<1> DEFINE Body(g) == [i \in 0 .. Len(Scorers) |-> IF i = 0 THEN names ELSE g[i - 1] \cup UNION {Reads[s] : s \in g[i - 1]}]
           within[i \in 0 .. Len(Scorers)] == IF i = 0 THEN names ELSE within[i - 1] \cup UNION {Reads[s] : s \in within[i - 1]}
<1>6. f = Body(f)
  BY <1>4, <1>5 DEF Reading
<1>7. within = Body(within)
  BY <1>6
<1>8. Closure(names) = within[Len(Scorers)]
  BY DEF Closure
<1> HIDE DEF within
<1>9. Chain(within, names)
  BY <1>7 DEF Chain, Reading
<1> QED  BY <1>8, <1>9

\* Whatever is asked for, a pass is asked for everything that it reads, however far back:
\* what is new after k readings is so many places before the end of the registry.
LEMMA ClosureIsClosed ==
  ASSUME NEW names \in SUBSET Names
  PROVE  /\ names \subseteq Closure(names) /\ Closure(names) \subseteq Names
         /\ \A s \in Closure(names) : Reads[s] \subseteq Closure(names)
<1> DEFINE n == Len(Scorers)
<1>1. n \in Nat /\ DOMAIN Scorers = 1 .. n
  BY PipelineAssumption
<1>2. PICK f : Chain(f, names) /\ Closure(names) = f[n]
  BY ClosureIsOfAChain
<1>3. \A i \in DOMAIN Scorers : Reads[Scorers[i]] \subseteq {Scorers[j] : j \in 1 .. i - 1}
  BY PipelineAssumption
<1> HIDE DEF n
<1>4. f[0] = names /\ \A k \in 0 .. n - 1 : f[k + 1] = Reading(f[k])
  <2>1. \A i \in 0 .. n : f[i] = IF i = 0 THEN names ELSE Reading(f[i - 1])
    BY <1>2 DEF Chain, n
  <2>2. ASSUME NEW k \in 0 .. n - 1 PROVE f[k + 1] = Reading(f[k])
    <3>1. k + 1 \in 0 .. n /\ k + 1 # 0 /\ (k + 1) - 1 = k
      BY <1>1
    <3> QED  BY <2>1, <3>1
  <2> QED  BY <1>1, <2>1, <2>2
<1>5. \A k \in 0 .. n : f[k] \subseteq Names /\ names \subseteq f[k]
  <2> DEFINE T == {k \in 0 .. n : f[k] \subseteq Names /\ names \subseteq f[k]}
  <2>1. 0 \in T
    BY <1>1, <1>4
  <2>2. ASSUME NEW k \in 0 .. n - 1, k \in T PROVE k + 1 \in T
    BY <1>1, <1>4, <2>2, ReadsAreNames DEF Reading
  <2> HIDE DEF T
  <2>3. \A k \in 0 .. n : k \in T
    BY <1>1, <2>1, <2>2, UpTo
  <2> QED  BY <2>3 DEF T
<1> DEFINE Early(s, k) == \E i \in 1 .. n - k : Scorers[i] = s
           T == {k \in 0 .. n : k = 0 \/ \A s \in f[k] \ f[k - 1] : Early(s, k)}
<1>6. \A s \in Names : Early(s, 0)
  BY <1>1 DEF Names
<1>7. ASSUME NEW k \in 0 .. n - 1, NEW t, Early(t, k), NEW s \in Reads[t] PROVE Early(s, k + 1)
  <2>1. PICK i \in 1 .. n - k : Scorers[i] = t
    BY <1>7
  <2>2. PICK j \in 1 .. i - 1 : s = Scorers[j]
    BY <1>1, <1>3, <2>1
  <2> QED  BY <1>1, <2>2
<1>8. 0 \in T
  BY <1>1
<1>9. ASSUME NEW k \in 0 .. n - 1, k \in T PROVE k + 1 \in T
  <2> SUFFICES ASSUME NEW s \in f[k + 1], s \notin f[k] PROVE Early(s, k + 1)
    BY <1>1
  <2>1. PICK t \in f[k] : s \in Reads[t]
    BY <1>4 DEF Reading
  <2>2. Early(t, k)
    <3>1. CASE k = 0
      BY <1>4, <1>6, <2>1, <3>1
    <3>2. CASE k # 0
      <4>1. k - 1 \in 0 .. n - 1 /\ (k - 1) + 1 = k
        BY <1>1, <3>2
      <4>2. f[k] = Reading(f[k - 1])
        BY <1>4, <4>1
      <4>3. t \notin f[k - 1]
        BY <2>1, <4>2 DEF Reading
      <4> QED  BY <1>9, <2>1, <3>2, <4>3
    <3> QED  BY <3>1, <3>2
  <2> QED  BY <1>7, <2>1, <2>2
<1> HIDE DEF T
<1>10. n \in T
  <2>1. \A k \in 0 .. n : k \in T
    BY <1>1, <1>8, <1>9, UpTo
  <2> QED  BY <1>1, <2>1
<1>11. ASSUME NEW s \in f[n] PROVE Reads[s] \subseteq f[n]
  <2>1. s \in Names
    BY <1>1, <1>5
  <2>2. n # 0
    BY <1>1, <2>1 DEF Names
  <2>3. n - 1 \in 0 .. n - 1 /\ (n - 1) + 1 = n /\ n - n = 0
    BY <1>1, <2>2
  <2>4. f[n] = Reading(f[n - 1])
    BY <1>4, <2>3
  <2>5. s \in f[n - 1]
    BY <1>1, <1>10, <2>2, <2>3 DEF T
  <2> QED  BY <2>4, <2>5 DEF Reading
<1> QED  BY <1>1, <1>2, <1>5, <1>11

-----------------------------------------------------------------------------
\* ---- the cuts of a line are points of it, so a segment's ends are places
Place2 == Int \X Int
Point == [at : Int, place : Place2]
CutsOf(n) == {cuts \in Seq(1 .. n) : cuts # <<>>}

LEMMA IncludingCuts ==
  ASSUME NEW n \in Nat, NEW cuts \in CutsOf(n), NEW cut \in 1 .. n
  PROVE  Including(cuts, cut) \in CutsOf(n)
  BY AppendProperties DEF CutsOf, Including

LEMMA LastCut == ASSUME NEW n \in Nat, NEW cuts \in CutsOf(n) PROVE Last(cuts) \in 1 .. n
<1>1. cuts \in Seq(1 .. n) /\ cuts # <<>>
  BY DEF CutsOf
<1>2. Len(cuts) \in 1 .. Len(cuts)
  BY <1>1, EmptySeq
<1> QED  BY <1>1, <1>2, ElementOfSeq DEF Last

LEMMA CutIsAPoint ==
  ASSUME NEW n \in Nat, NEW line, NEW ways, NEW last \in 1 .. n, NEW i \in 1 .. n
  PROVE  CutAt(line, ways, last, i) \in 1 .. n
<1>1. i - 1 > last => i - 1 \in 1 .. n
  OBVIOUS
<1> QED  BY <1>1 DEF CutAt

LEMMA BoundariesAreCuts ==
  ASSUME NEW line \in Seq(Point), line # <<>>, NEW ways
  PROVE  Boundaries(line, ways) \in CutsOf(Len(line))
<1> DEFINE n == Len(line)
<1>1. n \in Nat /\ 1 <= n /\ DOMAIN line = 1 .. n
  BY EmptySeq
<1> HIDE DEF n
<1> DEFINE S == CutsOf(n)
           Next1(i, cuts) == Including(cuts, CutAt(line, ways, Last(cuts), i))
           step == [x \in (1 .. n) \X S |-> Next1(x[1], x[2])]
<1>2. ASSUME NEW i \in 1 .. n, NEW cuts \in S PROVE Next1(i, cuts) \in S
  BY <1>1, LastCut, CutIsAPoint, IncludingCuts
<1>3. <<1>> \in S
  BY <1>1 DEF CutsOf
<1> HIDE DEF S, Next1
<1>4. step \in [(1 .. n) \X S -> S]
  BY <1>2
<1>5. \A i \in 1 .. n, cuts \in S : step[<<i, cuts>>] = Next1(i, cuts)
  OBVIOUS
<1> HIDE DEF step
<1>6. PICK f \in [1 .. n -> S] : Steps(f, 1, n, <<1>>, step)
  <2>1. 1 \in Nat /\ n \in Nat /\ 1 <= n
    BY <1>1
  <2> QED  BY <1>3, <1>4, <2>1, StepsOf
<1>7. \A i \in 1 .. n : f[i] = IF i = 1 THEN <<1>> ELSE Next1(i, f[i - 1])
  <2> SUFFICES ASSUME NEW i \in 1 .. n, i # 1 PROVE f[i] = Next1(i, f[i - 1])
    BY <1>6 DEF Steps
  <2>1. i - 1 \in 1 .. n
    BY <1>1
  <2> QED  BY <1>5, <1>6, <2>1 DEF Steps
<1> DEFINE Body(g) == [i \in DOMAIN line |-> IF i = 1 THEN <<1>> ELSE Including(g[i - 1], CutAt(line, ways, Last(g[i - 1]), i))]
           upTo[i \in DOMAIN line] ==
             IF i = 1 THEN <<1>> ELSE Including(upTo[i - 1], CutAt(line, ways, Last(upTo[i - 1]), i))
<1>8. f = Body(f)
  BY <1>1, <1>6, <1>7 DEF Next1
<1>9. upTo = Body(upTo)
  BY <1>8
<1>10. Boundaries(line, ways) = Including(upTo[Len(line)], Len(line))
  BY DEF Boundaries
<1> HIDE DEF upTo
<1>11. \A i \in 1 .. n : upTo[i] = IF i = 1 THEN <<1>> ELSE Next1(i, upTo[i - 1])
  BY <1>1, <1>9 DEF Next1
<1>12. upTo[n] \in S
  <2> DEFINE T == {k \in 0 .. n - 1 : upTo[k + 1] \in S}
  <2>1. 0 \in T
    BY <1>1, <1>3, <1>11
  <2>2. ASSUME NEW k \in 0 .. (n - 1) - 1, k \in T PROVE k + 1 \in T
    <3>1. k + 2 \in 1 .. n /\ k + 2 # 1 /\ (k + 2) - 1 = k + 1 /\ (k + 1) + 1 = k + 2
      BY <1>1
    <3>2. upTo[k + 2] = Next1(k + 2, upTo[k + 1])
      BY <1>11, <3>1
    <3> QED  BY <1>1, <1>2, <2>2, <3>1, <3>2
  <2> HIDE DEF T
  <2>3. n - 1 \in Nat
    BY <1>1
  <2>4. \A k \in 0 .. n - 1 : k \in T
    BY <2>1, <2>2, <2>3, UpTo
  <2>5. n - 1 \in 0 .. n - 1 /\ (n - 1) + 1 = n
    BY <1>1
  <2> QED  BY <2>4, <2>5 DEF T
<1>13. Including(upTo[n], n) \in S
  BY <1>1, <1>12, IncludingCuts DEF S
<1> QED  BY <1>10, <1>13 DEF S, n

Placed(segments) == \A id \in DOMAIN segments : segments[id].ends \in Place2 \X Place2

LEMMA CutIsPlaced == ASSUME NEW line \in Lines, NEW ways PROVE Placed(Cut(line, ways))
<1> DEFINE cuts == Boundaries(line, ways)
<1>1. line \in Seq(Point) /\ line # <<>> /\ DOMAIN line = 1 .. Len(line)
  BY PipelineAssumption DEF Point, Place2, NoLine
<1>2. cuts \in CutsOf(Len(line))
  BY <1>1, BoundariesAreCuts
<1>3. cuts \in Seq(1 .. Len(line)) /\ Len(cuts) \in Nat
  BY <1>2 DEF CutsOf
<1> HIDE DEF cuts
<1>4. DOMAIN Cut(line, ways) = 1 .. Len(cuts) - 1
  BY DEF Cut, cuts
<1>5. ASSUME NEW id \in 1 .. Len(cuts) - 1 PROVE Cut(line, ways)[id].ends \in Place2 \X Place2
  <2>1. cuts[id] \in 1 .. Len(line) /\ cuts[id + 1] \in 1 .. Len(line)
    BY <1>3, ElementOfSeq
  <2>2. \A i \in 1 .. Len(line) : line[i].place \in Place2
    <3> SUFFICES ASSUME NEW i \in 1 .. Len(line) PROVE line[i].place \in Place2
      OBVIOUS
    <3>1. line[i] \in Point
      BY <1>1, ElementOfSeq
    <3> QED  BY <3>1 DEF Point
  <2>3. Cut(line, ways)[id].ends = <<line[cuts[id]].place, line[cuts[id + 1]].place>>
    BY DEF Cut, cuts
  <2> QED  BY <2>1, <2>2, <2>3
<1> QED  BY <1>4, <1>5 DEF Placed

LEMMA Distances ==
  ASSUME NEW p \in Place2, NEW q \in Place2, NEW r \in Place2
  PROVE  Dist(p, p) = 0 /\ Dist(p, q) \in Nat /\ Dist(p, r) <= Dist(q, p) + Dist(q, r)
<1>1. p[1] \in Int /\ p[2] \in Int /\ q[1] \in Int /\ q[2] \in Int /\ r[1] \in Int /\ r[2] \in Int
  BY DEF Place2
<1>2. ASSUME NEW x \in Int, NEW y \in Int, NEW z \in Int
      PROVE  Abs(x - x) = 0 /\ Abs(x - y) \in Nat /\ Abs(x - z) <= Abs(y - x) + Abs(y - z)
  BY DEF Abs
<1>3. Dist(p, p) = 0 /\ Dist(p, q) \in Nat
  BY <1>1, <1>2 DEF Dist
<1>4. /\ Abs(p[1] - r[1]) <= Abs(q[1] - p[1]) + Abs(q[1] - r[1])
      /\ Abs(p[2] - r[2]) <= Abs(q[2] - p[2]) + Abs(q[2] - r[2])
  BY <1>1, <1>2
<1>5. /\ Abs(p[1] - r[1]) \in Nat /\ Abs(p[2] - r[2]) \in Nat
      /\ Abs(q[1] - p[1]) \in Nat /\ Abs(q[2] - p[2]) \in Nat
      /\ Abs(q[1] - r[1]) \in Nat /\ Abs(q[2] - r[2]) \in Nat
  BY <1>1, <1>2
<1>6. Dist(p, r) <= Dist(q, p) + Dist(q, r)
  BY <1>4, <1>5 DEF Dist
<1> QED  BY <1>3, <1>6

LEMMA LandsOnSameGround ==
  ASSUME NEW old, NEW new, NEW id \in DOMAIN Landed(old, new)
  PROVE  id \in DOMAIN old /\ Landed(old, new)[id] \in DOMAIN new /\ SameGround(old[id], new[Landed(old, new)[id]])
<1>1. id \in DOMAIN old /\ \E n \in DOMAIN new : Counterparts(old, new, id) = {n}
  BY DEF Landed
<1>2. Landed(old, new)[id] = CHOOSE n \in DOMAIN new : Counterparts(old, new, id) = {n}
  BY DEF Landed
<1>3. Landed(old, new)[id] \in DOMAIN new /\ Counterparts(old, new, id) = {Landed(old, new)[id]}
  BY <1>1, <1>2
<1> QED  BY <1>1, <1>3 DEF Counterparts

-----------------------------------------------------------------------------
\* ---- what a result is, wherever it is carried
Fields == {"name", "day", "measured", "hard", "soft", "found", "total", "carriedFrom", "answered", "lost", "read"}

LEMMA CarriedFields ==
  ASSUME NEW r, DOMAIN r = Fields, NEW landed
  PROVE  LET g == Grounded(r, landed)
         IN  /\ DOMAIN g = Fields
             /\ g.name = r.name /\ g.day = r.day /\ g.read = r.read /\ g.answered = r.answered
             /\ g.carriedFrom = (IF r.carriedFrom # NoDate THEN r.carriedFrom ELSE pass.asOf)
             /\ g.measured = Rekeyed(r.measured, landed) /\ g.hard = Rekeyed(r.hard, landed)
             /\ g.soft = Rekeyed(r.soft, landed) /\ g.total = NoLine
  BY DEF Grounded, SinceThen, Fields

\* A measurement of a result, told of these segments, of ground no farther than so many passes
\* can have moved it.
Traced(m, segments, n) ==
  /\ m = [id |-> m.id, ends |-> m.ends] /\ m.ends \in Place2 \X Place2
  /\ m.id \in DOMAIN segments
  /\ Dist(segments[m.id].ends[1], m.ends[1]) <= n * Tolerance
  /\ Dist(segments[m.id].ends[2], m.ends[2]) <= n * Tolerance
AllTraced(r, segments, n) == \A m \in r.measured \cup r.hard \cup r.soft : Traced(m, segments, n)
\* A result of scorer s, of a pass or of a plan of that day and line.
Sound(r, s, day, line) ==
  /\ DOMAIN r = Fields /\ r.name = s
  /\ r.day = (IF r.carriedFrom = NoDate THEN day ELSE r.carriedFrom)
  /\ r.total \in {NoLine, line}
  /\ r.carriedFrom = NoDate => r.read \subseteq {<<r.day, r.total>>}

LEMMA TracedOn ==
  ASSUME NEW segments, NEW n \in Nat, NEW m, Traced(m, segments, n), Placed(segments)
  PROVE  Traced(m, segments, n + 1)
<1>1. n * Tolerance \in Nat /\ (n + 1) * Tolerance = n * Tolerance + Tolerance /\ Tolerance \in Nat
  BY PipelineAssumption
<1>2. segments[m.id].ends \in Place2 \X Place2 /\ m.ends \in Place2 \X Place2
  BY DEF Traced, Placed
<1>3. Dist(segments[m.id].ends[1], m.ends[1]) \in Nat /\ Dist(segments[m.id].ends[2], m.ends[2]) \in Nat
  BY <1>2, Distances
<1> QED  BY <1>1, <1>3 DEF Traced

LEMMA RekeyedIsTraced ==
  ASSUME NEW old, NEW new, Placed(old), Placed(new), NEW n \in Nat, NEW kept, \A m \in kept : Traced(m, old, n),
         NEW m \in Rekeyed(kept, Landed(old, new))
  PROVE  Traced(m, new, n + 1)
<1> DEFINE landed == Landed(old, new)
<1>1. PICK k \in kept : k.id \in DOMAIN landed /\ m = [k EXCEPT !.id = landed[k.id]]
  BY DEF Rekeyed
<1>2. /\ k = [id |-> k.id, ends |-> k.ends] /\ k.ends \in Place2 \X Place2
      /\ Dist(old[k.id].ends[1], k.ends[1]) <= n * Tolerance
      /\ Dist(old[k.id].ends[2], k.ends[2]) <= n * Tolerance
  BY DEF Traced
<1>3. /\ k.id \in DOMAIN old /\ landed[k.id] \in DOMAIN new
      /\ SameGround(old[k.id], new[landed[k.id]])
  BY <1>1, LandsOnSameGround
<1> HIDE DEF landed
<1>4. m = [id |-> landed[k.id], ends |-> k.ends]
  BY <1>1, <1>2
<1>5. m.id = landed[k.id] /\ m.ends = k.ends
  BY <1>4
<1> DEFINE a == old[k.id].ends
           b == new[landed[k.id]].ends
           c == k.ends
<1>6. a \in Place2 \X Place2 /\ b \in Place2 \X Place2 /\ c \in Place2 \X Place2
  BY <1>2, <1>3 DEF Placed
<1>7. Dist(a[1], b[1]) <= Tolerance /\ Dist(a[2], b[2]) <= Tolerance
  BY <1>3 DEF SameGround, EndsAgree
<1>8. Dist(a[1], c[1]) <= n * Tolerance /\ Dist(a[2], c[2]) <= n * Tolerance
  BY <1>2
<1> HIDE DEF a, b, c
<1>9. n * Tolerance \in Nat /\ (n + 1) * Tolerance = n * Tolerance + Tolerance /\ Tolerance \in Nat
  BY PipelineAssumption
<1>10. /\ Dist(b[1], c[1]) <= Dist(a[1], b[1]) + Dist(a[1], c[1])
       /\ Dist(b[2], c[2]) <= Dist(a[2], b[2]) + Dist(a[2], c[2])
  BY <1>6, Distances
<1>11. /\ Dist(b[1], c[1]) \in Nat /\ Dist(a[1], b[1]) \in Nat /\ Dist(a[1], c[1]) \in Nat
       /\ Dist(b[2], c[2]) \in Nat /\ Dist(a[2], b[2]) \in Nat /\ Dist(a[2], c[2]) \in Nat
  BY <1>6, Distances
<1>12. Dist(b[1], c[1]) <= (n + 1) * Tolerance /\ Dist(b[2], c[2]) <= (n + 1) * Tolerance
  BY <1>7, <1>8, <1>9, <1>10, <1>11
<1> QED  BY <1>2, <1>3, <1>4, <1>5, <1>12 DEF Traced, b, c

-----------------------------------------------------------------------------
\* ---- the invariant: a pass, and the plan it starts from
PassFields == {"at", "kind", "line", "day", "matched", "segments", "wanted", "results", "late", "asOf", "outer"}
PlanFields == {"at", "line", "segments", "matched", "day", "results", "coverage", "original", "cues", "shortest"}
Sequence(results) == \E S : results \in Seq(S)

\* One result for each scorer, in their order, that is sound and whose ground can be traced.
Row(r, s, p, n) == Sound(r, s, p.day, p.line) /\ AllTraced(r, p.segments, n)
OnALine(p) == p.line \in Lines /\ p.day \in Dates /\ Placed(p.segments)
EntriesOf(p) == <<MatchingCoverage(p.line, p.matched)>> \o Covered(p.results)

\* A stored plan: what was recorded is what its results asked.
PlanIsSound(n) ==
  /\ DOMAIN plan = PlanFields /\ plan.at = "stored" /\ OnALine(plan)
  /\ Sequence(plan.results) /\ Len(plan.results) = Len(Scorers)
  /\ \A i \in DOMAIN plan.results : Row(plan.results[i], Scorers[i], plan, n)
  /\ plan.coverage = EntriesOf(plan)

\* A pass wants all that it reads; and a scorer that it wants is measured in it.
Begun ==
  /\ DOMAIN pass = PassFields /\ pass.at \in {"scoring", "scored"} /\ OnALine(pass)
  /\ pass.outer = <<>>
  /\ pass.wanted \subseteq Names /\ \A s \in pass.wanted : Reads[s] \subseteq pass.wanted
  /\ IF plan = NoPlan THEN pass.wanted = Names ELSE pass.asOf = plan.day
OfThisPass(r) == r.carriedFrom = NoDate /\ (r.answered # "nothing" => r.total = pass.line)
Given ==
  /\ Sequence(pass.results) /\ Len(pass.results) <= Len(Scorers)
  /\ pass.at = "scored" => Len(pass.results) = Len(Scorers)
  /\ \A i \in DOMAIN pass.results :
       /\ Row(pass.results[i], Scorers[i], pass, passes)
       /\ Scorers[i] \in pass.wanted => OfThisPass(pass.results[i])
Manifest ==
  /\ pass = NoPass => coverage = <<>>
  /\ pass # NoPass /\ pass.at = "scoring" => coverage = <<MatchingCoverage(pass.line, pass.matched)>>
  /\ pass # NoPass /\ pass.at = "scored" => coverage = EntriesOf(pass)
\* A plan was traced before the pass that runs now.
PassInv ==
  /\ passes \in Nat /\ Manifest
  /\ pass # NoPass => Begun /\ Given /\ passes # 0
  /\ plan # NoPlan => PlanIsSound(IF pass = NoPass THEN passes ELSE passes - 1)

-----------------------------------------------------------------------------
LEMMA AppendedTo ==
  ASSUME NEW results, Sequence(results), NEW r
  PROVE  LET longer == Append(results, r)
         IN  /\ Sequence(longer) /\ Len(results) \in Nat /\ DOMAIN results = 1 .. Len(results)
             /\ Len(longer) = Len(results) + 1 /\ DOMAIN longer = 1 .. Len(results) + 1
             /\ \A i \in DOMAIN results : longer[i] = results[i]
             /\ longer[Len(results) + 1] = r
<1>1. PICK S : results \in Seq(S)
  BY DEF Sequence
<1> DEFINE T == S \cup {r}
<1>2. results \in Seq(T) /\ r \in T
  BY <1>1, SeqDef
<1> HIDE DEF T
<1>3. Append(results, r) \in Seq(T)
  BY <1>2
<1> QED  BY <1>2, <1>3 DEF Sequence

LEMMA TracedAhead ==
  ASSUME NEW segments, NEW n \in Nat, NEW r, AllTraced(r, segments, n), Placed(segments)
  PROVE  AllTraced(r, segments, n + 1)
<1> SUFFICES ASSUME NEW m \in r.measured \cup r.hard \cup r.soft PROVE Traced(m, segments, n + 1)
  BY DEF AllTraced
<1> QED  BY TracedOn DEF AllTraced

LEMMA PlanStaysSound ==
  ASSUME NEW n \in Nat, PlanIsSound(n) PROVE PlanIsSound(n + 1)
<1> SUFFICES ASSUME NEW i \in DOMAIN plan.results PROVE AllTraced(plan.results[i], plan.segments, n + 1)
  BY DEF PlanIsSound, Row
<1> QED  BY TracedAhead DEF PlanIsSound, Row, OnALine

-----------------------------------------------------------------------------
\* ---- a result that is measured, or cannot be
LEMMA ResultFields ==
  ASSUME NEW s
  PROVE  LET r == Result(s)
         IN  /\ DOMAIN r = Fields /\ r.name = s /\ r.day = pass.day /\ r.total = NoLine
             /\ r.measured = {} /\ r.hard = {} /\ r.soft = {} /\ r.read = {}
             /\ r.carriedFrom = NoDate /\ r.answered = "nothing"
  BY DEF Result, Fields

LEMMA MeasuredFields ==
  ASSUME NEW s, NEW found, NEW answered
  PROVE  LET r == Measured(s, found, answered)
             all == {OnGround(pass.segments, id) : id \in DOMAIN pass.segments}
         IN  /\ DOMAIN r = Fields /\ r.name = s /\ r.day = pass.day /\ r.total = pass.line
             /\ r.measured = all /\ r.hard \subseteq all /\ r.soft \subseteq all
             /\ r.carriedFrom = NoDate
             /\ r.read = {<<q.day, q.total>> : q \in {x \in Prior(s) : x.answered # "nothing"}}
  BY ResultFields DEF Measured, Fields, Flagged

\* What a wanted scorer reads was measured in this pass, over its line and for its day.
LEMMA PriorsAreWanted ==
  ASSUME Begun, Given, NEW s \in pass.wanted, NEW q \in Prior(s), q.answered # "nothing"
  PROVE  q.day = pass.day /\ q.total = pass.line
<1>1. PICK i \in DOMAIN pass.results : q = pass.results[i]
  BY DEF Prior, Earlier
<1>2. q.name = Scorers[i] /\ q.name \in pass.wanted
  BY <1>1 DEF Given, Begun, Row, Sound, Prior
<1>3. OfThisPass(q)
  BY <1>1, <1>2 DEF Given
<1>4. q.day = IF q.carriedFrom = NoDate THEN pass.day ELSE q.carriedFrom
  BY <1>1 DEF Given, Row, Sound
<1> QED  BY <1>3, <1>4 DEF OfThisPass

LEMMA MeasuredIsSound ==
  ASSUME Begun, Given, passes \in Nat, NEW s \in pass.wanted, NEW found, NEW answered
  PROVE  LET r == Measured(s, found, answered) IN Row(r, s, pass, passes) /\ OfThisPass(r)
<1> DEFINE r == Measured(s, found, answered)
           all == {OnGround(pass.segments, id) : id \in DOMAIN pass.segments}
<1>1. /\ DOMAIN r = Fields /\ r.name = s /\ r.day = pass.day /\ r.total = pass.line
      /\ r.measured = all /\ r.hard \subseteq all /\ r.soft \subseteq all /\ r.carriedFrom = NoDate
      /\ r.read = {<<q.day, q.total>> : q \in {x \in Prior(s) : x.answered # "nothing"}}
  BY MeasuredFields
<1>2. r.read \subseteq {<<pass.day, pass.line>>}
  BY <1>1, PriorsAreWanted
<1>3. ASSUME NEW m \in all PROVE Traced(m, pass.segments, passes)
  <2>1. PICK id \in DOMAIN pass.segments : m = OnGround(pass.segments, id)
    BY <1>3
  <2>2. m = [id |-> id, ends |-> pass.segments[id].ends]
    BY <2>1 DEF OnGround
  <2>3. m.id = id /\ m.ends = pass.segments[id].ends /\ m.ends \in Place2 \X Place2
    BY <2>2 DEF Begun, OnALine, Placed
  <2>4. Dist(m.ends[1], m.ends[1]) = 0 /\ Dist(m.ends[2], m.ends[2]) = 0
    BY <2>3, Distances
  <2>5. passes * Tolerance \in Nat
    BY PipelineAssumption
  <2> QED  BY <2>2, <2>3, <2>4, <2>5 DEF Traced
<1> HIDE DEF r, all
<1>4. AllTraced(r, pass.segments, passes)
  BY <1>1, <1>3 DEF AllTraced
<1>5. Sound(r, s, pass.day, pass.line) /\ OfThisPass(r)
  BY <1>1, <1>2 DEF Sound, OfThisPass
<1> QED  BY <1>4, <1>5 DEF Row, r

LEMMA UnavailableIsSound ==
  ASSUME NEW s PROVE Row(Unavailable(s), s, pass, passes) /\ OfThisPass(Unavailable(s))
<1> DEFINE r == Unavailable(s)
<1>1. /\ DOMAIN r = Fields /\ r.name = s /\ r.day = pass.day /\ r.total = NoLine
      /\ r.measured = {} /\ r.hard = {} /\ r.soft = {} /\ r.read = {}
      /\ r.carriedFrom = NoDate /\ r.answered = "nothing"
  BY ResultFields DEF Unavailable
<1> HIDE DEF r
<1> QED  BY <1>1 DEF Row, Sound, AllTraced, OfThisPass, r

-----------------------------------------------------------------------------
\* ---- a result that is carried
LEMMA StoredIsSound ==
  ASSUME NEW n, PlanIsSound(n), NEW s \in Names PROVE Row(Stored(s), s, plan, n)
<1>1. PICK i \in DOMAIN Scorers : s = Scorers[i]
  BY DEF Names
<1>2. DOMAIN plan.results = DOMAIN Scorers
  <2>1. DOMAIN plan.results = 1 .. Len(plan.results) /\ DOMAIN Scorers = 1 .. Len(Scorers)
    BY PipelineAssumption, AppendedTo DEF PlanIsSound
  <2> QED  BY <2>1 DEF PlanIsSound
<1>3. plan.results[i].name = s
  BY <1>1, <1>2 DEF PlanIsSound, Row, Sound
<1>4. Stored(s) \in {plan.results[j] : j \in DOMAIN plan.results} /\ Stored(s).name = s
  BY <1>1, <1>2, <1>3 DEF Stored
<1>5. PICK j \in DOMAIN plan.results : Stored(s) = plan.results[j]
  BY <1>4
<1>6. Row(Stored(s), Scorers[j], plan, n)
  BY <1>5 DEF PlanIsSound
<1>7. Scorers[j] = s
  BY <1>4, <1>6 DEF Row, Sound
<1> QED  BY <1>6, <1>7

LEMMA CarriedIsSound ==
  ASSUME Begun, plan # NoPlan, passes \in Nat, passes # 0, PlanIsSound(passes - 1),
         NEW s \in Names
  PROVE  Row(Carry(Stored(s)), s, pass, passes)
<1> DEFINE was == Stored(s)
           landed == Landed(plan.segments, pass.segments)
           g == Grounded(was, landed)
           n == passes - 1
<1>1. Row(was, s, plan, n) /\ n \in Nat /\ n + 1 = passes
  BY StoredIsSound
<1>2. DOMAIN was = Fields /\ Sound(was, s, plan.day, plan.line) /\ AllTraced(was, plan.segments, n)
  BY <1>1 DEF Row, Sound
<1>3. /\ pass.asOf = plan.day /\ plan.day # NoDate
      /\ Placed(plan.segments) /\ Placed(pass.segments)
  BY PipelineAssumption DEF Begun, PlanIsSound, OnALine
<1> HIDE DEF was, n
<1>4. CASE ~Moved(plan.line, plan.segments, pass.line, pass.segments)
  <2> DEFINE r == SinceThen(was)
  <2>1. plan.line = pass.line /\ plan.segments = pass.segments
    BY <1>4 DEF Moved
  <2>2. /\ DOMAIN r = Fields /\ r.name = was.name /\ r.day = was.day /\ r.total = was.total
        /\ r.measured = was.measured /\ r.hard = was.hard /\ r.soft = was.soft
        /\ r.carriedFrom = IF was.carriedFrom # NoDate THEN was.carriedFrom ELSE pass.asOf
    BY <1>2 DEF SinceThen, Fields
  <2>3. AllTraced(was, pass.segments, passes)
    BY <1>1, <1>2, <1>3, <2>1, TracedAhead
  <2> HIDE DEF r
  <2>4. Sound(r, s, pass.day, pass.line) /\ AllTraced(r, pass.segments, passes)
    BY <1>2, <1>3, <2>1, <2>2, <2>3 DEF Sound, AllTraced
  <2>5. Carry(was) = r
    BY <1>4 DEF Carry, r
  <2> QED  BY <2>4, <2>5 DEF Row, was
<1>5. CASE Moved(plan.line, plan.segments, pass.line, pass.segments)
  <2>1. /\ DOMAIN g = Fields /\ g.name = was.name /\ g.day = was.day /\ g.total = NoLine
        /\ g.carriedFrom = (IF was.carriedFrom # NoDate THEN was.carriedFrom ELSE pass.asOf)
        /\ g.measured = Rekeyed(was.measured, landed) /\ g.hard = Rekeyed(was.hard, landed)
        /\ g.soft = Rekeyed(was.soft, landed)
    BY <1>2, CarriedFields
  <2>2. ASSUME NEW kept, kept \subseteq was.measured \cup was.hard \cup was.soft,
               NEW m \in Rekeyed(kept, landed)
        PROVE  Traced(m, pass.segments, passes)
    <3>1. \A k \in kept : Traced(k, plan.segments, n)
      BY <1>2, <2>2 DEF AllTraced
    <3> QED  BY <1>1, <1>3, <2>2, <3>1, RekeyedIsTraced
  <2> DEFINE lost == Kept(g) # Kept(was)
             r == [g EXCEPT !.lost = lost]
  <2>3. Carry(was) = r
    BY <1>5 DEF Carry
  <2> HIDE DEF g, lost, landed
  <2>4. /\ DOMAIN r = Fields /\ r.name = was.name /\ r.day = was.day /\ r.total = NoLine
        /\ r.carriedFrom = (IF was.carriedFrom # NoDate THEN was.carriedFrom ELSE pass.asOf)
        /\ r.measured = Rekeyed(was.measured, landed) /\ r.hard = Rekeyed(was.hard, landed)
        /\ r.soft = Rekeyed(was.soft, landed)
    BY <2>1 DEF Fields
  <2> HIDE DEF r
  <2>5. AllTraced(r, pass.segments, passes)
    BY <2>2, <2>4 DEF AllTraced
  <2>6. Sound(r, s, pass.day, pass.line)
    BY <1>2, <1>3, <2>4 DEF Sound
  <2> QED  BY <2>3, <2>5, <2>6 DEF Row, was
<1> QED  BY <1>4, <1>5

-----------------------------------------------------------------------------
\* ---- the steps
LEMMA EmptyPass == Sequence(<<>>) /\ Len(<<>>) = 0 /\ DOMAIN <<>> = {} /\ Len(Scorers) \in Nat
<1>1. <<>> \in Seq({})
  OBVIOUS
<1> QED  BY <1>1, PipelineAssumption DEF Sequence

LEMMA BeginKeeps ==
  ASSUME PassInv, NEW kind, NEW line \in Lines, NEW day \in Dates, NEW wanted \in SUBSET Names,
         \A s \in wanted : Reads[s] \subseteq wanted, plan = NoPlan => wanted = Names,
         BeginWith(kind, line, day, wanted)
  PROVE  PassInv'
<1>1. PICK matcher \in Matchers(kind, line) :
        /\ coverage' = <<MatchingCoverage(line, matcher)>>
        /\ pass' = [at |-> "scoring", kind |-> kind, line |-> line, day |-> day,
                    matched |-> matcher, segments |-> Cut(line, WaysOf(line, matcher)),
                    wanted |-> wanted, results |-> <<>>, late |-> FALSE,
                    asOf |-> IF plan = NoPlan THEN day ELSE plan.day, outer |-> coverage]
  BY DEF BeginWith
<1>2. pass = NoPass /\ plan' = plan /\ passes' = passes + 1 /\ passes \in Nat /\ coverage = <<>>
  <2>1. pass = NoPass /\ plan' = plan /\ passes' = passes + 1
    BY DEF BeginWith
  <2> QED  BY <2>1 DEF PassInv, Manifest
<1>3. /\ DOMAIN pass' = PassFields /\ pass'.at = "scoring" /\ pass'.line = line /\ pass'.day = day
      /\ pass'.matched = matcher /\ pass'.segments = Cut(line, WaysOf(line, matcher))
      /\ pass'.wanted = wanted /\ pass'.results = <<>> /\ pass'.outer = <<>>
      /\ pass'.asOf = (IF plan = NoPlan THEN day ELSE plan.day)
  BY <1>1, <1>2 DEF PassFields
<1>4. pass' # NoPass
  BY <1>3 DEF NoPass
<1>5. Placed(pass'.segments)
  BY <1>3, CutIsPlaced
<1>6. Begun' /\ Given'
  BY <1>2, <1>3, <1>5, EmptyPass DEF Begun, Given, OnALine, Placed
<1>7. Manifest'
  BY <1>1, <1>3, <1>4 DEF Manifest, MatchingCoverage
<1>8. passes' \in Nat /\ passes' # 0 /\ passes' - 1 = passes
  BY <1>2
<1>9. plan # NoPlan => PlanIsSound(passes)
  BY <1>2 DEF PassInv
<1>10. plan' # NoPlan => PlanIsSound(passes - 1)'
  BY <1>2, <1>8, <1>9 DEF PlanIsSound
<1> QED  BY <1>2, <1>4, <1>6, <1>7, <1>8, <1>10 DEF PassInv

\* A result that is sound, and of this pass when it is wanted, may be given next.
LEMMA GiveKeeps ==
  ASSUME PassInv, Scoring, NEW r, Row(r, Scorer, pass, passes), Scorer \in pass.wanted => OfThisPass(r),
         Give(r), UNCHANGED <<plan, coverage, passes>>
  PROVE  PassInv'
<1>1. pass # NoPass /\ pass.at = "scoring"
  BY DEF Scoring, NoPass
<1>2. Begun /\ Given /\ passes \in Nat /\ passes # 0
  BY <1>1 DEF PassInv
<1> DEFINE longer == Append(pass.results, r)
<1>3. /\ DOMAIN pass' = PassFields /\ pass'.at = pass.at /\ pass'.line = pass.line /\ pass'.day = pass.day
      /\ pass'.matched = pass.matched /\ pass'.segments = pass.segments
      /\ pass'.wanted = pass.wanted /\ pass'.results = longer /\ pass'.outer = pass.outer
      /\ pass'.asOf = pass.asOf
  BY <1>2 DEF Begun, PassFields, Give
<1>4. /\ Sequence(longer) /\ Len(pass.results) \in Nat /\ DOMAIN pass.results = 1 .. Len(pass.results)
      /\ Len(longer) = Len(pass.results) + 1 /\ DOMAIN longer = 1 .. Len(pass.results) + 1
      /\ \A i \in DOMAIN pass.results : longer[i] = pass.results[i]
      /\ longer[Len(pass.results) + 1] = r
  BY <1>2, AppendedTo DEF Given
<1> HIDE DEF longer
<1>5. Begun'
  BY <1>2, <1>3 DEF Begun, OnALine
<1>6. ASSUME NEW i \in DOMAIN longer
      PROVE  Row(longer[i], Scorers[i], pass, passes) /\ (Scorers[i] \in pass.wanted => OfThisPass(longer[i]))
  <2>1. CASE i \in DOMAIN pass.results
    BY <1>2, <1>4, <2>1 DEF Given
  <2>2. CASE i = Len(pass.results) + 1
    BY <1>4, <2>2 DEF Scorer
  <2> QED  BY <1>4, <1>6, <2>1, <2>2
<1>7. Len(longer) <= Len(Scorers)
  BY <1>4, PipelineAssumption DEF Scoring
<1>8. Given'
  BY <1>1, <1>3, <1>4, <1>6, <1>7 DEF Given, Row, OfThisPass
<1>9. pass' # NoPass
  BY <1>1, <1>3 DEF NoPass
<1>10. Manifest'
  BY <1>1, <1>3, <1>9 DEF PassInv, Manifest
<1> QED  BY <1>1, <1>2, <1>5, <1>8, <1>9, <1>10 DEF PassInv, PlanIsSound

LEMMA PassInvInitially == InitPlan => PassInv
  BY DEF InitPlan, PassInv, Manifest, NoPass, NoPlan

LEMMA ClosedWants ==
  ASSUME NEW only \in Asked \cup {RescoreSet, Names}
  PROVE  Closure(only) \in SUBSET Names /\ \A s \in Closure(only) : Reads[s] \subseteq Closure(only)
<1>1. only \in SUBSET Names
  BY ClosureIsClosed, PipelineAssumption DEF RescoreSet
<1> QED  BY <1>1, ClosureIsClosed

LEMMA BeginPassKeeps == ASSUME PassInv, BeginPass PROVE PassInv'
<1>1. Names \in SUBSET Names /\ \A s \in Names : Reads[s] \subseteq Names
  BY ReadsAreNames
<1>2. plan # NoPlan => plan.day \in Dates /\ plan.line \in Lines
  BY DEF PassInv, PlanIsSound, OnALine
<1>3. ASSUME NEW first \in First, Draw(first[1], first[2]) PROVE PassInv'
  <2>1. first[1] \in Lines /\ first[2] \in Dates
    BY PipelineAssumption
  <2> QED  BY <1>1, <1>3, <2>1, BeginKeeps DEF Draw
<1>4. ASSUME NEW handed \in Handed, Repair(handed[1], handed[2]) PROVE PassInv'
  <2>1. handed[1] \in Lines /\ handed[2] \in Dates
    BY PipelineAssumption
  <2> QED  BY <1>1, <1>4, <2>1, BeginKeeps DEF Repair
<1>5. ASSUME NEW line \in Lines, Propose(line) PROVE PassInv'
  BY <1>1, <1>2, <1>5, BeginKeeps DEF Propose
<1>6. ASSUME NEW day \in Dates, NEW only \in Asked \cup {RescoreSet}, Refresh(day, only) PROVE PassInv'
  <2>1. BeginWith("rescore", plan.line, day, Closure(only)) /\ plan # NoPlan
    BY <1>6 DEF Refresh
  <2> QED  BY <1>2, <2>1, ClosedWants, BeginKeeps
<1>7. ASSUME NEW line \in Lines, NEW only \in Asked \cup {Names}, Edit(line, only) PROVE PassInv'
  <2>1. BeginWith("rescore", line, plan.day, Closure(only)) /\ plan # NoPlan
    BY <1>7 DEF Edit
  <2> QED  BY <1>2, <2>1, ClosedWants, BeginKeeps
<1> QED  BY <1>3, <1>4, <1>5, <1>6, <1>7 DEF BeginPass

\* What is put aside before a pass is what the context has after it: nothing.
LEMMA EndKeeps ==
  ASSUME PassInv, pass # NoPass, pass' = NoPass, PutAside, passes' = passes,
         plan' # NoPlan => PlanIsSound(passes)'
  PROVE  PassInv'
<1>1. passes \in Nat /\ pass.outer = <<>>
  BY DEF PassInv, Begun
<1>2. coverage' = <<>>
  BY <1>1 DEF PutAside
<1>3. Manifest'
  BY <1>2 DEF Manifest
<1> QED  BY <1>1, <1>3 DEF PassInv

LEMMA KeepKeeps == ASSUME PassInv, Keep PROVE PassInv'
<1>1. pass # NoPass /\ pass.at = "scored" /\ pass' = NoPass /\ PutAside /\ passes' = passes
  BY DEF Keep, NoPass
<1>2. Begun /\ Given /\ passes \in Nat /\ passes # 0 /\ coverage = EntriesOf(pass)
  BY <1>1 DEF PassInv, Manifest
<1>3. CASE plan' = Scored
  <2>1. /\ DOMAIN plan' = PlanFields /\ plan'.at = "stored" /\ plan'.line = pass.line
        /\ plan'.segments = pass.segments /\ plan'.matched = pass.matched /\ plan'.day = pass.day
        /\ plan'.results = pass.results /\ plan'.coverage = coverage
    BY <1>3 DEF Scored, PlanFields
  <2>2. OnALine(plan')
    BY <1>2, <2>1 DEF Begun, OnALine
  <2>3. \A i \in DOMAIN plan'.results : Row(plan'.results[i], Scorers[i], plan', passes)
    BY <1>2, <2>1 DEF Given, Row
  <2>4. Sequence(plan'.results) /\ Len(plan'.results) = Len(Scorers)
    BY <1>1, <1>2, <2>1 DEF Given
  <2>5. plan'.coverage = EntriesOf(plan')
    BY <1>2, <2>1 DEF EntriesOf, Covered, MatchingCoverage
  <2>6. PlanIsSound(passes)'
    BY <1>1, <2>1, <2>2, <2>3, <2>4, <2>5 DEF PlanIsSound, OnALine, Row, EntriesOf
  <2> QED  BY <1>1, <2>6, EndKeeps
<1>4. CASE plan' = plan
  <2>1. plan # NoPlan => PlanIsSound(passes)
    <3> SUFFICES ASSUME plan # NoPlan PROVE PlanIsSound(passes)
      OBVIOUS
    <3>1. PlanIsSound(passes - 1) /\ passes - 1 \in Nat /\ (passes - 1) + 1 = passes
      BY <1>1, <1>2 DEF PassInv
    <3>2. PlanIsSound((passes - 1) + 1)
      BY <3>1, PlanStaysSound
    <3> QED  BY <3>1, <3>2
  <2>2. plan' # NoPlan => PlanIsSound(passes)'
    BY <1>1, <1>4, <2>1 DEF PlanIsSound
  <2> QED  BY <1>1, <2>2, EndKeeps
<1> QED  BY <1>3, <1>4 DEF Keep

LEMMA RaiseKeeps == ASSUME PassInv, Raise PROVE PassInv'
<1>1. pass # NoPass /\ pass' = NoPass /\ PutAside /\ passes' = passes /\ plan' = plan
  BY DEF Raise, NoPass
<1>2. passes \in Nat /\ passes # 0
  BY <1>1 DEF PassInv
<1>3. plan # NoPlan => PlanIsSound(passes)
  <2> SUFFICES ASSUME plan # NoPlan PROVE PlanIsSound(passes)
    OBVIOUS
  <2>1. PlanIsSound(passes - 1) /\ passes - 1 \in Nat /\ (passes - 1) + 1 = passes
    BY <1>1, <1>2 DEF PassInv
  <2>2. PlanIsSound((passes - 1) + 1)
    BY <2>1, PlanStaysSound
  <2> QED  BY <2>1, <2>2
<1>4. plan' # NoPlan => PlanIsSound(passes)'
  BY <1>1, <1>3 DEF PlanIsSound
<1> QED  BY <1>1, <1>4, EndKeeps

LEMMA ScorerIsNamed == ASSUME PassInv, Scoring PROVE pass # NoPass /\ Scorer \in Names
<1>1. pass # NoPass
  BY DEF Scoring, NoPass
<1>2. Len(pass.results) \in Nat
  BY <1>1, AppendedTo DEF PassInv, Given
<1>3. Len(pass.results) + 1 \in DOMAIN Scorers
  BY <1>2, PipelineAssumption DEF Scoring
<1> QED  BY <1>1, <1>3 DEF Scorer, Names

LEMMA CarryOneKeeps == ASSUME PassInv, CarryOne PROVE PassInv'
<1>1. Scoring /\ Scorer \notin pass.wanted /\ Give(Carry(Stored(Scorer)))
      /\ UNCHANGED <<plan, coverage, passes>>
  BY DEF CarryOne
<1>2. pass # NoPass /\ Scorer \in Names
  BY <1>1, ScorerIsNamed
<1>3. Begun /\ passes \in Nat /\ passes # 0
  BY <1>2 DEF PassInv
<1>4. plan # NoPlan
  BY <1>1, <1>2, <1>3 DEF Begun
<1>5. PlanIsSound(passes - 1)
  BY <1>2, <1>4 DEF PassInv
<1>6. Row(Carry(Stored(Scorer)), Scorer, pass, passes)
  BY <1>2, <1>3, <1>4, <1>5, CarriedIsSound
<1> QED  BY <1>1, <1>6, GiveKeeps

LEMMA SkipKeeps == ASSUME PassInv, Skip PROVE PassInv'
<1>1. Row(Unavailable(Scorer), Scorer, pass, passes) /\ OfThisPass(Unavailable(Scorer))
  BY UnavailableIsSound
<1> QED  BY <1>1, GiveKeeps DEF Skip

LEMMA ScoreOneKeeps == ASSUME PassInv, ScoreOne PROVE PassInv'
<1>1. Scoring /\ Scorer \in pass.wanted /\ UNCHANGED <<plan, coverage, passes>>
  BY DEF ScoreOne
<1>2. Begun /\ Given /\ passes \in Nat
  BY <1>1, ScorerIsNamed DEF PassInv
<1>3. ASSUME NEW found, NEW answered, Give(Measured(Scorer, found, answered)) PROVE PassInv'
  <2>1. Row(Measured(Scorer, found, answered), Scorer, pass, passes) /\ OfThisPass(Measured(Scorer, found, answered))
    BY <1>1, <1>2, MeasuredIsSound
  <2> QED  BY <1>1, <1>3, <2>1, GiveKeeps
<1>4. ASSUME Give(Unavailable(Scorer)) PROVE PassInv'
  <2>1. Row(Unavailable(Scorer), Scorer, pass, passes) /\ OfThisPass(Unavailable(Scorer))
    BY UnavailableIsSound
  <2> QED  BY <1>1, <1>4, <2>1, GiveKeeps
<1> QED  BY <1>3, <1>4 DEF ScoreOne

\* The deadline, and the end of the scorers: the results stay.
LEMMA PassGoesOn ==
  ASSUME PassInv, pass.at = "scoring", UNCHANGED <<plan, passes>>, NEW field \in {"late", "at"}, NEW value,
         pass' = [pass EXCEPT ![field] = value],
         IF field = "late" THEN coverage' = coverage
         ELSE /\ value = "scored" /\ ~Scoring
              /\ coverage' = coverage \o Covered(pass.results)
  PROVE  PassInv'
<1>1. pass # NoPass
  BY DEF NoPass
<1>2. Begun /\ Given /\ passes \in Nat /\ passes # 0
  BY <1>1 DEF PassInv
<1>3. /\ DOMAIN pass' = PassFields /\ pass'.line = pass.line /\ pass'.day = pass.day
      /\ pass'.matched = pass.matched /\ pass'.segments = pass.segments
      /\ pass'.wanted = pass.wanted /\ pass'.results = pass.results /\ pass'.outer = pass.outer
      /\ pass'.asOf = pass.asOf /\ pass'.at = (IF field = "late" THEN "scoring" ELSE "scored")
  BY <1>2 DEF Begun, PassFields
<1>4. pass' # NoPass
  BY <1>3 DEF NoPass
<1>5. Len(pass.results) \in Nat /\ Len(Scorers) \in Nat
  BY <1>2, AppendedTo, EmptyPass DEF Given
<1>6. Begun'
  BY <1>2, <1>3 DEF Begun, OnALine
<1>7. field = "at" => Len(pass.results) = Len(Scorers)
  BY <1>2, <1>5 DEF Scoring, Given
<1>8. Given'
  BY <1>2, <1>3, <1>7 DEF Given, Row, OfThisPass
<1>9. Manifest'
  BY <1>1, <1>3, <1>4 DEF PassInv, Manifest, EntriesOf, Covered, MatchingCoverage
<1>10. plan # NoPlan => PlanIsSound(passes - 1)'
  BY <1>1 DEF PassInv, PlanIsSound
<1> QED  BY <1>2, <1>4, <1>6, <1>8, <1>9, <1>10 DEF PassInv

LEMMA MeasureDetourKeeps == ASSUME PassInv, MeasureDetour PROVE PassInv'
<1>1. pass = NoPass /\ plan # NoPlan /\ UNCHANGED <<pass, coverage, passes>>
      /\ plan' = [plan EXCEPT !.shortest = plan.line]
  BY DEF MeasureDetour
<1>2. PlanIsSound(passes) /\ DOMAIN plan = PlanFields
  BY <1>1 DEF PassInv, PlanIsSound
<1>3. /\ DOMAIN plan' = PlanFields /\ plan'.at = plan.at /\ plan'.line = plan.line
      /\ plan'.segments = plan.segments /\ plan'.matched = plan.matched /\ plan'.day = plan.day
      /\ plan'.results = plan.results /\ plan'.coverage = plan.coverage
  BY <1>1, <1>2 DEF PlanFields
<1>4. PlanIsSound(passes)'
  BY <1>1, <1>2, <1>3 DEF PlanIsSound, OnALine, Row, EntriesOf, Covered, MatchingCoverage
<1>5. plan' # NoPlan
  BY <1>2, <1>3 DEF NoPlan, PlanIsSound
<1>6. Manifest'
  BY <1>1 DEF PassInv, Manifest
<1> QED  BY <1>1, <1>4, <1>6 DEF PassInv

LEMMA PassInvKept == PassInv /\ [NextPass \/ MeasureDetour]_planVars => PassInv'
<1> SUFFICES ASSUME PassInv, [NextPass \/ MeasureDetour]_planVars PROVE PassInv'
  OBVIOUS
<1>1. CASE Late
  <2>1. pass' = [pass EXCEPT !["late"] = TRUE] /\ UNCHANGED <<plan, coverage, passes>> /\ pass.at = "scoring"
    BY <1>1 DEF Late, Scoring
  <2> QED  BY <2>1, PassGoesOn
<1>2. CASE Drain
  <2>1. /\ pass' = [pass EXCEPT !["at"] = "scored"] /\ UNCHANGED <<plan, passes>>
        /\ pass.at = "scoring" /\ ~Scoring /\ coverage' = coverage \o Covered(pass.results)
    BY <1>2 DEF Drain
  <2> QED  BY <2>1, PassGoesOn
<1>3. CASE UNCHANGED planVars
  BY <1>3 DEF planVars, PassInv, Manifest, EntriesOf, Covered, MatchingCoverage, Begun, Given, Row, OfThisPass,
              OnALine, PlanIsSound
<1> QED  BY <1>1, <1>2, <1>3, BeginPassKeeps, CarryOneKeeps, SkipKeeps, ScoreOneKeeps, KeepKeeps, RaiseKeeps,
            MeasureDetourKeeps DEF NextPass

LEMMA PassesAreSound == SpecRead => []PassInv
  BY PassInvInitially, PassInvKept, PTL DEF SpecRead

\* Between and during the passes, a plan's results are sound and traced.
LEMMA PlanIsTraced ==
  ASSUME PassInv, plan # NoPlan PROVE PlanIsSound(passes)
<1>1. CASE pass = NoPass
  BY <1>1 DEF PassInv
<1>2. CASE pass # NoPass
  <2>1. PlanIsSound(passes - 1) /\ passes - 1 \in Nat /\ (passes - 1) + 1 = passes
    BY <1>2 DEF PassInv
  <2>2. PlanIsSound((passes - 1) + 1)
    BY <2>1, PlanStaysSound
  <2> QED  BY <2>1, <2>2
<1> QED  BY <1>1, <1>2

-----------------------------------------------------------------------------
\* What a scorer read, it read of its own day and over its own line: no result that was
\* carried over the pass is handed to one that is measured in it (closure, score_once).
THEOREM OldIsNeverReadAsNew == SpecRead => []PriorsAreOfTheirPass
<1>1. PassInv => PriorsAreOfTheirPass
  <2> SUFFICES ASSUME PassInv, plan # NoPlan, NEW i \in DOMAIN plan.results,
                      plan.results[i].carriedFrom = NoDate
               PROVE  plan.results[i].read \subseteq {<<plan.results[i].day, plan.results[i].total>>}
    BY DEF PriorsAreOfTheirPass, Fresh, Results
  <2> QED  BY PlanIsTraced DEF PlanIsSound, Row, Sound
<1> QED  BY <1>1, PassesAreSound, PTL

\* However often a plan is scored again, for whatever days and over whatever lines, each of
\* its results is of the day it tells, each measurement and flag of a segment that is there,
\* whose ends are where they were measured but for one tolerance a pass, and each total of the
\* plan's own line (carry, reground).
THEOREM WhatIsCarriedIsTraced == SpecRead => []CarriedIsWhatItTells
<1>1. PassInv => CarriedIsWhatItTells
  <2> SUFFICES ASSUME PassInv, plan # NoPlan, NEW r \in Results
               PROVE  /\ r.day = IF r.carriedFrom = NoDate THEN plan.day ELSE r.carriedFrom
                      /\ \A m \in r.measured \cup r.hard \cup r.soft :
                           m.id \in DOMAIN plan.segments /\ Traceable(plan.segments[m.id].ends, m.ends)
                      /\ r.total \in {NoLine, plan.line}
    BY DEF CarriedIsWhatItTells
  <2>1. PICK i \in DOMAIN plan.results : r = plan.results[i]
    BY DEF Results
  <2>2. Row(r, Scorers[i], plan, passes)
    BY <2>1, PlanIsTraced DEF PlanIsSound
  <2> QED  BY <2>2 DEF Row, Sound, AllTraced, Traced, Traceable
<1> QED  BY <1>1, PassesAreSound, PTL

\* What a stored plan says was asked is what its own results asked, in their order, and the
\* context is left clean: whatever candidates were rejected and passes failed on it (score_once).
THEOREM CoverageIsItsOwn == SpecRead => []CoverageIsOfThePlan
<1>1. PassInv => CoverageIsOfThePlan
  <2> SUFFICES ASSUME PassInv PROVE CoverageIsOfThePlan
    OBVIOUS
  <2>1. pass = NoPass => coverage = <<>>
    BY DEF PassInv, Manifest
  <2>2. plan # NoPlan => plan.coverage = EntriesOf(plan)
    BY PlanIsTraced DEF PlanIsSound
  <2> QED  BY <2>1, <2>2 DEF CoverageIsOfThePlan, EntriesOf
<1> QED  BY <1>1, PassesAreSound, PTL

-----------------------------------------------------------------------------
\* The first two together (run_scorers): for any registry and any number of passes, no number
\* that a plan tells was made of another day, another line or other ground than it tells.
THEOREM ResultsTellTrue == SpecRead => []ResultsAreWhatTheyTell
<1>1. PriorsAreOfTheirPass /\ CarriedIsWhatItTells => ResultsAreWhatTheyTell
  BY DEF ResultsAreWhatTheyTell
<1> QED  BY <1>1, OldIsNeverReadAsNew, WhatIsCarriedIsTraced, PTL

-----------------------------------------------------------------------------
\* ---- a result of each scorer, and one only
LEMMA EachIsNamed ==
  ASSUME NEW p, DOMAIN p.results = DOMAIN Scorers,
         \A i \in DOMAIN Scorers : p.results[i].name = Scorers[i],
         NEW i \in DOMAIN Scorers
  PROVE  ResultIn(p, Scorers[i]) = p.results[i]
<1> DEFINE all == {p.results[j] : j \in DOMAIN p.results}
           r == ResultIn(p, Scorers[i])
<1>1. p.results[i] \in all /\ p.results[i].name = Scorers[i]
  OBVIOUS
<1>2. r \in all /\ r.name = Scorers[i]
  BY <1>1 DEF ResultIn
<1>3. PICK j \in DOMAIN Scorers : r = p.results[j]
  BY <1>2
<1>4. Scorers[j] = Scorers[i]
  BY <1>2, <1>3
<1>5. j = i
  BY <1>4, SheetsAssumption
<1> QED  BY <1>3, <1>5

LEMMA PlanIsNamed ==
  ASSUME NEW n, PlanIsSound(n)
  PROVE  /\ DOMAIN plan.results = DOMAIN Scorers
         /\ \A i \in DOMAIN Scorers : plan.results[i].name = Scorers[i] /\ ResultIn(plan, Scorers[i]) = plan.results[i]
         /\ \A r \in Results : r.name \in Names /\ ResultIn(plan, r.name) = r
         /\ \A s \in Names : ResultIn(plan, s) \in Results /\ ResultIn(plan, s).name = s
<1>1. DOMAIN plan.results = DOMAIN Scorers
  <2>1. DOMAIN plan.results = 1 .. Len(plan.results) /\ DOMAIN Scorers = 1 .. Len(Scorers)
    BY PipelineAssumption, AppendedTo DEF PlanIsSound
  <2> QED  BY <2>1 DEF PlanIsSound
<1>2. \A i \in DOMAIN Scorers : plan.results[i].name = Scorers[i]
  BY <1>1 DEF PlanIsSound, Row, Sound
<1>3. \A i \in DOMAIN Scorers : ResultIn(plan, Scorers[i]) = plan.results[i]
  BY <1>1, <1>2, EachIsNamed
<1>4. ASSUME NEW r \in Results PROVE r.name \in Names /\ ResultIn(plan, r.name) = r
  <2>1. PICK i \in DOMAIN Scorers : r = plan.results[i]
    BY <1>1 DEF Results
  <2> QED  BY <1>2, <1>3, <2>1 DEF Names
<1>5. ASSUME NEW s \in Names PROVE ResultIn(plan, s) \in Results /\ ResultIn(plan, s).name = s
  <2>1. PICK i \in DOMAIN Scorers : s = Scorers[i]
    BY DEF Names
  <2> QED  BY <1>1, <1>2, <1>3, <2>1 DEF Results
<1> QED  BY <1>1, <1>2, <1>3, <1>4, <1>5

-----------------------------------------------------------------------------
\* ---- what a result tells, and what it told before it was carried
Met(w) == w.at \in Nat /\ w.pos \in Nat /\ \A line \in Lines : w.at <= Length(line)
Counted(segments) == DOMAIN segments \subseteq Nat /\ IsFiniteSet(DOMAIN segments)
Telling(r, s, segments) ==
  /\ r.answered \in {"all", "part", "nothing"} /\ (r.answered = "part" => s \in Partial)
  /\ r.answered = "nothing" => r.measured = {} /\ r.hard = {} /\ r.total = NoLine
  /\ r.carriedFrom = NoDate /\ r.answered # "nothing" => {m.id : m \in r.measured} = DOMAIN segments
  /\ IsFiniteSet(r.measured) /\ IsFiniteSet(r.hard) /\ IsFiniteSet(r.found)
  /\ \A w \in r.found : Met(w)
Carried(now, was) ==
  /\ now.answered = was.answered /\ IsFiniteSet(was.measured) /\ IsFiniteSet(was.hard)
  /\ \A m \in was.measured \cup was.hard : m = [id |-> m.id, ends |-> m.ends]
  /\ \/ now.measured = was.measured /\ now.hard = was.hard
     \/ /\ \E landed : now.measured = Rekeyed(was.measured, landed) /\ now.hard = Rekeyed(was.hard, landed)
        /\ \/ now.lost
           \/ Cardinality(now.measured) = Cardinality(was.measured) /\ Cardinality(now.hard) = Cardinality(was.hard)

LEMMA CutIsCounted == ASSUME NEW line \in Lines, NEW ways PROVE Counted(Cut(line, ways))
<1> DEFINE cuts == Boundaries(line, ways)
<1>1. line \in Seq(Point) /\ line # <<>>
  BY PipelineAssumption DEF Point, Place2, NoLine
<1>2. Len(cuts) \in Nat
  BY <1>1, BoundariesAreCuts DEF CutsOf
<1>3. DOMAIN Cut(line, ways) = 1 .. Len(cuts) - 1
  BY DEF Cut
<1> HIDE DEF cuts
<1>4. IsFiniteSet(1 .. Len(cuts) - 1)
  BY <1>2, FS_Interval
<1> QED  BY <1>2, <1>3, <1>4 DEF Counted

LEMMA ImageIsFinite ==
  ASSUME NEW f, IsFiniteSet(DOMAIN f)
  PROVE  LET image == {f[x] : x \in DOMAIN f}
         IN  IsFiniteSet(image) /\ Cardinality(image) \in Nat /\ Cardinality(image) <= Cardinality(DOMAIN f)
<1> DEFINE image == {f[x] : x \in DOMAIN f}
           g == [x \in DOMAIN f |-> f[x]]
<1>1. g \in Surjection(DOMAIN f, image)
  BY DEF Surjection
<1>2. IsFiniteSet(image) /\ Cardinality(image) <= Cardinality(DOMAIN f)
  BY <1>1, FS_Surjection
<1> QED  BY <1>2, FS_CardinalityType

LEMMA RekeyedIsFinite ==
  ASSUME NEW kept, IsFiniteSet(kept), NEW landed
  PROVE  IsFiniteSet(Rekeyed(kept, landed)) /\ (kept = {} => Rekeyed(kept, landed) = {})
<1> DEFINE some == {k \in kept : k.id \in DOMAIN landed}
           f == [m \in some |-> [m EXCEPT !.id = landed[m.id]]]
<1>1. IsFiniteSet(some)
  BY FS_Subset
<1>2. Rekeyed(kept, landed) = {f[m] : m \in some}
  BY DEF Rekeyed
<1>3. IsFiniteSet({f[m] : m \in some})
  BY <1>1, ImageIsFinite
<1> QED  BY <1>2, <1>3

\* What a finder finds is a waypoint of the line, whichever it is.
LEMMA FoundIsMet ==
  ASSUME NEW s \in Names, NEW found \in Finds[s], NEW segments
  PROVE  LET placed == {Place(segments, w) : w \in found}
         IN  IsFiniteSet(placed) /\ \A w \in placed : Met(w)
<1> DEFINE f == [w \in found |-> Place(segments, w)]
           placed == {Place(segments, w) : w \in found}
<1>1. IsFiniteSet(found) /\ \A w \in found : Met(w)
  BY SheetsAssumption DEF Met
<1>2. placed = {f[w] : w \in found} /\ DOMAIN f = found
  OBVIOUS
<1>3. IsFiniteSet({f[w] : w \in found})
  <2> HIDE DEF f
  <2> QED  BY <1>1, <1>2, ImageIsFinite
<1>4. ASSUME NEW w \in placed PROVE Met(w)
  <2>1. PICK v \in found : w = Place(segments, v)
    BY <1>4
  <2>2. w.at = v.at /\ w.pos = v.pos
    BY <2>1 DEF Place
  <2> QED  BY <1>1, <2>1, <2>2 DEF Met
<1> QED  BY <1>2, <1>3, <1>4

LEMMA MeasuredTells ==
  ASSUME Counted(pass.segments), NEW s \in Names, NEW found \in Finds[s],
         NEW answered \in {"all", "part"}, answered = "part" => s \in Partial
  PROVE  Telling(Measured(s, found, answered), s, pass.segments)
<1> DEFINE r == Measured(s, found, answered)
           all == {OnGround(pass.segments, id) : id \in DOMAIN pass.segments}
           f == [id \in DOMAIN pass.segments |-> OnGround(pass.segments, id)]
<1>1. /\ r.measured = all /\ r.hard \subseteq all /\ r.answered = answered
      /\ r.found = {Place(pass.segments, w) : w \in found}
  BY ResultFields DEF Measured, Fields, Flagged
<1>2. IsFiniteSet(all)
  <2>1. all = {f[id] : id \in DOMAIN f} /\ IsFiniteSet(DOMAIN f)
    BY DEF Counted
  <2> HIDE DEF f
  <2> QED  BY <2>1, ImageIsFinite
<1>3. {m.id : m \in all} = DOMAIN pass.segments
  <2>1. \A id \in DOMAIN pass.segments : OnGround(pass.segments, id).id = id
    BY DEF OnGround
  <2> QED  BY <2>1
<1>4. IsFiniteSet(r.hard)
  BY <1>1, <1>2, FS_Subset
<1>5. IsFiniteSet(r.found) /\ \A w \in r.found : Met(w)
  BY <1>1, FoundIsMet
<1> HIDE DEF r, all, f
<1>6. Telling(r, s, pass.segments)
  BY <1>1, <1>2, <1>3, <1>4, <1>5 DEF Telling
<1> QED  BY <1>6 DEF r

LEMMA UnavailableTells == ASSUME NEW s PROVE Telling(Unavailable(s), s, pass.segments)
<1> DEFINE r == Unavailable(s)
<1>1. r.measured = {} /\ r.hard = {} /\ r.found = {} /\ r.total = NoLine /\ r.answered = "nothing"
  BY DEF Unavailable, Result
<1> HIDE DEF r
<1>2. Telling(r, s, pass.segments)
  BY <1>1, FS_EmptySet DEF Telling
<1> QED  BY <1>2 DEF r

\* Carried, a result tells no more than it told; and of ground it lost it says so.
LEMMA CarryTells ==
  ASSUME pass.asOf # NoDate, NEW r, DOMAIN r = Fields, NEW s, NEW segments, Telling(r, s, segments),
         \A m \in r.measured \cup r.hard : m = [id |-> m.id, ends |-> m.ends]
  PROVE  Telling(Carry(r), s, pass.segments) /\ Carried(Carry(r), r) /\ Carry(r).carriedFrom # NoDate
<1> DEFINE landed == Landed(plan.segments, pass.segments)
           g == Grounded(r, landed)
           c == Carry(r)
<1>1. CASE ~Moved(plan.line, plan.segments, pass.line, pass.segments)
  <2>1. c = SinceThen(r)
    BY <1>1 DEF Carry
  <2>2. /\ c.measured = r.measured /\ c.hard = r.hard /\ c.found = r.found /\ c.total = r.total
        /\ c.answered = r.answered /\ c.carriedFrom # NoDate
    BY <2>1 DEF SinceThen, Fields
  <2> HIDE DEF c
  <2> QED  BY <2>2 DEF Telling, Carried, c
<1>2. CASE Moved(plan.line, plan.segments, pass.line, pass.segments)
  <2> DEFINE lost == Kept(g) # Kept(r)
  <2>1. c = [g EXCEPT !.lost = lost]
    BY <1>2 DEF Carry
  <2>2. /\ DOMAIN g = Fields /\ g.measured = Rekeyed(r.measured, landed) /\ g.hard = Rekeyed(r.hard, landed)
        /\ g.found \subseteq r.found /\ g.total = NoLine /\ g.answered = r.answered /\ g.carriedFrom # NoDate
    BY DEF Grounded, SinceThen, Fields
  <2>3. ~lost => Cardinality(g.measured) = Cardinality(r.measured) /\ Cardinality(g.hard) = Cardinality(r.hard)
    BY DEF Kept
  <2> HIDE DEF g, lost, landed
  <2>4. /\ c.measured = Rekeyed(r.measured, landed) /\ c.hard = Rekeyed(r.hard, landed)
        /\ c.found \subseteq r.found /\ c.total = NoLine /\ c.answered = r.answered /\ c.carriedFrom # NoDate
        /\ \/ c.lost
           \/ Cardinality(c.measured) = Cardinality(r.measured) /\ Cardinality(c.hard) = Cardinality(r.hard)
    BY <2>1, <2>2, <2>3 DEF Fields
  <2> HIDE DEF c
  <2>5. /\ IsFiniteSet(r.measured) /\ IsFiniteSet(r.hard) /\ IsFiniteSet(r.found) /\ \A w \in r.found : Met(w)
        /\ r.answered \in {"all", "part", "nothing"} /\ (r.answered = "part" => s \in Partial)
        /\ r.answered = "nothing" => r.measured = {} /\ r.hard = {}
    BY DEF Telling
  <2>6. IsFiniteSet(c.measured) /\ IsFiniteSet(c.hard) /\ IsFiniteSet(c.found)
    BY <2>4, <2>5, RekeyedIsFinite, FS_Subset
  <2>7. r.answered = "nothing" => c.measured = {} /\ c.hard = {}
    BY <2>4, <2>5, RekeyedIsFinite
  <2>8. Telling(c, s, pass.segments)
    BY <2>4, <2>5, <2>6, <2>7 DEF Telling
  <2>9. Carried(c, r)
    BY <2>4, <2>5 DEF Carried
  <2> QED  BY <2>4, <2>8, <2>9 DEF c
<1> QED  BY <1>1, <1>2

-----------------------------------------------------------------------------
\* ---- the invariant of what is read: each result tells what it has, a carried one of what
\* the plan had, and the last re-scoring of the plan it replaced.
TellingOn(p) == Counted(p.segments) /\ \A i \in DOMAIN p.results : Telling(p.results[i], Scorers[i], p.segments)
CarriedFrom(results, p) ==
  \A i \in DOMAIN results : results[i].carriedFrom # NoDate => Carried(results[i], ResultIn(p, Scorers[i]))
PassTells ==
  /\ TellingOn(pass) /\ delta = NoDelta
  /\ pass.kind \in {"propose", "rescore"} => plan # NoPlan
  /\ CarriedFrom(pass.results, plan)
PlanTells == TellingOn(plan) /\ plan.original \in Lines \cup {NoLine} /\ plan.shortest \in {NoLine, plan.line}
DeltaIsOf ==
  /\ plan # NoPlan /\ delta.told = Told(delta.was, plan) /\ CarriedFrom(plan.results, delta.was)
ReadInv ==
  /\ pass # NoPass => PassTells
  /\ plan # NoPlan => PlanTells
  /\ delta # NoDelta => DeltaIsOf

LEMMA ReadInvInitially == InitPlan => ReadInv
  BY DEF InitPlan, ReadInv, NoPass, NoPlan, NoDelta

LEMMA BeginReads ==
  ASSUME PassInv, ReadInv, NEW kind, NEW line \in Lines, NEW day, NEW wanted,
         kind \in {"propose", "rescore"} => plan # NoPlan,
         BeginWith(kind, line, day, wanted)
  PROVE  ReadInv'
<1>1. PICK matcher \in Matchers(kind, line) :
        pass' = [at |-> "scoring", kind |-> kind, line |-> line, day |-> day,
                 matched |-> matcher, segments |-> Cut(line, WaysOf(line, matcher)),
                 wanted |-> wanted, results |-> <<>>, late |-> FALSE,
                 asOf |-> IF plan = NoPlan THEN day ELSE plan.day, outer |-> coverage]
  BY DEF BeginWith
<1>2. /\ pass'.kind = kind /\ pass'.segments = Cut(line, WaysOf(line, matcher)) /\ pass'.results = <<>>
      /\ plan' = plan /\ delta' = NoDelta
  BY <1>1 DEF BeginWith
<1>3. Counted(pass'.segments)
  BY <1>2, CutIsCounted
<1>4. PassTells'
  BY <1>2, <1>3, EmptyPass DEF PassTells, TellingOn, CarriedFrom, Counted
<1>5. (plan # NoPlan => PlanTells)'
  BY <1>2 DEF ReadInv, PlanTells, TellingOn, Counted, Telling, Met
<1> QED  BY <1>2, <1>4, <1>5 DEF ReadInv

LEMMA BeginPassReads == ASSUME PassInv, ReadInv, BeginPass PROVE ReadInv'
<1>1. ASSUME NEW first \in First, Draw(first[1], first[2]) PROVE ReadInv'
  BY <1>1, BeginReads, PipelineAssumption DEF Draw
<1>2. ASSUME NEW handed \in Handed, Repair(handed[1], handed[2]) PROVE ReadInv'
  BY <1>2, BeginReads, PipelineAssumption DEF Repair
<1>3. ASSUME NEW line \in Lines, Propose(line) PROVE ReadInv'
  BY <1>3, BeginReads DEF Propose
<1>4. ASSUME NEW day \in Dates, NEW only \in Asked \cup {RescoreSet}, Refresh(day, only) PROVE ReadInv'
  <2>1. plan # NoPlan /\ plan.line \in Lines /\ BeginWith("rescore", plan.line, day, Closure(only))
    BY <1>4 DEF Refresh, PassInv, PlanIsSound, OnALine
  <2> QED  BY <2>1, BeginReads
<1>5. ASSUME NEW line \in Lines, NEW only \in Asked \cup {Names}, Edit(line, only) PROVE ReadInv'
  BY <1>5, BeginReads DEF Edit
<1> QED  BY <1>1, <1>2, <1>3, <1>4, <1>5 DEF BeginPass

LEMMA GiveReads ==
  ASSUME PassInv, ReadInv, Scoring, NEW r, Telling(r, Scorer, pass.segments),
         r.carriedFrom # NoDate => Carried(r, ResultIn(plan, Scorer)),
         Give(r), UNCHANGED <<plan, delta>>
  PROVE  ReadInv'
<1>1. pass # NoPass
  BY DEF Scoring, NoPass
<1>2. Begun /\ Given /\ PassTells
  BY <1>1 DEF PassInv, ReadInv
<1> DEFINE longer == Append(pass.results, r)
<1>3. /\ pass'.segments = pass.segments /\ pass'.kind = pass.kind /\ pass'.results = longer
  BY <1>2 DEF Begun, PassFields, Give
<1>4. /\ DOMAIN pass.results = 1 .. Len(pass.results) /\ DOMAIN longer = 1 .. Len(pass.results) + 1
      /\ \A i \in DOMAIN pass.results : longer[i] = pass.results[i]
      /\ longer[Len(pass.results) + 1] = r /\ Len(pass.results) \in Nat
  BY <1>2, AppendedTo DEF Given
<1> HIDE DEF longer
<1>5. ASSUME NEW i \in DOMAIN longer
      PROVE  /\ Telling(longer[i], Scorers[i], pass.segments)
             /\ longer[i].carriedFrom # NoDate => Carried(longer[i], ResultIn(plan, Scorers[i]))
  <2>1. CASE i \in DOMAIN pass.results
    BY <1>2, <1>4, <2>1 DEF PassTells, TellingOn, CarriedFrom
  <2>2. CASE i = Len(pass.results) + 1
    BY <1>4, <2>2 DEF Scorer
  <2> QED  BY <1>4, <1>5, <2>1, <2>2
<1>6. PassTells'
  <2>1. TellingOn(pass')
    BY <1>2, <1>3, <1>5 DEF PassTells, TellingOn
  <2>2. CarriedFrom(pass'.results, plan)
    BY <1>3, <1>5 DEF CarriedFrom
  <2>3. /\ TellingOn(pass)' /\ CarriedFrom(pass.results, plan)'
    BY <2>1, <2>2
  <2> QED  BY <1>2, <1>3, <2>3 DEF PassTells
<1>7. (plan # NoPlan => PlanTells)'
  BY DEF ReadInv, PlanTells, TellingOn, Counted, Telling, Met
<1>8. delta' = NoDelta
  BY <1>2 DEF PassTells
<1> QED  BY <1>6, <1>7, <1>8 DEF ReadInv

LEMMA CarryOneReads == ASSUME PassInv, ReadInv, CarryOne PROVE ReadInv'
<1>1. Scoring /\ Scorer \notin pass.wanted /\ Give(Carry(Stored(Scorer))) /\ UNCHANGED <<plan, delta>>
  BY DEF CarryOne
<1>2. pass # NoPass /\ Scorer \in Names
  BY <1>1, ScorerIsNamed
<1>3. Begun /\ plan # NoPlan /\ PlanIsSound(passes - 1) /\ PlanTells
  BY <1>1, <1>2 DEF PassInv, Begun, ReadInv
<1>4. PICK i \in DOMAIN Scorers : Scorer = Scorers[i]
  BY <1>2 DEF Names
<1>5. /\ Stored(Scorer) = plan.results[i] /\ ResultIn(plan, Scorer) = plan.results[i]
      /\ i \in DOMAIN plan.results
  BY <1>3, <1>4, PlanIsNamed DEF Stored, ResultIn
<1> DEFINE was == plan.results[i]
<1>6. /\ DOMAIN was = Fields /\ Telling(was, Scorer, plan.segments)
      /\ \A m \in was.measured \cup was.hard : m = [id |-> m.id, ends |-> m.ends]
  BY <1>3, <1>4, <1>5 DEF PlanIsSound, Row, Sound, AllTraced, Traced, PlanTells, TellingOn
<1>7. pass.asOf # NoDate
  BY <1>3, PipelineAssumption DEF Begun, PlanIsSound, OnALine
<1>8. Telling(Carry(was), Scorer, pass.segments) /\ Carried(Carry(was), was)
  BY <1>6, <1>7, CarryTells
<1> QED  BY <1>1, <1>5, <1>8, GiveReads

LEMMA SkipReads == ASSUME PassInv, ReadInv, Skip PROVE ReadInv'
<1>1. Telling(Unavailable(Scorer), Scorer, pass.segments) /\ Unavailable(Scorer).carriedFrom = NoDate
  BY UnavailableTells, ResultFields DEF Unavailable
<1> QED  BY <1>1, GiveReads DEF Skip

LEMMA ScoreOneReads == ASSUME PassInv, ReadInv, ScoreOne PROVE ReadInv'
<1>1. Scoring /\ UNCHANGED <<plan, delta>>
  BY DEF ScoreOne
<1>2. pass # NoPass /\ Scorer \in Names /\ Counted(pass.segments)
  BY <1>1, ScorerIsNamed DEF ReadInv, PassTells, TellingOn
<1>3. ASSUME NEW found \in Finds[Scorer], NEW answered \in {"all", "part"}, answered = "part" => Scorer \in Partial,
             Give(Measured(Scorer, found, answered))
      PROVE  ReadInv'
  <2>1. Telling(Measured(Scorer, found, answered), Scorer, pass.segments)
    BY <1>2, <1>3, MeasuredTells
  <2>2. Measured(Scorer, found, answered).carriedFrom = NoDate
    BY MeasuredFields
  <2> QED  BY <1>1, <1>3, <2>1, <2>2, GiveReads
<1>4. ASSUME Give(Unavailable(Scorer)) PROVE ReadInv'
  <2>1. Telling(Unavailable(Scorer), Scorer, pass.segments) /\ Unavailable(Scorer).carriedFrom = NoDate
    BY UnavailableTells, ResultFields DEF Unavailable
  <2> QED  BY <1>1, <1>4, <2>1, GiveReads
<1>5. CASE \E found \in Finds[Scorer] : Give(Measured(Scorer, found, "all"))
  BY <1>3, <1>5
<1>6. CASE \E found \in Finds[Scorer] : Scorer \in Partial /\ Give(Measured(Scorer, found, "part"))
  BY <1>3, <1>6
<1> QED  BY <1>4, <1>5, <1>6 DEF ScoreOne

\* The deadline and the end of the scorers leave the results as they are.
LEMMA PassReadsOn ==
  ASSUME PassInv, ReadInv, pass # NoPass, UNCHANGED <<plan, delta>>, NEW field \in {"late", "at"}, NEW value,
         pass' = [pass EXCEPT ![field] = value]
  PROVE  ReadInv'
<1>1. Begun /\ PassTells
  BY DEF PassInv, ReadInv
<1>2. pass'.segments = pass.segments /\ pass'.kind = pass.kind /\ pass'.results = pass.results
  BY <1>1 DEF Begun, PassFields
<1>3. PassTells'
  BY <1>1, <1>2 DEF PassTells, TellingOn
<1>4. delta' = NoDelta
  BY <1>1 DEF PassTells
<1>5. (plan # NoPlan => PlanTells)'
  BY DEF ReadInv, PlanTells, TellingOn
<1> QED  BY <1>3, <1>4, <1>5 DEF ReadInv

LEMMA KeepReads == ASSUME PassInv, ReadInv, Keep PROVE ReadInv'
<1>1. pass # NoPass /\ pass' = NoPass
  BY DEF Keep, NoPass
<1>2. Begun /\ PassTells
  BY <1>1 DEF PassInv, ReadInv
<1>3. pass.kind = "propose" => plan # NoPlan /\ plan.line \in Lines
  BY <1>2 DEF PassTells, PassInv, PlanIsSound, OnALine
<1>4. /\ Scored # NoPlan /\ Scored.segments = pass.segments /\ Scored.results = pass.results
      /\ Scored.original \in Lines \cup {NoLine} /\ Scored.shortest = NoLine
  BY <1>3 DEF Scored, NoPlan
<1>5. CASE plan' = Scored
  <2>1. PlanTells'
    BY <1>2, <1>4, <1>5 DEF PassTells, PlanTells, TellingOn
  <2>2. CASE pass.kind = "rescore"
    <3>1. plan # NoPlan /\ delta' = [at |-> "told", was |-> plan, told |-> Told(plan, Scored)]
      BY <1>2, <2>2 DEF Keep, PassTells
    <3>2. delta'.was = plan /\ delta'.told = Told(plan, Scored)
      BY <3>1
    <3>3. CarriedFrom(plan'.results, delta'.was)
      BY <1>2, <1>4, <1>5, <3>2 DEF PassTells
    <3>4. DeltaIsOf'
      BY <1>4, <1>5, <3>2, <3>3 DEF DeltaIsOf
    <3> QED  BY <1>1, <2>1, <3>4 DEF ReadInv
  <2>3. CASE pass.kind # "rescore"
    <3>1. delta' = NoDelta
      BY <2>3 DEF Keep
    <3> QED  BY <1>1, <2>1, <3>1 DEF ReadInv
  <2> QED  BY <2>2, <2>3
<1>6. CASE plan' = plan /\ pass.kind = "propose"
  <2>1. delta' = NoDelta
    BY <1>6 DEF Keep
  <2>2. (plan # NoPlan => PlanTells)'
    BY <1>6 DEF ReadInv, PlanTells
  <2> QED  BY <1>1, <2>1, <2>2 DEF ReadInv
<1> QED  BY <1>5, <1>6 DEF Keep

LEMMA RaiseReads == ASSUME PassInv, ReadInv, Raise PROVE ReadInv'
<1>1. pass # NoPass /\ pass' = NoPass /\ UNCHANGED <<plan, delta>>
  BY DEF Raise, NoPass
<1>2. (plan # NoPlan => PlanTells)'
  BY <1>1 DEF ReadInv, PlanTells
<1>3. delta' = NoDelta
  BY <1>1 DEF ReadInv, PassTells
<1> QED  BY <1>1, <1>2, <1>3 DEF ReadInv

LEMMA MeasureDetourReads == ASSUME PassInv, ReadInv, MeasureDetour PROVE ReadInv'
<1>1. pass = NoPass /\ plan # NoPlan /\ UNCHANGED <<pass, delta>>
      /\ plan' = [plan EXCEPT !.shortest = plan.line]
  BY DEF MeasureDetour
<1>2. DOMAIN plan = PlanFields /\ PlanTells
  BY <1>1 DEF PassInv, PlanIsSound, ReadInv
<1>3. /\ plan'.results = plan.results /\ plan'.segments = plan.segments /\ plan'.original = plan.original
      /\ plan'.shortest = plan.line /\ plan'.line = plan.line /\ plan' # NoPlan
  <2>1. DOMAIN plan' = PlanFields /\ DOMAIN NoPlan = {"at"}
    BY <1>1, <1>2 DEF NoPlan
  <2> QED  BY <1>1, <1>2, <2>1 DEF PlanFields
<1>4. PlanTells'
  BY <1>2, <1>3 DEF PlanTells, TellingOn
<1>5. delta # NoDelta => DeltaIsOf'
  <2> SUFFICES ASSUME delta # NoDelta PROVE DeltaIsOf'
    OBVIOUS
  <2>1. DeltaIsOf
    BY DEF ReadInv
  <2>2. Told(delta.was, plan') = Told(delta.was, plan)
    BY <1>3 DEF Told, Flags, Answering, ResultIn
  <2> QED  BY <1>1, <1>3, <2>1, <2>2 DEF DeltaIsOf
<1> QED  BY <1>1, <1>4, <1>5 DEF ReadInv

LEMMA ReadInvKept == PassInv /\ ReadInv /\ [NextPass \/ MeasureDetour]_planVars => ReadInv'
<1> SUFFICES ASSUME PassInv, ReadInv, [NextPass \/ MeasureDetour]_planVars PROVE ReadInv'
  OBVIOUS
<1>1. CASE Late
  <2>1. pass' = [pass EXCEPT !["late"] = TRUE] /\ UNCHANGED <<plan, delta>> /\ pass.at = "scoring"
    BY <1>1 DEF Late, Scoring
  <2>2. pass # NoPass
    BY <2>1 DEF NoPass
  <2> QED  BY <2>1, <2>2, PassReadsOn
<1>2. CASE Drain
  <2>1. pass' = [pass EXCEPT !["at"] = "scored"] /\ UNCHANGED <<plan, delta>> /\ pass # NoPass
    BY <1>2 DEF Drain, NoPass
  <2> QED  BY <2>1, PassReadsOn
<1>3. CASE UNCHANGED planVars
  BY <1>3 DEF planVars, ReadInv, PassTells, PlanTells, DeltaIsOf
<1> QED  BY <1>1, <1>2, <1>3, BeginPassReads, CarryOneReads, SkipReads, ScoreOneReads, KeepReads, RaiseReads,
            MeasureDetourReads DEF NextPass

LEMMA ReadingsAreSound == SpecRead => [](PassInv /\ ReadInv)
<1>1. InitPlan => ReadInv
  BY ReadInvInitially
<1>2. PassInv /\ ReadInv /\ [NextPass \/ MeasureDetour]_planVars => ReadInv'
  BY ReadInvKept
<1> QED  BY <1>1, <1>2, PassesAreSound, PTL DEF SpecRead

-----------------------------------------------------------------------------
\* ---- what the coverage of a plan says of a scorer is what its result says
LEMMA AfterOne ==
  ASSUME NEW first, NEW rest, Sequence(rest)
  PROVE  LET all == <<first>> \o rest
         IN  /\ \E i \in DOMAIN all : all[i] = first
             /\ \A i \in DOMAIN rest : \E k \in DOMAIN all : all[k] = rest[i]
             /\ \A k \in DOMAIN all : all[k] = first \/ \E i \in DOMAIN rest : all[k] = rest[i]
<1>1. PICK S : rest \in Seq(S)
  BY DEF Sequence
<1> DEFINE T == S \cup {first}
           all == <<first>> \o rest
<1>2. rest \in Seq(T) /\ <<first>> \in Seq(T) /\ Len(<<first>>) = 1 /\ <<first>>[1] = first
  BY <1>1, SeqDef
<1> HIDE DEF T
<1>3. /\ Len(all) = 1 + Len(rest) /\ Len(rest) \in Nat /\ all \in Seq(T)
      /\ \A i \in 1 .. Len(all) : all[i] = IF i <= 1 THEN <<first>>[i] ELSE rest[i - 1]
  BY <1>2, ConcatProperties
<1>4. DOMAIN all = 1 .. Len(rest) + 1 /\ DOMAIN rest = 1 .. Len(rest)
  BY <1>2, <1>3
<1>5. all[1] = first /\ 1 \in DOMAIN all
  BY <1>2, <1>3, <1>4
<1>6. ASSUME NEW i \in DOMAIN rest PROVE i + 1 \in DOMAIN all /\ all[i + 1] = rest[i]
  BY <1>3, <1>4
<1>7. ASSUME NEW i \in DOMAIN all, i # 1 PROVE i - 1 \in DOMAIN rest /\ all[i] = rest[i - 1]
  <2>1. i \in 1 .. Len(all) /\ i \in Int /\ ~(i <= 1) /\ i - 1 \in DOMAIN rest
    BY <1>3, <1>4, <1>7
  <2> QED  BY <1>3, <2>1
<1> QED  BY <1>5, <1>6, <1>7

LEMMA CoveredIsASequence ==
  ASSUME NEW results, Sequence(results)
  PROVE  Sequence(Covered(results)) /\ DOMAIN Covered(results) = DOMAIN results
<1>1. Len(results) \in Nat /\ DOMAIN results = 1 .. Len(results)
  BY AppendedTo
<1> DEFINE c == Covered(results)
<1>2. c = [i \in 1 .. Len(results) |-> <<results[i].name, results[i].answered>>]
  BY <1>1 DEF Covered
<1>3. c \in [1 .. Len(results) -> {c[i] : i \in 1 .. Len(results)}]
  BY <1>2
<1>4. c \in Seq({c[i] : i \in 1 .. Len(results)})
  BY <1>1, <1>3
<1> QED  BY <1>1, <1>2, <1>4 DEF Sequence

LEMMA AskedAsTold ==
  ASSUME NEW n, PlanIsSound(n), NEW s \in Names
  PROVE  /\ s \in Unchecked(plan) <=> ResultIn(plan, s).answered # "all"
         /\ s \in Checked(plan) <=> ResultIn(plan, s).answered # "nothing"
<1> DEFINE entry == MatchingCoverage(plan.line, plan.matched)
           rows == Covered(plan.results)
<1>1. Sequence(rows) /\ DOMAIN rows = DOMAIN Scorers
  BY CoveredIsASequence, PlanIsNamed DEF PlanIsSound
<1>2. Sources(plan) = {entry} \cup {rows[i] : i \in DOMAIN Scorers}
  <2>1. plan.coverage = <<entry>> \o rows
    BY DEF PlanIsSound, EntriesOf
  <2> HIDE DEF rows, entry
  <2> DEFINE all == <<entry>> \o rows
  <2>3. /\ \E i \in DOMAIN all : all[i] = entry
        /\ \A i \in DOMAIN rows : \E k \in DOMAIN all : all[k] = rows[i]
        /\ \A k \in DOMAIN all : all[k] = entry \/ \E i \in DOMAIN rows : all[k] = rows[i]
    BY <1>1, AfterOne
  <2>2. /\ \E i \in DOMAIN plan.coverage : plan.coverage[i] = entry
        /\ \A i \in DOMAIN rows : \E k \in DOMAIN plan.coverage : plan.coverage[k] = rows[i]
        /\ \A k \in DOMAIN plan.coverage :
             plan.coverage[k] = entry \/ \E i \in DOMAIN rows : plan.coverage[k] = rows[i]
    BY <2>1, <2>3
  <2> QED  BY <1>1, <2>2 DEF Sources
<1>3. \A i \in DOMAIN Scorers : rows[i] = <<Scorers[i], ResultIn(plan, Scorers[i]).answered>>
  BY PlanIsNamed DEF Covered
<1>4. entry[1] # s
  BY SheetsAssumption DEF MatchingCoverage
<1> HIDE DEF rows, entry
<1>5. PICK i \in DOMAIN Scorers : s = Scorers[i]
  BY DEF Names
<1>6. rows[i] \in Sources(plan) /\ rows[i][1] = s /\ rows[i][2] = ResultIn(plan, s).answered
  BY <1>2, <1>3, <1>5
<1>7. ASSUME NEW x \in Sources(plan), x[1] = s PROVE x = rows[i]
  <2>1. PICK j \in DOMAIN Scorers : x = rows[j]
    BY <1>2, <1>4, <1>7
  <2>2. Scorers[j] = Scorers[i]
    BY <1>3, <1>5, <1>7, <2>1
  <2> QED  BY <2>1, <2>2, SheetsAssumption
<1> QED  BY <1>6, <1>7 DEF Unchecked, Checked

-----------------------------------------------------------------------------
\* ---- the delta: of ground that none of a result lost, every end is still there
LEMMA NothingRekeyedAway ==
  ASSUME NEW kept, IsFiniteSet(kept), NEW landed, Cardinality(Rekeyed(kept, landed)) = Cardinality(kept),
         \A k \in kept : k = [id |-> k.id, ends |-> k.ends]
  PROVE  {m.ends : m \in Rekeyed(kept, landed)} = {m.ends : m \in kept}
<1> DEFINE some == {k \in kept : k.id \in DOMAIN landed}
           f == [k \in some |-> [k EXCEPT !.id = landed[k.id]]]
<1>1. IsFiniteSet(some) /\ Cardinality(some) <= Cardinality(kept) /\ (Cardinality(some) = Cardinality(kept) => some = kept)
  BY FS_Subset
<1>2. Rekeyed(kept, landed) = {f[k] : k \in some} /\ DOMAIN f = some
  BY DEF Rekeyed
<1>3. Cardinality({f[k] : k \in some}) <= Cardinality(some)
  <2> HIDE DEF f
  <2> QED  BY <1>1, <1>2, ImageIsFinite
<1>4. Cardinality(some) \in Nat /\ Cardinality(kept) \in Nat
  BY <1>1, FS_CardinalityType
<1>5. some = kept
  BY <1>1, <1>2, <1>3, <1>4
<1>6. \A k \in kept : f[k].ends = k.ends
  BY <1>5
<1> HIDE DEF f, some
<1> QED  BY <1>2, <1>5, <1>6

LEMMA CarriedIsKept ==
  ASSUME NEW now, NEW was, Carried(now, was), ~now.lost
  PROVE  /\ Cardinality(now.hard) = Cardinality(was.hard)
         /\ {m.ends : m \in now.hard} = {m.ends : m \in was.hard}
         /\ {m.ends : m \in now.measured} = {m.ends : m \in was.measured}
<1>1. CASE now.measured = was.measured /\ now.hard = was.hard
  BY <1>1
<1>2. CASE ~(now.measured = was.measured /\ now.hard = was.hard)
  <2>1. PICK landed : now.measured = Rekeyed(was.measured, landed) /\ now.hard = Rekeyed(was.hard, landed)
    BY <1>2 DEF Carried
  <2>2. /\ IsFiniteSet(was.measured) /\ Cardinality(now.measured) = Cardinality(was.measured)
        /\ IsFiniteSet(was.hard) /\ Cardinality(now.hard) = Cardinality(was.hard)
        /\ \A m \in was.measured : m = [id |-> m.id, ends |-> m.ends]
        /\ \A m \in was.hard : m = [id |-> m.id, ends |-> m.ends]
    BY <1>2 DEF Carried
  <2>3. {m.ends : m \in now.measured} = {m.ends : m \in was.measured}
    BY <2>1, <2>2, NothingRekeyedAway
  <2>4. {m.ends : m \in now.hard} = {m.ends : m \in was.hard}
    BY <2>1, <2>2, NothingRekeyedAway
  <2> QED  BY <2>2, <2>3, <2>4
<1> QED  BY <1>1, <1>2

LEMMA DeltasTell == ASSUME PassInv, ReadInv PROVE DeltaTells
<1> SUFFICES ASSUME delta # NoDelta, delta.told = [moved |-> {}, stopped |-> {}, lost |-> {}], NEW r \in Results
             PROVE  LET was == ResultIn(delta.was, r.name)
                    IN  /\ Cardinality(r.hard) = Cardinality(was.hard)
                        /\ was.answered # "nothing" => r.answered # "nothing"
                        /\ r.carriedFrom # NoDate => /\ {m.ends : m \in r.hard} = {m.ends : m \in was.hard}
                                                    /\ {m.ends : m \in r.measured} = {m.ends : m \in was.measured}
  BY DEF DeltaTells
<1> DEFINE was == ResultIn(delta.was, r.name)
<1>1. plan # NoPlan /\ delta.told = Told(delta.was, plan) /\ CarriedFrom(plan.results, delta.was)
  BY DEF ReadInv, DeltaIsOf
<1>2. PlanIsSound(passes)
  BY <1>1, PlanIsTraced
<1>3. r.name \in Names /\ ResultIn(plan, r.name) = r
  BY <1>2, PlanIsNamed
<1>4. /\ {s \in Names : Flags(delta.was, s) # Flags(plan, s)} = {} /\ Answering(delta.was) \ Answering(plan) = {}
      /\ {s \in Names : ResultIn(plan, s).lost} = {}
  BY <1>1 DEF Told
<1>5. Flags(delta.was, r.name) = Flags(plan, r.name) /\ ~r.lost
  BY <1>3, <1>4
<1>6. Cardinality(r.hard) = Cardinality(was.hard)
  BY <1>3, <1>5 DEF Flags
<1>7. was.answered # "nothing" => r.answered # "nothing"
  BY <1>3, <1>4 DEF Answering
<1>8. r.carriedFrom # NoDate => Carried(r, was)
  <2>1. PICK i \in DOMAIN plan.results : r = plan.results[i]
    BY DEF Results
  <2>2. r.name = Scorers[i]
    BY <1>2, <2>1 DEF PlanIsSound, Row, Sound
  <2> QED  BY <1>1, <2>1, <2>2 DEF CarriedFrom
<1> HIDE DEF was
<1>9. r.carriedFrom # NoDate => /\ {m.ends : m \in r.hard} = {m.ends : m \in was.hard}
                               /\ {m.ends : m \in r.measured} = {m.ends : m \in was.measured}
  BY <1>5, <1>8, CarriedIsKept
<1> QED  BY <1>6, <1>7, <1>9 DEF was

-----------------------------------------------------------------------------
\* ---- the report
LEMMA ResultsTell ==
  ASSUME PassInv, ReadInv, plan # NoPlan, NEW r \in Results
  PROVE  /\ Telling(r, r.name, plan.segments) /\ Row(r, r.name, plan, passes)
         /\ r.name \in Names /\ ResultIn(plan, r.name) = r
<1>1. PlanIsSound(passes) /\ PlanTells
  BY PlanIsTraced DEF ReadInv
<1>2. PICK i \in DOMAIN plan.results : r = plan.results[i]
  BY DEF Results
<1>3. Row(r, Scorers[i], plan, passes) /\ Telling(r, Scorers[i], plan.segments)
  BY <1>1, <1>2 DEF PlanIsSound, PlanTells, TellingOn
<1>4. r.name = Scorers[i]
  BY <1>3 DEF Row, Sound
<1> QED  BY <1>1, <1>3, <1>4, PlanIsNamed

\* A point that is off the other line is in a stretch of such points, as long as can be.
LEMMA OffIsInAStretch ==
  ASSUME NEW P, NEW n \in Nat, NEW i \in 1 .. n, i \in P
  PROVE  \E x \in (1 .. n) \X (1 .. n) :
           /\ x[1] <= i /\ i <= x[2] /\ \A k \in x[1] .. x[2] : k \in P
           /\ x[1] = 1 \/ x[1] - 1 \notin P
           /\ x[2] = n \/ x[2] + 1 \notin P
<1> DEFINE low == {a \in 1 .. n : a <= i /\ \A k \in a .. i : k \in P}
           high == {c \in 0 .. n : i <= n - c /\ \A k \in i .. n - c : k \in P}
<1>1. i \in low /\ low \subseteq Nat
  OBVIOUS
<1>2. PICK a \in low : \A y \in low : a <= y
  BY <1>1, LeastOne
<1>3. n - i \in high /\ high \subseteq Nat
  OBVIOUS
<1> HIDE DEF high
<1>4. PICK c \in high : \A y \in high : c <= y
  BY <1>3, LeastOne
<1> USE DEF high
<1> DEFINE b == n - c
<1>5. a = 1 \/ a - 1 \notin P
  <2> SUFFICES ASSUME a # 1, a - 1 \in P PROVE FALSE
    OBVIOUS
  <2>1. a - 1 \in 1 .. n /\ a - 1 <= i /\ \A k \in a - 1 .. i : k \in P
    BY <1>2
  <2>2. a - 1 \in low
    BY <2>1
  <2> QED  BY <1>2, <2>2
<1>6. b = n \/ b + 1 \notin P
  <2> SUFFICES ASSUME b # n, b + 1 \in P PROVE FALSE
    OBVIOUS
  <2>1. c - 1 \in 0 .. n /\ i <= n - (c - 1) /\ \A k \in i .. n - (c - 1) : k \in P
    BY <1>4
  <2>2. c - 1 \in high
    BY <2>1
  <2> QED  BY <1>4, <2>2
<1>7. a \in 1 .. n /\ b \in 1 .. n /\ a <= i /\ i <= b
  BY <1>2, <1>4
<1>8. ASSUME NEW k \in a .. b PROVE k \in P
  BY <1>2, <1>4, <1>8
<1> DEFINE x == <<a, b>>
<1>9. x \in (1 .. n) \X (1 .. n) /\ x[1] = a /\ x[2] = b
  BY <1>7
<1> HIDE DEF x, b
<1> QED  BY <1>5, <1>6, <1>7, <1>8, <1>9

LEMMA IntactIsInPlace ==
  ASSUME NEW a \in Lines, NEW b, NEW lock \in Locks, ~Broken(lock, a, b),
         NEW i \in DOMAIN a, lock[1] <= a[i].at, a[i].at <= lock[2]
  PROVE  ~Off(a, b, i)
<1> SUFFICES ASSUME Off(a, b, i) PROVE FALSE
  OBVIOUS
<1> DEFINE n == Len(a)
           P == {k \in DOMAIN a : Off(a, b, k)}
<1>1. n \in Nat /\ DOMAIN a = 1 .. n /\ 1 <= n /\ n \in 1 .. n
  BY PipelineAssumption, EmptySeq DEF NoLine
<1>2. \A k \in 1 .. n : a[k].at \in Int
  <2> SUFFICES ASSUME NEW k \in 1 .. n PROVE a[k].at \in Int
    OBVIOUS
  <2>1. a[k] \in [at : Int, place : Int \X Int]
    BY <1>1, PipelineAssumption, ElementOfSeq
  <2> QED  BY <2>1
<1>3. a[1].at = 0 /\ \A k, m \in 1 .. n : k < m => a[k].at < a[m].at
  BY <1>1, SheetsAssumption
<1>4. lock[1] \in Nat /\ lock[2] \in Nat /\ lock[1] < lock[2] /\ lock[1] < a[n].at
  BY SheetsAssumption DEF Length, Last
<1> HIDE DEF n
<1>5. PICK x \in (1 .. n) \X (1 .. n) :
        /\ x[1] <= i /\ i <= x[2] /\ \A k \in x[1] .. x[2] : k \in P
        /\ x[1] = 1 \/ x[1] - 1 \notin P
        /\ x[2] = n \/ x[2] + 1 \notin P
  <2>1. i \in 1 .. n /\ i \in P
    BY <1>1
  <2> HIDE DEF P
  <2> QED  BY <1>1, <2>1, OffIsInAStretch
<1>6. x[1] \in 1 .. n /\ x[2] \in 1 .. n /\ i \in 1 .. n
  BY <1>1, <1>5
<1> DEFINE from == IF x[1] = 1 THEN 1 ELSE x[1] - 1
           to == IF x[2] = n THEN n ELSE x[2] + 1
           span == <<a[from].at, a[to].at>>
<1>7. from \in 1 .. n /\ to \in 1 .. n /\ from <= i /\ i <= to
  BY <1>1, <1>5, <1>6
<1>8. span \in Spans(a, b)
  <2>1. /\ x \in (DOMAIN a) \X (DOMAIN a) /\ x[1] <= x[2]
        /\ \A k \in x[1] .. x[2] : Off(a, b, k)
        /\ x[1] = 1 \/ ~Off(a, b, x[1] - 1)
        /\ x[2] = Len(a) \/ ~Off(a, b, x[2] + 1)
    <3>1. x[1] # 1 => x[1] - 1 \in 1 .. n
      BY <1>1, <1>6
    <3>2. x[2] # n => x[2] + 1 \in 1 .. n
      BY <1>1, <1>6
    <3> QED  BY <1>1, <1>5, <1>6, <3>1, <3>2 DEF n
  <2> QED  BY <2>1 DEF Spans, n
<1>9. a[from].at < lock[2]
  <2>1. CASE from < i
    BY <1>1, <1>2, <1>3, <1>4, <1>6, <1>7, <2>1
  <2>2. CASE from = i
    <3>1. i = 1
      BY <1>5, <1>6, <2>2
    <3>2. a[1].at < lock[2]
      BY <1>3, <1>4
    <3> QED  BY <2>2, <3>1, <3>2
  <2> QED  BY <1>6, <1>7, <2>1, <2>2
<1>10. a[to].at > lock[1]
  <2>1. CASE i < to
    BY <1>1, <1>2, <1>3, <1>4, <1>6, <1>7, <2>1
  <2>2. CASE i = to
    <3>1. i = n
      BY <1>5, <1>6, <2>2
    <3> QED  BY <1>4, <2>2, <3>1
  <2> QED  BY <1>6, <1>7, <2>1, <2>2
<1>11. span[1] < lock[2] /\ span[2] > lock[1]
  BY <1>9, <1>10
<1> HIDE DEF span
<1> QED  BY <1>8, <1>11 DEF Broken

LEMMA ReportsTell == ASSUME PassInv, ReadInv, plan # NoPlan PROVE ReportTells(plan)
<1> DEFINE report == Verified(plan)
<1>1. PlanIsSound(passes) /\ PlanTells
  BY PlanIsTraced DEF ReadInv
<1>2. ASSUME NEW r \in Results, r.hard # {} PROVE Has(plan, r.name) /\ LookedAt(plan, r.name) /\ Offends(plan, r.name)
  <2>1. r.name \in Names /\ ResultIn(plan, r.name) = r /\ r.answered # "nothing"
    BY <1>2, ResultsTell DEF Telling
  <2> QED  BY <1>2, <2>1 DEF Has, LookedAt, Offends, Rows
<1>3. ASSUME NEW s, LookedAt(plan, s)
      PROVE  /\ s \in Names /\ (s \in Unchecked(plan) <=> Rows(plan, s).answered # "all")
             /\ Rows(plan, s).answered \in {"all", "part"} /\ (s \notin Partial => Rows(plan, s).answered = "all")
  <2>1. s \in Names /\ Rows(plan, s).answered # "nothing"
    BY <1>3 DEF LookedAt, Has
  <2>2. ResultIn(plan, s) \in Results /\ ResultIn(plan, s).name = s
    BY <1>1, <2>1, PlanIsNamed
  <2>3. Telling(ResultIn(plan, s), s, plan.segments)
    BY <2>2, ResultsTell
  <2>4. s \in Unchecked(plan) <=> ResultIn(plan, s).answered # "all"
    BY <1>1, <2>1, AskedAsTold
  <2> QED  BY <2>1, <2>3, <2>4 DEF Telling, Rows
<1>4. report.no_illegal_ways = IF LookedAt(plan, "legality") THEN Report(Offends(plan, "legality")) ELSE "skipped"
  BY DEF Verified
<1>5. report.no_active_closures =
        IF ~LookedAt(plan, "closures") THEN "skipped"
        ELSE IF Offends(plan, "closures") THEN "failed"
        ELSE IF Rows(plan, "closures").answered = "part" THEN "skipped" ELSE "passed"
  BY DEF Verified, Report
<1>6. report.locks_intact = IF plan.original = NoLine THEN "skipped"
                            ELSE Report(\E lock \in Locks : Broken(lock, plan.original, plan.line))
  BY DEF Verified
<1> HIDE DEF report
<1>7. ASSUME NEW r \in Results, r.hard # {}
      PROVE  /\ r.name = "legality" => report.no_illegal_ways = "failed"
             /\ r.name = "closures" => report.no_active_closures = "failed"
  <2>1. LookedAt(plan, r.name) /\ Offends(plan, r.name)
    BY <1>2, <1>7
  <2>2. r.name = "legality" => report.no_illegal_ways = "failed"
    BY <1>4, <2>1 DEF Report
  <2>3. r.name = "closures" => report.no_active_closures = "failed"
    BY <1>5, <2>1
  <2> QED  BY <2>2, <2>3
<1>8. report.no_illegal_ways = "passed" => "legality" \notin Unchecked(plan)
  BY <1>3, <1>4, SheetsAssumption
<1>9. report.no_active_closures = "passed" => "closures" \notin Unchecked(plan)
  BY <1>3, <1>5
<1>10. ASSUME report.locks_intact = "passed", NEW lock \in Locks, NEW i \in DOMAIN plan.original,
              lock[1] <= plan.original[i].at, plan.original[i].at <= lock[2]
       PROVE  ~Off(plan.original, plan.line, i)
  <2>1. plan.original \in Lines /\ ~Broken(lock, plan.original, plan.line)
    BY <1>1, <1>6, <1>10 DEF Report, PlanTells
  <2> QED  BY <1>10, <2>1, IntactIsInPlace
<1> QED  BY <1>7, <1>8, <1>9, <1>10 DEF ReportTells, report

-----------------------------------------------------------------------------
\* ---- the sheets: the hard flag of the least segment comes before all others of its scorer
LEMMA HardIsShown ==
  ASSUME NEW r, r.hard # {}, \A m \in r.hard : m.id \in Nat
  PROVE  \E f \in Worst(r) : f[1] = "HARD"
<1> DEFINE ids == {m.id : m \in r.hard}
<1>1. ids \subseteq Nat /\ ids # {}
  OBVIOUS
<1>2. PICK x \in ids : \A y \in ids : x <= y
  <2> HIDE DEF ids
  <2> QED  BY <1>1, LeastOne
<1> DEFINE f == <<"HARD", x>>
           worse == {g \in Marks(r) : Worse(g, f)}
<1>3. f \in Marks(r) /\ f[1] = "HARD" /\ f[2] = x
  BY <1>2 DEF Marks
<1>4. ASSUME NEW g \in Marks(r) PROVE ~Worse(g, f)
  <2>1. CASE g \in {<<"HARD", m.id>> : m \in r.hard}
    <3>1. PICK m \in r.hard : g = <<"HARD", m.id>>
      BY <2>1
    <3>2. g[1] = "HARD" /\ g[2] = m.id /\ m.id \in ids
      BY <3>1
    <3>3. x <= m.id /\ x \in Nat /\ m.id \in Nat
      BY <1>1, <1>2, <3>2
    <3> HIDE DEF ids
    <3> QED  BY <1>3, <3>2, <3>3 DEF Worse
  <2>2. CASE g \in {<<"soft", m.id>> : m \in r.soft \ r.hard}
    <3>1. g[1] = "soft"
      BY <2>2
    <3> QED  BY <1>3, <3>1 DEF Worse
  <2> QED  BY <1>4, <2>1, <2>2 DEF Marks
<1>5. worse = {}
  BY <1>4
<1>6. Cardinality(worse) = 0
  BY <1>5, FS_EmptySet
<1>7. f \in Worst(r)
  BY <1>3, <1>6, SheetsAssumption DEF Worst
<1> QED  BY <1>3, <1>7

\* How many are carried is how many of the results are not fresh: a result is named once.
LEMMA CarriedAreCounted ==
  ASSUME NEW n, PlanIsSound(n)
  PROVE  ManifestBlock(plan) = Cardinality(Results \ Fresh)
<1> DEFINE named == {s \in Names : Rows(plan, s).carriedFrom # NoDate}
           old == Results \ Fresh
           f == [r \in old |-> r.name]
<1>1. \A r \in Results : r.name \in Names /\ ResultIn(plan, r.name) = r
  BY PlanIsNamed
<1>2. \A s \in Names : ResultIn(plan, s) \in Results /\ ResultIn(plan, s).name = s
  BY PlanIsNamed
<1>3. f \in [old -> named]
  BY <1>1 DEF Rows, Fresh
<1>4. \A x, y \in old : f[x] = f[y] => x = y
  BY <1>1
<1>5. ASSUME NEW s \in named PROVE \E r \in old : f[r] = s
  BY <1>2, <1>5 DEF Rows, Fresh
<1>6. f \in Bijection(old, named)
  BY <1>3, <1>4, <1>5 DEF Bijection, Injection, Surjection, IsInjective
<1>7. IsFiniteSet(old)
  <2> DEFINE g == [i \in DOMAIN plan.results |-> plan.results[i]]
  <2>1. DOMAIN plan.results = 1 .. Len(plan.results) /\ Len(plan.results) \in Nat
    BY AppendedTo DEF PlanIsSound
  <2>2. IsFiniteSet(1 .. Len(plan.results))
    BY <2>1, FS_Interval
  <2>3. IsFiniteSet(DOMAIN g) /\ Results = {g[i] : i \in DOMAIN g}
    BY <2>1, <2>2 DEF Results
  <2> HIDE DEF g
  <2>4. IsFiniteSet(Results)
    BY <2>3, ImageIsFinite
  <2> QED  BY <2>4, FS_Subset
<1> HIDE DEF f, old, named
<1>8. Cardinality(named) = Cardinality(old)
  BY <1>6, <1>7, FS_Bijection DEF ExistsBijection
<1> QED  BY <1>8 DEF ManifestBlock, named, old

\* What is drawn in red, and what is not.
LEMMA DrawnIsHard ==
  ASSUME NEW n, PlanIsSound(n), NEW id \in DOMAIN plan.segments
  PROVE  Drawn(plan)[id] = "HARD" <=> \E r \in Results : \E m \in r.hard : m.id = id
<1>1. \A r \in Results : r.name \in Names /\ ResultIn(plan, r.name) = r
  BY PlanIsNamed
<1>2. \A s \in Names : ResultIn(plan, s) \in Results
  BY PlanIsNamed
<1>3. (\E s \in Names : id \in {m.id : m \in Rows(plan, s).hard}) <=> \E r \in Results : \E m \in r.hard : m.id = id
  <2>1. ASSUME NEW s \in Names, id \in {m.id : m \in Rows(plan, s).hard}
        PROVE  \E r \in Results : \E m \in r.hard : m.id = id
    BY <1>2, <2>1 DEF Rows
  <2>2. ASSUME NEW r \in Results, NEW m \in r.hard, m.id = id
        PROVE  \E s \in Names : id \in {k.id : k \in Rows(plan, s).hard}
    BY <1>1, <2>2 DEF Rows
  <2> QED  BY <2>1, <2>2
<1>4. Drawn(plan)[id] = IF FlaggedBy(plan, id).hard THEN "HARD" ELSE IF FlaggedBy(plan, id).soft THEN "soft" ELSE "plain"
  BY DEF Drawn
<1>5. FlaggedBy(plan, id).hard <=> \E s \in Names : id \in {m.id : m \in Rows(plan, s).hard}
  BY DEF FlaggedBy
<1>6. Drawn(plan)[id] = "HARD" <=> FlaggedBy(plan, id).hard
  BY <1>4
<1> QED  BY <1>3, <1>5, <1>6

LEMMA SheetsTell == ASSUME PassInv, ReadInv, plan # NoPlan PROVE SheetTells(plan)
<1> DEFINE sheet == Markdown(plan)
           page == Html(plan)
           short == Summary(plan)
<1>1. PlanIsSound(passes) /\ PlanTells /\ passes \in Nat
  BY PlanIsTraced DEF ReadInv, PassInv
<1>2. /\ sheet.flagged = [s \in Names |-> Worst(Rows(plan, s))]
      /\ sheet.coverage.notChecked = Unchecked(plan) /\ sheet.coverage.checked = Checked(plan)
      /\ sheet.resupply = ResupplySection(plan) /\ sheet.credit = Credit(Checked(plan))
  BY DEF Markdown, FlagsSection, CoverageSection
<1>3. /\ page.strips = [s \in Names |-> Strip(plan, s)] /\ page.drawn = Drawn(plan)
      /\ page.facts = Facts(plan) /\ page.carried = ManifestBlock(plan)
  BY DEF Html
<1>4. \A s \in Names : short[s] = [state |-> IF s \in Unchecked(plan) /\ Rows(plan, s).measured = {} THEN "unavailable" ELSE "ran",
                                   hard |-> Cardinality(Rows(plan, s).hard)]
  BY DEF Summary
<1> HIDE DEF sheet, page, short
<1>5. \A s \in Names : ResultIn(plan, s) \in Results /\ ResultIn(plan, s).name = s
  BY <1>1, PlanIsNamed
<1>6. \A s \in Names : /\ s \in Unchecked(plan) <=> ResultIn(plan, s).answered # "all"
                       /\ s \in Checked(plan) <=> ResultIn(plan, s).answered # "nothing"
  BY <1>1, AskedAsTold
<1>7. ASSUME NEW r \in Results
      PROVE  /\ (r.hard # {} => \E f \in sheet.flagged[r.name] : f[1] = "HARD")
             /\ (r.answered # "all" => r.name \in sheet.coverage.notChecked)
             /\ (r.answered = "nothing" => short[r.name] = [state |-> "unavailable", hard |-> 0])
             /\ (r.carriedFrom = NoDate /\ r.answered # "nothing" => page.strips[r.name] = DOMAIN plan.segments)
             /\ \A m \in r.hard : /\ page.drawn[m.id] = "HARD"
                                 /\ Traceable(plan.segments[m.id].ends, m.ends)
  <2>1. Telling(r, r.name, plan.segments) /\ Row(r, r.name, plan, passes) /\ r.name \in Names /\ ResultIn(plan, r.name) = r
    BY ResultsTell
  <2>2. \A m \in r.measured \cup r.hard : m.id \in DOMAIN plan.segments
    BY <2>1 DEF Row, AllTraced, Traced
  <2>3. DOMAIN plan.segments \subseteq Nat
    BY <1>1 DEF PlanTells, TellingOn, Counted
  <2>4. r.hard # {} => \E f \in sheet.flagged[r.name] : f[1] = "HARD"
    <3>1. r.hard # {} => \E f \in Worst(r) : f[1] = "HARD"
      BY <2>2, <2>3, HardIsShown
    <3> QED  BY <1>2, <2>1, <3>1 DEF Rows
  <2>5. r.answered # "all" => r.name \in sheet.coverage.notChecked
    BY <1>2, <1>6, <2>1
  <2>6. r.answered = "nothing" => short[r.name] = [state |-> "unavailable", hard |-> 0]
    <3>1. r.answered = "nothing" => r.measured = {} /\ r.hard = {} /\ r.name \in Unchecked(plan)
      BY <1>6, <2>1 DEF Telling
    <3>2. Cardinality({}) = 0
      BY FS_EmptySet
    <3> QED  BY <1>4, <2>1, <3>1, <3>2 DEF Rows
  <2>7. r.carriedFrom = NoDate /\ r.answered # "nothing" => page.strips[r.name] = DOMAIN plan.segments
    <3>1. page.strips[r.name] = {m.id : m \in {k \in r.measured : k.id \in DOMAIN plan.segments}}
      BY <1>3, <2>1 DEF Strip, Rows
    <3>2. r.carriedFrom = NoDate /\ r.answered # "nothing" => {m.id : m \in r.measured} = DOMAIN plan.segments
      BY <2>1 DEF Telling
    <3> QED  BY <3>1, <3>2
  <2>8. ASSUME NEW m \in r.hard
        PROVE  page.drawn[m.id] = "HARD" /\ Traceable(plan.segments[m.id].ends, m.ends)
    <3>1. m.id \in DOMAIN plan.segments
      BY <2>2
    <3>2. Traceable(plan.segments[m.id].ends, m.ends)
      BY <2>1 DEF Row, AllTraced, Traced, Traceable
    <3>3. Drawn(plan)[m.id] = "HARD"
      BY <1>1, <3>1, DrawnIsHard
    <3> QED  BY <1>3, <3>2, <3>3
  <2> QED  BY <2>4, <2>5, <2>6, <2>7, <2>8
<1>8. \A id \in DOMAIN plan.segments : page.drawn[id] = "HARD" => \E r \in Results : \E m \in r.hard : m.id = id
  BY <1>1, <1>3, DrawnIsHard
<1>9. ASSUME NEW s \in page.facts PROVE plan.line = ResultIn(plan, s).total /\ s \in DOMAIN sheet.credit
  <2>1. s \in Names /\ ResultIn(plan, s).total # NoLine
    BY <1>3 DEF Facts, SummaryOf, Has, Rows
  <2>2. Telling(ResultIn(plan, s), s, plan.segments) /\ Row(ResultIn(plan, s), s, plan, passes)
    BY <1>5, <2>1, ResultsTell
  <2>3. ResultIn(plan, s).total = plan.line
    BY <2>1, <2>2 DEF Row, Sound
  <2>4. s \in Checked(plan)
    BY <1>6, <2>1, <2>2 DEF Telling
  <2> QED  BY <1>2, <2>3, <2>4 DEF Credit
<1>10. sheet.resupply \in {"none found", "rows"} => "resupply_schedule" \in sheet.coverage.checked
  <2> DEFINE s == "resupply_schedule"
  <2>1. CASE SummaryOf(plan, s) = NoLine
    BY <1>2, <2>1 DEF ResupplySection, NotRun
  <2>2. CASE SummaryOf(plan, s) # NoLine
    <3>1. s \in Names /\ ResultIn(plan, s).total # NoLine
      BY <2>2 DEF SummaryOf, Has, Rows
    <3>2. Telling(ResultIn(plan, s), s, plan.segments)
      BY <1>5, <3>1, ResultsTell
    <3> QED  BY <1>2, <1>6, <3>1, <3>2 DEF Telling
  <2> QED  BY <2>1, <2>2
<1>11. page.carried = Cardinality(Results \ Fresh)
  BY <1>1, <1>3, CarriedAreCounted
<1>12. {plan.shortest, Metrics(plan).lts} \subseteq {NoLine, plan.line}
  <2>1. Metrics(plan).lts \in {NoLine, plan.line}
    <3>1. CASE Has(plan, "segment_hostility")
      <4>1. ResultIn(plan, "segment_hostility") \in Results
        BY <1>5, <3>1 DEF Has
      <4>2. Row(ResultIn(plan, "segment_hostility"), ResultIn(plan, "segment_hostility").name, plan, passes)
        BY <4>1, ResultsTell
      <4> QED  BY <3>1, <4>2 DEF Metrics, Rows, Row, Sound
    <3>2. CASE ~Has(plan, "segment_hostility")
      BY <3>2 DEF Metrics
    <3> QED  BY <3>1, <3>2
  <2> QED  BY <1>1, <2>1 DEF PlanTells
<1> QED  BY <1>7, <1>8, <1>9, <1>10, <1>11, <1>12 DEF SheetTells, sheet, page, short

-----------------------------------------------------------------------------
\* ---- the course points: of some waypoints, the first that is met
Located(ws) == \A w \in ws : w.at \in Nat /\ w.pos \in Nat
LEMMA ForemostIsFirst ==
  ASSUME NEW ws, Located(ws), ws # {}
  PROVE  Foremost(ws) \in ws /\ \A v \in ws : Foremost(ws).at <= v.at
<1> DEFINE ats == {w.at : w \in ws}
<1>1. PICK a \in ats : \A b \in ats : a <= b
  <2>1. ats \subseteq Nat /\ ats # {}
    BY DEF Located
  <2> HIDE DEF ats
  <2> QED  BY <2>1, LeastOne
<1> DEFINE poss == {w.pos : w \in {v \in ws : v.at = a}}
<1>2. PICK p \in poss : \A q \in poss : p <= q
  <2>1. poss \subseteq Nat /\ poss # {}
    BY <1>1 DEF Located
  <2> HIDE DEF poss
  <2> QED  BY <2>1, LeastOne
<1>3. PICK w \in ws : w.at = a /\ w.pos = p
  BY <1>2
<1>4. ASSUME NEW v \in ws PROVE Before(w, v)
  <2>1. a <= v.at /\ a \in Nat /\ v.at \in Nat
    BY <1>1, <1>3 DEF Located
  <2>2. v.at = a => p <= v.pos
    BY <1>2
  <2> QED  BY <1>3, <2>1, <2>2 DEF Before
<1> HIDE DEF ats, poss
<1>5. Foremost(ws) \in ws /\ \A v \in ws : Before(Foremost(ws), v)
  BY <1>3, <1>4 DEF Foremost
<1>6. ASSUME NEW v \in ws PROVE Foremost(ws).at <= v.at
  <2>1. Before(Foremost(ws), v) /\ Foremost(ws).at \in Nat /\ v.at \in Nat
    BY <1>5 DEF Located
  <2> QED  BY <2>1 DEF Before
<1> QED  BY <1>5, <1>6

\* Picking one after the other, from what is left by those that are picked.
Picks(f, n, from) == f[0] = {} /\ \A k \in 1 .. n : f[k] = With(f[k - 1], from[f[k - 1]])
LEMMA PicksOf ==
  ASSUME NEW ws, Located(ws), NEW n \in Nat, NEW from \in [SUBSET ws -> SUBSET ws]
  PROVE  \E f \in [0 .. n -> SUBSET ws] : Picks(f, n, from)
<1> DEFINE S == SUBSET ws
           step == [x \in (0 .. n) \X S |-> With(x[2], from[x[2]])]
<1>1. ASSUME NEW picked \in S PROVE With(picked, from[picked]) \in S
  <2>1. from[picked] \subseteq ws /\ Located(from[picked])
    BY DEF Located
  <2>2. from[picked] # {} => Foremost(from[picked]) \in from[picked]
    BY <2>1, ForemostIsFirst
  <2> QED  BY <2>1, <2>2 DEF With
<1>2. step \in [(0 .. n) \X S -> S] /\ {} \in S
  BY <1>1
<1>3. \A k \in 0 .. n, picked \in S : step[<<k, picked>>] = With(picked, from[picked])
  OBVIOUS
<1> HIDE DEF step, S
<1>4. PICK f \in [0 .. n -> S] : Steps(f, 0, n, {}, step)
  <2>1. 0 \in Nat /\ 0 <= n
    OBVIOUS
  <2> QED  BY <1>2, <2>1, StepsOf
<1>5. f[0] = {}
  <2>1. 0 \in 0 .. n
    OBVIOUS
  <2> QED  BY <1>4, <2>1 DEF Steps
<1>6. ASSUME NEW k \in 1 .. n PROVE f[k] = With(f[k - 1], from[f[k - 1]])
  <2>1. k \in 0 .. n /\ k - 1 \in 0 .. n /\ k # 0
    OBVIOUS
  <2> QED  BY <1>3, <1>4, <2>1 DEF Steps
<1> QED  BY <1>4, <1>5, <1>6 DEF Picks, S

PicksFirst(f, ws, n) ==
  /\ f \in [0 .. n -> SUBSET ws] /\ f[0] = {} /\ FirstOf(ws, n) = f[n]
  /\ \A k \in 1 .. n : f[k] = With(f[k - 1], ws \ f[k - 1])
LEMMA FirstOfPicks == ASSUME NEW ws, Located(ws), NEW n \in Nat PROVE \E f : PicksFirst(f, ws, n)
<1> DEFINE from == [picked \in SUBSET ws |-> ws \ picked]
<1>1. from \in [SUBSET ws -> SUBSET ws]
  OBVIOUS
<1>2. PICK f \in [0 .. n -> SUBSET ws] : Picks(f, n, from)
  <2> HIDE DEF from
  <2> QED  BY <1>1, PicksOf
<1>3. f[0] = {} /\ \A k \in 1 .. n : f[k] = With(f[k - 1], ws \ f[k - 1])
  <2>1. \A k \in 1 .. n : f[k - 1] \in SUBSET ws
    OBVIOUS
  <2> QED  BY <1>2, <2>1 DEF Picks
<1> DEFINE Body(g) == [k \in 0 .. n |-> IF k = 0 THEN {} ELSE With(g[k - 1], ws \ g[k - 1])]
           picked[k \in 0 .. n] == IF k = 0 THEN {} ELSE With(picked[k - 1], ws \ picked[k - 1])
<1>4. f = Body(f)
  <2>1. \A k \in 0 .. n : k # 0 => k \in 1 .. n
    OBVIOUS
  <2> QED  BY <1>3, <2>1
<1>5. picked = Body(picked)
  BY <1>4
<1>6. FirstOf(ws, n) = picked[n]
  BY DEF FirstOf
<1> HIDE DEF picked
<1>7. picked \in [0 .. n -> SUBSET ws]
  <2> DEFINE T == {k \in 0 .. n : picked[k] \in SUBSET ws}
  <2>1. 0 \in T
    BY <1>5
  <2>2. ASSUME NEW k \in 0 .. n - 1, k \in T PROVE k + 1 \in T
    <3>1. k + 1 \in 0 .. n /\ k + 1 # 0 /\ (k + 1) - 1 = k
      OBVIOUS
    <3>2. picked[k + 1] = With(picked[k], ws \ picked[k])
      BY <1>5, <3>1
    <3>3. Located(ws \ picked[k])
      BY DEF Located
    <3>4. ws \ picked[k] # {} => Foremost(ws \ picked[k]) \in ws
      BY <3>3, ForemostIsFirst
    <3> QED  BY <2>2, <3>1, <3>2, <3>4 DEF With
  <2> HIDE DEF T
  <2>3. \A k \in 0 .. n : k \in T
    BY <2>1, <2>2, UpTo
  <2>4. \A k \in 0 .. n : picked[k] \in SUBSET ws
    BY <2>3 DEF T
  <2> QED  BY <1>5, <2>4
<1>8. \A k \in 1 .. n : picked[k] = With(picked[k - 1], ws \ picked[k - 1])
  <2>1. \A k \in 1 .. n : k \in 0 .. n /\ k # 0
    OBVIOUS
  <2> QED  BY <1>5, <2>1
<1>9. picked[0] = {}
  BY <1>5
<1> HIDE DEF Body
<1>10. PicksFirst(picked, ws, n)
  BY <1>6, <1>7, <1>8, <1>9 DEF PicksFirst
<1> QED  BY <1>10

PicksSpaced(f, ws, share, length) ==
  /\ f \in [0 .. share -> SUBSET ws] /\ f[0] = {} /\ Spaced(ws, share, length) = f[share]
  /\ \A k \in 1 .. share : f[k] = With(f[k - 1], Far(ws, f[k - 1], share, length))
LEMMA SpacedPicks ==
  ASSUME NEW ws, Located(ws), NEW share \in Nat, NEW length PROVE \E f : PicksSpaced(f, ws, share, length)
<1> DEFINE from == [picked \in SUBSET ws |-> Far(ws, picked, share, length)]
<1>1. from \in [SUBSET ws -> SUBSET ws]
  BY DEF Far
<1>2. PICK f \in [0 .. share -> SUBSET ws] : Picks(f, share, from)
  <2> HIDE DEF from
  <2> QED  BY <1>1, PicksOf
<1>3. f[0] = {} /\ \A k \in 1 .. share : f[k] = With(f[k - 1], Far(ws, f[k - 1], share, length))
  <2>1. \A k \in 1 .. share : f[k - 1] \in SUBSET ws
    OBVIOUS
  <2> QED  BY <1>2, <2>1 DEF Picks
<1> DEFINE Body(g) == [k \in 0 .. share |-> IF k = 0 THEN {} ELSE With(g[k - 1], Far(ws, g[k - 1], share, length))]
           picked[k \in 0 .. share] == IF k = 0 THEN {} ELSE With(picked[k - 1], Far(ws, picked[k - 1], share, length))
<1>4. f = Body(f)
  <2>1. \A k \in 0 .. share : k # 0 => k \in 1 .. share
    OBVIOUS
  <2> QED  BY <1>3, <2>1
<1>5. picked = Body(picked)
  BY <1>4
<1>6. Spaced(ws, share, length) = picked[share]
  BY DEF Spaced
<1> HIDE DEF picked
<1>7. picked \in [0 .. share -> SUBSET ws]
  <2> DEFINE T == {k \in 0 .. share : picked[k] \in SUBSET ws}
  <2>1. 0 \in T
    BY <1>5
  <2>2. ASSUME NEW k \in 0 .. share - 1, k \in T PROVE k + 1 \in T
    <3>1. k + 1 \in 0 .. share /\ k + 1 # 0 /\ (k + 1) - 1 = k
      OBVIOUS
    <3>2. picked[k + 1] = With(picked[k], Far(ws, picked[k], share, length))
      BY <1>5, <3>1
    <3>3. Located(Far(ws, picked[k], share, length)) /\ Far(ws, picked[k], share, length) \subseteq ws
      BY DEF Located, Far
    <3>4. Far(ws, picked[k], share, length) # {} => Foremost(Far(ws, picked[k], share, length)) \in ws
      BY <3>3, ForemostIsFirst
    <3> QED  BY <2>2, <3>1, <3>2, <3>4 DEF With
  <2> HIDE DEF T
  <2>3. \A k \in 0 .. share : k \in T
    BY <2>1, <2>2, UpTo
  <2>4. \A k \in 0 .. share : picked[k] \in SUBSET ws
    BY <2>3 DEF T
  <2> QED  BY <1>5, <2>4
<1>8. \A k \in 1 .. share : picked[k] = With(picked[k - 1], Far(ws, picked[k - 1], share, length))
  <2>1. \A k \in 1 .. share : k \in 0 .. share /\ k # 0
    OBVIOUS
  <2> QED  BY <1>5, <2>1
<1>9. picked[0] = {}
  BY <1>5
<1> HIDE DEF Body
<1>10. PicksSpaced(picked, ws, share, length)
  BY <1>6, <1>7, <1>8, <1>9 DEF PicksSpaced
<1> QED  BY <1>10

LEMMA FirstOfAreSome ==
  ASSUME NEW ws, Located(ws), IsFiniteSet(ws), NEW n \in Nat, n <= Cardinality(ws)
  PROVE  FirstOf(ws, n) \subseteq ws /\ IsFiniteSet(FirstOf(ws, n)) /\ Cardinality(FirstOf(ws, n)) = n
<1>0. PICK f : PicksFirst(f, ws, n)
  BY FirstOfPicks
<1>1. /\ f \in [0 .. n -> SUBSET ws] /\ f[0] = {} /\ FirstOf(ws, n) = f[n]
      /\ \A k \in 1 .. n : f[k] = With(f[k - 1], ws \ f[k - 1])
  BY <1>0 DEF PicksFirst
<1> DEFINE T == {k \in 0 .. n : IsFiniteSet(f[k]) /\ Cardinality(f[k]) = k}
<1>2. 0 \in T
  BY <1>1, FS_EmptySet
<1>3. ASSUME NEW k \in 0 .. n - 1, k \in T PROVE k + 1 \in T
  <2>1. k + 1 \in 1 .. n /\ k + 1 \in 0 .. n /\ (k + 1) - 1 = k /\ k \in 0 .. n
    OBVIOUS
  <2> DEFINE rest == ws \ f[k]
  <2>2. f[k + 1] = With(f[k], rest)
    BY <1>1, <2>1
  <2>3. f[k] \subseteq ws /\ IsFiniteSet(f[k]) /\ Cardinality(f[k]) = k
    BY <1>1, <1>3, <2>1
  <2>4. rest # {}
    <3> SUFFICES ASSUME rest = {} PROVE FALSE
      OBVIOUS
    <3>1. f[k] = ws
      BY <2>3
    <3>2. Cardinality(ws) = k
      BY <2>3, <3>1
    <3> QED  BY <3>2
  <2>5. Foremost(rest) \in rest
    <3>1. Located(rest)
      BY DEF Located
    <3> QED  BY <2>4, <3>1, ForemostIsFirst
  <2>6. f[k + 1] = f[k] \cup {Foremost(rest)} /\ Foremost(rest) \notin f[k]
    BY <2>2, <2>4, <2>5 DEF With
  <2>7. IsFiniteSet(f[k + 1]) /\ Cardinality(f[k + 1]) = k + 1
    <3> DEFINE x == Foremost(rest)
               some == f[k]
    <3>1. f[k + 1] = some \cup {x} /\ x \notin some /\ IsFiniteSet(some) /\ Cardinality(some) = k
      BY <2>3, <2>6
    <3> HIDE DEF x, some
    <3> QED  BY <3>1, FS_AddElement
  <2> QED  BY <2>1, <2>7
<1> HIDE DEF T
<1>4. \A k \in 0 .. n : k \in T
  BY <1>2, <1>3, UpTo
<1>5. n \in 0 .. n /\ n \in T
  BY <1>4
<1> QED  BY <1>1, <1>5 DEF T

LEMMA Spread ==
  ASSUME NEW a \in Int, NEW b \in Int, NEW k \in Int, NEW n \in Int
  PROVE  (a - b) * n = a * n - b * n /\ (k + 1) * n = k * n + n
  OBVIOUS
LEMMA Times == ASSUME NEW a \in Int, NEW n \in Int PROVE a * n \in Int
  OBVIOUS

\* How a waypoint is passed over: for one before it, nearer than those evenly spaced.
PassedOver(w, picked, share, length) == \E v \in picked : v.at <= w.at /\ (w.at - v.at) * share <= length
\* After so many picks, each that is left was passed over or is so many spacings along.
SpacedSoFar(ws, picked, k, share, length) ==
  /\ \A w \in ws \ picked : PassedOver(w, picked, share, length) \/ w \in Far(ws, picked, share, length)
  /\ \A w \in Far(ws, picked, share, length) : k * length <= w.at * share
  /\ Far(ws, picked, share, length) # {} /\ k # 0 => \E v \in picked : (k - 1) * length <= v.at * share
LEMMA OneMoreIsSpaced ==
  ASSUME NEW ws, Located(ws), NEW share \in Nat, NEW length \in Nat, NEW k \in Nat, NEW picked \in SUBSET ws,
         SpacedSoFar(ws, picked, k, share, length)
  PROVE  SpacedSoFar(ws, With(picked, Far(ws, picked, share, length)), k + 1, share, length)
<1> DEFINE far == Far(ws, picked, share, length)
           more == With(picked, far)
<1>1. far \subseteq ws /\ Located(far)
  BY DEF Far, Located
<1>2. CASE far = {}
  <2>1. more = picked
    BY <1>2 DEF With
  <2> QED  BY <1>2, <2>1 DEF SpacedSoFar
<1>3. CASE far # {}
  <2> DEFINE v == Foremost(far)
  <2>1. v \in far /\ \A w \in far : v.at <= w.at
    BY <1>1, <1>3, ForemostIsFirst
  <2>2. more = picked \cup {v}
    BY <1>3 DEF With
  <2> HIDE DEF v, more
  <2>3. v.at \in Nat /\ v.at * share \in Int /\ k * length \in Int /\ k * length <= v.at * share
    BY <1>1, <2>1, Times DEF Located, SpacedSoFar
  <2>4. (k + 1) * length = k * length + length /\ (k + 1) - 1 = k
    BY Spread
  <2>5. ASSUME NEW w \in ws \ more
        PROVE  PassedOver(w, more, share, length) \/ w \in Far(ws, more, share, length)
    <3>1. CASE PassedOver(w, picked, share, length)
      BY <2>2, <3>1 DEF PassedOver
    <3>2. CASE w \in far
      <4>1. v.at <= w.at /\ w.at \in Nat
        BY <1>1, <2>1, <3>2 DEF Located
      <4>2. (w.at - v.at) * share \in Int
        BY <2>3, <4>1, Times
      <4>3. CASE (w.at - v.at) * share < length
        BY <2>2, <4>1, <4>2, <4>3 DEF PassedOver
      <4>4. CASE length <= (w.at - v.at) * share
        BY <2>2, <3>2, <4>4 DEF Far
      <4> QED  BY <4>2, <4>3, <4>4
    <3> QED  BY <2>2, <3>1, <3>2 DEF SpacedSoFar
  <2>6. ASSUME NEW w \in Far(ws, more, share, length) PROVE (k + 1) * length <= w.at * share
    <3>1. w \in ws /\ (w.at - v.at) * share >= length
      BY <2>2 DEF Far
    <3>2. w.at \in Nat /\ w.at * share \in Int
      BY <3>1, Times DEF Located
    <3>3. (w.at - v.at) * share = w.at * share - v.at * share
      BY <2>3, <3>2, Spread
    <3> DEFINE x == w.at * share
               y == v.at * share
               z == k * length
    <3>4. x \in Int /\ y \in Int /\ z \in Int /\ x - y >= length /\ z <= y
      BY <2>3, <3>1, <3>2, <3>3
    <3> HIDE DEF x, y, z
    <3>5. z + length <= x
      BY <3>4
    <3> QED  BY <2>4, <3>5 DEF x, z
  <2>7. \E u \in more : ((k + 1) - 1) * length <= u.at * share
    BY <2>2, <2>3, <2>4
  <2> QED  BY <2>5, <2>6, <2>7 DEF SpacedSoFar, more
<1> QED  BY <1>2, <1>3

LEMMA SpacedSpan ==
  ASSUME NEW ws, Located(ws), NEW share \in Nat \ {0}, NEW length \in Nat, \A w \in ws : w.at <= length
  PROVE  LET spaced == Spaced(ws, share, length)
         IN  /\ spaced \subseteq ws /\ IsFiniteSet(spaced) /\ Cardinality(spaced) <= share
             /\ \A w \in ws \ spaced : PassedOver(w, spaced, share, length)
<1> DEFINE spaced == Spaced(ws, share, length)
<1>1. PICK f : PicksSpaced(f, ws, share, length)
  BY SpacedPicks
<1>2. /\ f \in [0 .. share -> SUBSET ws] /\ f[0] = {} /\ spaced = f[share]
      /\ \A k \in 1 .. share : f[k] = With(f[k - 1], Far(ws, f[k - 1], share, length))
  BY <1>1 DEF PicksSpaced
<1> HIDE DEF spaced
<1> DEFINE Few(some, k) == IsFiniteSet(some) /\ Cardinality(some) \in Nat /\ Cardinality(some) <= k
           T == {k \in 0 .. share : Few(f[k], k) /\ SpacedSoFar(ws, f[k], k, share, length)}
<1>3. 0 \in T
  <2>1. Few({}, 0)
    BY FS_EmptySet
  <2>2. SpacedSoFar(ws, {}, 0, share, length)
    <3>1. Far(ws, {}, share, length) = ws
      BY DEF Far
    <3>2. ASSUME NEW w \in ws PROVE 0 * length <= w.at * share
      <4>1. w.at \in Nat
        BY DEF Located
      <4>2. 0 * length = 0 /\ w.at * share \in Nat
        BY <4>1
      <4> QED  BY <4>2
    <3> QED  BY <3>1, <3>2 DEF SpacedSoFar
  <2>3. 0 \in 0 .. share
    OBVIOUS
  <2> HIDE DEF Few
  <2>4. Few(f[0], 0) /\ SpacedSoFar(ws, f[0], 0, share, length)
    BY <1>2, <2>1, <2>2
  <2> QED  BY <2>3, <2>4
<1>4. ASSUME NEW k \in 0 .. share - 1, k \in T PROVE k + 1 \in T
  <2>1. k + 1 \in 1 .. share /\ k + 1 \in 0 .. share /\ (k + 1) - 1 = k /\ k \in 0 .. share /\ k \in Nat
    OBVIOUS
  <2> DEFINE some == f[k]
             far == Far(ws, some, share, length)
  <2>2. f[k + 1] = With(some, far) /\ some \in SUBSET ws
    BY <1>2, <2>1
  <2>3. Few(some, k) /\ SpacedSoFar(ws, some, k, share, length)
    BY <1>4
  <2> HIDE DEF some
  <2>4. SpacedSoFar(ws, With(some, far), k + 1, share, length)
    BY <2>1, <2>2, <2>3, OneMoreIsSpaced
  <2>5. Few(With(some, far), k + 1)
    <3> DEFINE x == Foremost(far)
    <3>1. With(some, far) \in {some, some \cup {x}}
      BY DEF With
    <3> HIDE DEF x, far
    <3>2. IsFiniteSet(some) /\ Cardinality(some) \in Nat /\ Cardinality(some) <= k
      BY <2>3, FS_CardinalityType
    <3>3. IsFiniteSet(some \cup {x}) /\ Cardinality(some \cup {x}) \in {Cardinality(some), Cardinality(some) + 1}
      BY <3>2, FS_AddElement
    <3> QED  BY <2>1, <3>1, <3>2, <3>3
  <2> HIDE DEF far, Few
  <2> QED  BY <2>1, <2>2, <2>4, <2>5
<1> HIDE DEF T
<1>5. \A k \in 0 .. share : k \in T
  BY <1>3, <1>4, UpTo
<1>6. share \in 0 .. share
  OBVIOUS
<1>7. Few(spaced, share) /\ SpacedSoFar(ws, spaced, share, share, length)
  BY <1>2, <1>5, <1>6 DEF T
<1>8. spaced \subseteq ws
  BY <1>2, <1>6
<1>9. ASSUME NEW w \in ws \ spaced PROVE PassedOver(w, spaced, share, length)
  <2> SUFFICES ASSUME w \in Far(ws, spaced, share, length) PROVE PassedOver(w, spaced, share, length)
    BY <1>7 DEF SpacedSoFar
  <2>1. share * length <= w.at * share
    BY <1>7 DEF SpacedSoFar
  <2>2. w.at \in Nat /\ w.at <= length
    BY DEF Located
  <2>3. PICK v \in spaced : (share - 1) * length <= v.at * share
    BY <1>7 DEF SpacedSoFar
  <2>4. v.at \in Nat /\ v.at <= length
    BY <1>8 DEF Located
  <2>5. w.at = length
    <3> DEFINE x == length - w.at
    <3>1. x \in Nat /\ length = w.at + x
      BY <2>2
    <3>2. x * share <= 0
      BY <2>1, <2>2, <3>1
    <3>3. x = 0
      BY <3>1, <3>2
    <3> QED  BY <2>2, <3>3
  <2>6. (length - v.at) * share = length * share - v.at * share
    BY <2>4, Spread
  <2>7. (share - 1) * length = length * share - length
    OBVIOUS
  <2>8. (length - v.at) * share <= length
    <3> DEFINE a == length * share
               b == v.at * share
    <3>1. a \in Int /\ b \in Int /\ a - length <= b
      BY <2>3, <2>4, <2>7, Times
    <3> HIDE DEF a, b
    <3>2. a - b <= length
      BY <3>1
    <3> QED  BY <2>6, <3>2 DEF a, b
  <2> QED  BY <2>3, <2>4, <2>5, <2>8 DEF PassedOver
<1> QED  BY <1>7, <1>8, <1>9 DEF spaced

\* One kind's share is as many as it may be, and what is left was passed over for one of it.
LEMMA ShareSpans ==
  ASSUME NEW ws, Located(ws), IsFiniteSet(ws), NEW length \in Nat, \A w \in ws : w.at <= length,
         NEW share \in 1 .. Cardinality(ws)
  PROVE  LET chosen == Share(ws, share, length)
         IN  /\ chosen \subseteq ws /\ IsFiniteSet(chosen) /\ Cardinality(chosen) = share
             /\ \A w \in ws \ chosen : PassedOver(w, chosen, share, length)
<1> DEFINE spaced == Spaced(ws, share, length)
           chosen == Share(ws, share, length)
           rest == ws \ spaced
           others == FirstOf(rest, share - Cardinality(spaced))
<1>1. Cardinality(ws) \in Nat /\ share \in Nat \ {0} /\ share <= Cardinality(ws)
  BY FS_CardinalityType
<1>2. /\ spaced \subseteq ws /\ IsFiniteSet(spaced) /\ Cardinality(spaced) <= share
      /\ \A w \in ws \ spaced : PassedOver(w, spaced, share, length)
  BY <1>1, SpacedSpan
<1>3. chosen = spaced \cup others
  BY DEF Share
<1> HIDE DEF spaced, chosen
<1>4. Cardinality(spaced) \in Nat
  BY <1>2, FS_CardinalityType
<1>5. IsFiniteSet(rest) /\ Cardinality(rest) = Cardinality(ws) - Cardinality(spaced)
  <2>1. ws \cap spaced = spaced
    BY <1>2
  <2> QED  BY <2>1, FS_Difference
<1>6. Located(rest) /\ share - Cardinality(spaced) \in Nat /\ share - Cardinality(spaced) <= Cardinality(rest)
  BY <1>1, <1>2, <1>4, <1>5 DEF Located
<1>7. others \subseteq rest /\ IsFiniteSet(others) /\ Cardinality(others) = share - Cardinality(spaced)
  <2> HIDE DEF rest
  <2> QED  BY <1>5, <1>6, FirstOfAreSome
<1>8. spaced \cap others = {}
  BY <1>7
<1> HIDE DEF rest, others
<1>9. IsFiniteSet(chosen) /\ Cardinality(chosen) = share
  <2>1. Cardinality(spaced \cap others) = 0
    BY <1>8, FS_EmptySet
  <2>2. IsFiniteSet(chosen) /\ Cardinality(chosen) = Cardinality(spaced) + Cardinality(others) - 0
    BY <1>2, <1>3, <1>7, <2>1, FS_Union
  <2> QED  BY <1>1, <1>4, <1>7, <2>2
<1>10. chosen \subseteq ws
  BY <1>2, <1>3, <1>7 DEF rest
<1>11. ASSUME NEW w \in ws \ chosen PROVE PassedOver(w, chosen, share, length)
  BY <1>2, <1>3 DEF PassedOver
<1> QED  BY <1>9, <1>10, <1>11 DEF chosen

\* Of each kind that may be dropped, what is kept is none or its share.
ShareOf(kept, ws, kind, length) ==
  \/ OfKind(kept, kind) = {}
  \/ \E share \in 1 .. Cardinality(OfKind(ws, kind)) : OfKind(kept, kind) = Share(OfKind(ws, kind), share, length)
KeptSoFar(kept, k, ws, length) ==
  /\ kept \subseteq ws /\ NeverDropped(ws) \subseteq kept
  /\ Cardinality(kept) <= DeviceMax \/ kept = NeverDropped(ws)
  /\ \A w \in kept : w.kind \in NeverDrop \/ \E j \in 1 .. k : w.kind = KindPriority[j]
  /\ \A w \in ws : w.kind \notin NeverDrop => ShareOf(kept, ws, w.kind, length)
Waysides(ws, length) ==
  /\ IsFiniteSet(ws) /\ Located(ws) /\ \A w \in ws : w.at <= length
  /\ length \in Nat
LEMMA AdmitsAShare ==
  ASSUME NEW ws, NEW length, Waysides(ws, length), NEW k \in Nat, k + 1 <= Len(KindPriority),
         NEW kept, KeptSoFar(kept, k, ws, length)
  PROVE  KeptSoFar(Admitted(kept, OfKind(ws, KindPriority[k + 1]), length), k + 1, ws, length)
<1> DEFINE kind == KindPriority[k + 1]
           of_kind == OfKind(ws, kind)
           budget == DeviceMax - Cardinality(kept)
           more == Admitted(kept, of_kind, length)
<1>1. IsFiniteSet(kept) /\ Cardinality(kept) \in Nat /\ DeviceMax \in Nat /\ Len(KindPriority) \in Nat
  BY FS_Subset, FS_CardinalityType, SheetsAssumption DEF KeptSoFar, Waysides
<1>2. \A j \in 1 .. k : j \in 1 .. k + 1
  OBVIOUS
<1>3. CASE budget <= 0 \/ of_kind = {}
  <2>1. more = kept
    BY <1>3 DEF Admitted
  <2> QED  BY <1>2, <2>1 DEF KeptSoFar
<1>4. CASE ~(budget <= 0 \/ of_kind = {})
  <2> DEFINE share == IF Cardinality(of_kind) < budget THEN Cardinality(of_kind) ELSE budget
             chosen == Share(of_kind, share, length)
  <2>1. more = kept \cup chosen
    BY <1>4 DEF Admitted
  <2>2. of_kind \subseteq ws /\ IsFiniteSet(of_kind) /\ Located(of_kind) /\ (\A w \in of_kind : w.at <= length) /\ length \in Nat
    BY FS_Subset DEF OfKind, Waysides, Located
  <2>3. Cardinality(of_kind) \in Nat \ {0}
    <3> HIDE DEF of_kind
    <3> QED  BY <1>4, <2>2, FS_CardinalityType, FS_EmptySet
  <2> HIDE DEF of_kind
  <2>4. share \in 1 .. Cardinality(of_kind) /\ share <= budget /\ share \in Nat
    BY <1>1, <1>4, <2>3
  <2> HIDE DEF share
  <2>5. chosen \subseteq of_kind /\ IsFiniteSet(chosen) /\ Cardinality(chosen) = share
    BY <2>2, <2>4, ShareSpans
  <2> HIDE DEF chosen, more
  <2>6. Cardinality(more) <= DeviceMax
    <3>1. /\ Cardinality(kept \cup chosen) = Cardinality(kept) + Cardinality(chosen) - Cardinality(kept \cap chosen)
          /\ IsFiniteSet(kept \cap chosen)
      BY <1>1, <2>5, FS_Union, FS_Subset
    <3>2. Cardinality(kept \cap chosen) \in Nat
      BY <3>1, FS_CardinalityType
    <3> QED  BY <1>1, <2>1, <2>4, <2>5, <3>1, <3>2
  <2>7. \A w \in chosen : w \in ws /\ w.kind = kind
    BY <2>5 DEF of_kind, OfKind
  <2>8. k + 1 \in 1 .. k + 1
    OBVIOUS
  <2>9. \A w \in more : w.kind \in NeverDrop \/ \E j \in 1 .. k + 1 : w.kind = KindPriority[j]
    BY <1>2, <2>1, <2>7, <2>8 DEF KeptSoFar
  <2>10. ASSUME NEW w \in ws, w.kind \notin NeverDrop PROVE ShareOf(more, ws, w.kind, length)
    <3>1. CASE w.kind = kind
      <4>1. OfKind(kept, kind) = {}
        <5> SUFFICES ASSUME NEW v \in kept, v.kind = kind PROVE FALSE
          BY DEF OfKind
        <5>1. PICK j \in 1 .. k : kind = KindPriority[j]
          BY <2>10, <3>1 DEF KeptSoFar
        <5>2. j \in DOMAIN KindPriority /\ k + 1 \in DOMAIN KindPriority /\ j # k + 1
          BY <1>1
        <5> QED  BY <5>1, <5>2, SheetsAssumption
      <4>2. OfKind(more, kind) = chosen
        BY <2>1, <2>7, <4>1 DEF OfKind
      <4> QED  BY <2>4, <3>1, <4>2 DEF ShareOf, of_kind, chosen
    <3>2. CASE w.kind # kind
      <4>1. OfKind(more, w.kind) = OfKind(kept, w.kind)
        BY <2>1, <2>7, <3>2 DEF OfKind
      <4> QED  BY <2>10, <4>1 DEF ShareOf, KeptSoFar
    <3> QED  BY <3>1, <3>2
  <2>11. more \subseteq ws /\ NeverDropped(ws) \subseteq more
    BY <2>1, <2>7 DEF KeptSoFar
  <2> QED  BY <2>6, <2>9, <2>10, <2>11 DEF KeptSoFar, more, of_kind
<1> HIDE DEF more, kind
<1> QED  BY <1>3, <1>4 DEF more, kind

LEMMA AdmittedIsSome ==
  ASSUME NEW ws, NEW length, Waysides(ws, length), NEW kept \in SUBSET ws, NEW kind
  PROVE  Admitted(kept, OfKind(ws, kind), length) \in SUBSET ws
<1> DEFINE of_kind == OfKind(ws, kind)
           budget == DeviceMax - Cardinality(kept)
           share == IF Cardinality(of_kind) < budget THEN Cardinality(of_kind) ELSE budget
<1>1. IsFiniteSet(kept) /\ Cardinality(kept) \in Nat /\ DeviceMax \in Nat
  BY FS_Subset, FS_CardinalityType, SheetsAssumption DEF Waysides
<1>2. of_kind \subseteq ws /\ IsFiniteSet(of_kind) /\ Located(of_kind) /\ (\A w \in of_kind : w.at <= length) /\ length \in Nat
  BY FS_Subset DEF OfKind, Waysides, Located
<1>3. CASE budget <= 0 \/ of_kind = {}
  BY <1>3 DEF Admitted
<1>4. CASE ~(budget <= 0 \/ of_kind = {})
  <2>1. Admitted(kept, of_kind, length) = kept \cup Share(of_kind, share, length)
    BY <1>4 DEF Admitted
  <2> HIDE DEF of_kind
  <2>2. Cardinality(of_kind) \in Nat \ {0}
    BY <1>2, <1>4, FS_CardinalityType, FS_EmptySet
  <2>3. share \in 1 .. Cardinality(of_kind)
    BY <1>1, <1>4, <2>2
  <2> HIDE DEF share
  <2>4. Share(of_kind, share, length) \subseteq of_kind
    BY <1>2, <2>3, ShareSpans
  <2> QED  BY <1>2, <2>1, <2>4 DEF of_kind
<1> HIDE DEF of_kind, budget
<1> QED  BY <1>3, <1>4 DEF of_kind

\* The kinds are admitted one after the other.
Admits(f, ws, length) ==
  /\ f[0] = NeverDropped(ws)
  /\ \A k \in 1 .. Len(KindPriority) : f[k] = Admitted(f[k - 1], OfKind(ws, KindPriority[k]), length)
LEMMA CourseAdmits ==
  ASSUME NEW ws, NEW length, Waysides(ws, length), ~(Cardinality(ws) <= DeviceMax)
  PROVE  \E f : Admits(f, ws, length) /\ Course(ws, length) = f[Len(KindPriority)]
<1> DEFINE n == Len(KindPriority)
           S == SUBSET ws
           Next1(k, kept) == Admitted(kept, OfKind(ws, KindPriority[k]), length)
           step == [x \in (0 .. n) \X S |-> Next1(x[1], x[2])]
<1>1. n \in Nat
  BY SheetsAssumption
<1>2. NeverDropped(ws) \in S
  BY DEF NeverDropped
<1>3. \A k \in 0 .. n, kept \in S : Next1(k, kept) \in S
  BY AdmittedIsSome
<1> HIDE DEF n, S, Next1
<1>4. step \in [(0 .. n) \X S -> S]
  BY <1>3
<1>5. \A k \in 0 .. n, kept \in S : step[<<k, kept>>] = Next1(k, kept)
  OBVIOUS
<1> HIDE DEF step
<1>6. PICK f \in [0 .. n -> S] : Steps(f, 0, n, NeverDropped(ws), step)
  <2>1. 0 \in Nat /\ 0 <= n
    BY <1>1
  <2> QED  BY <1>1, <1>2, <1>4, <2>1, StepsOf
<1>7. \A k \in 0 .. n : f[k] = IF k = 0 THEN NeverDropped(ws) ELSE Next1(k, f[k - 1])
  <2> SUFFICES ASSUME NEW k \in 0 .. n, k # 0 PROVE f[k] = Next1(k, f[k - 1])
    BY <1>6 DEF Steps
  <2>1. k - 1 \in 0 .. n
    BY <1>1
  <2> QED  BY <1>5, <1>6, <2>1 DEF Steps
<1> DEFINE Body(g) == [k \in 0 .. Len(KindPriority) |->
                         IF k = 0 THEN NeverDropped(ws) ELSE Admitted(g[k - 1], OfKind(ws, KindPriority[k]), length)]
           kept[k \in 0 .. Len(KindPriority)] ==
             IF k = 0 THEN NeverDropped(ws) ELSE Admitted(kept[k - 1], OfKind(ws, KindPriority[k]), length)
<1>8. f = Body(f)
  BY <1>6, <1>7 DEF Next1, n
<1>9. kept = Body(kept)
  BY <1>8
<1>10. Course(ws, length) = kept[n]
  BY DEF Course, n
<1> HIDE DEF kept
<1>11. kept[0] = NeverDropped(ws)
  <2>1. 0 \in 0 .. Len(KindPriority)
    BY <1>1 DEF n
  <2> QED  BY <1>9, <2>1
<1>12. ASSUME NEW k \in 1 .. Len(KindPriority)
       PROVE  kept[k] = Admitted(kept[k - 1], OfKind(ws, KindPriority[k]), length)
  <2>1. k \in 0 .. Len(KindPriority) /\ k # 0
    BY <1>1 DEF n
  <2> QED  BY <1>9, <2>1
<1>13. Admits(kept, ws, length)
  BY <1>11, <1>12 DEF Admits
<1> QED  BY <1>10, <1>13 DEF n

\* What a device is given of some waypoints along a line of this length.
CourseSpans(ws, kept, length) ==
  /\ Cardinality(kept) <= DeviceMax \/ kept = NeverDropped(ws)
  /\ NeverDropped(ws) \subseteq kept
  /\ \A w \in ws \ kept :
       LET same == OfKind(kept, w.kind)
       IN  same # {} => \E v \in same : v.at <= w.at /\ (w.at - v.at) * Cardinality(same) <= length
LEMMA CourseIsSpaced ==
  ASSUME NEW ws, NEW length, Waysides(ws, length)
  PROVE  CourseSpans(ws, Course(ws, length), length)
<1>1. CASE Cardinality(ws) <= DeviceMax
  <2>1. Course(ws, length) = ws
    BY <1>1 DEF Course
  <2>2. CourseSpans(ws, ws, length)
    BY <1>1 DEF CourseSpans, NeverDropped
  <2> QED  BY <2>1, <2>2
<1>2. CASE ~(Cardinality(ws) <= DeviceMax)
  <2> DEFINE n == Len(KindPriority)
             final == Course(ws, length)
  <2>1. PICK f : Admits(f, ws, length) /\ final = f[n]
    BY <1>2, CourseAdmits
  <2>2. n \in Nat
    BY SheetsAssumption
  <2> HIDE DEF final
  <2> DEFINE T == {k \in 0 .. n : KeptSoFar(f[k], k, ws, length)}
  <2>3. 0 \in T
    <3>1. f[0] = NeverDropped(ws) /\ 0 \in 0 .. n
      BY <2>1, <2>2 DEF Admits
    <3>2. KeptSoFar(NeverDropped(ws), 0, ws, length)
      BY DEF KeptSoFar, NeverDropped, ShareOf, OfKind
    <3> QED  BY <3>1, <3>2
  <2>4. ASSUME NEW k \in 0 .. n - 1, k \in T PROVE k + 1 \in T
    <3>1. k \in Nat /\ k + 1 \in 1 .. n /\ k + 1 \in 0 .. n /\ (k + 1) - 1 = k /\ k + 1 <= Len(KindPriority)
      BY <2>2
    <3>2. f[k + 1] = Admitted(f[k], OfKind(ws, KindPriority[k + 1]), length)
      BY <2>1, <3>1 DEF Admits
    <3>3. KeptSoFar(f[k], k, ws, length)
      BY <2>4
    <3>4. KeptSoFar(f[k + 1], k + 1, ws, length)
      BY <3>1, <3>2, <3>3, AdmitsAShare
    <3> QED  BY <3>1, <3>4
  <2> HIDE DEF T
  <2>5. \A k \in 0 .. n : k \in T
    BY <2>2, <2>3, <2>4, UpTo
  <2>6. KeptSoFar(final, n, ws, length)
    <3>1. n \in 0 .. n
      BY <2>2
    <3> QED  BY <2>1, <2>5, <3>1 DEF T
  <2>7. ASSUME NEW w \in ws \ final, OfKind(final, w.kind) # {}
        PROVE  LET same == OfKind(final, w.kind)
               IN  \E v \in same : v.at <= w.at /\ (w.at - v.at) * Cardinality(same) <= length
    <3> DEFINE same == OfKind(final, w.kind)
               all == OfKind(ws, w.kind)
    <3>1. w.kind \notin NeverDrop
      BY <2>6, <2>7 DEF KeptSoFar, NeverDropped
    <3>2. PICK share \in 1 .. Cardinality(all) : same = Share(all, share, length)
      BY <2>6, <2>7, <3>1 DEF KeptSoFar, ShareOf
    <3>3. Located(all) /\ IsFiniteSet(all) /\ length \in Nat /\ \A v \in all : v.at <= length
      BY FS_Subset DEF OfKind, Waysides, Located
    <3>4. w \in all /\ w \notin same
      BY <2>7 DEF OfKind
    <3> HIDE DEF same, all
    <3>5. Cardinality(same) = share /\ \A v \in all \ same : PassedOver(v, same, share, length)
      BY <3>2, <3>3, ShareSpans
    <3>6. PassedOver(w, same, Cardinality(same), length)
      BY <3>4, <3>5
    <3> QED  BY <3>6 DEF PassedOver, same
  <2>8. CourseSpans(ws, final, length)
    BY <2>6, <2>7 DEF CourseSpans, KeptSoFar
  <2> QED  BY <2>8 DEF final
<1> QED  BY <1>1, <1>2

LEMMA LengthOfALine == ASSUME NEW line \in Lines PROVE Length(line) \in Nat
<1>1. line \in Seq(Point) /\ line # <<>>
  BY PipelineAssumption DEF Point, Place2, NoLine
<1>2. Len(line) \in Nat /\ 1 <= Len(line) /\ DOMAIN line = 1 .. Len(line)
  BY <1>1, EmptySeq
<1>3. line[1].at = 0 /\ \A i, j \in DOMAIN line : i < j => line[i].at < line[j].at
  BY SheetsAssumption
<1>4. line[Len(line)].at \in Int /\ 0 <= line[Len(line)].at
  <2> DEFINE n == Len(line)
  <2>1. n \in DOMAIN line /\ 1 \in DOMAIN line /\ line[n] \in Point
    BY <1>1, <1>2
  <2>2. line[n].at \in Int
    BY <2>1 DEF Point
  <2>3. CASE n = 1
    BY <1>3, <2>3
  <2>4. CASE 1 < n
    BY <1>3, <2>1, <2>2, <2>4
  <2> QED  BY <1>2, <2>2, <2>3, <2>4
<1> QED  BY <1>4 DEF Length, Last

LEMMA WaypointsAreAlong ==
  ASSUME PassInv, ReadInv, plan # NoPlan PROVE Waysides(Waypoints(plan), Length(plan.line))
<1> DEFINE found(r) == {[kind |-> w.kind, pos |-> w.pos, at |-> w.at, by |-> r.name] : w \in r.found}
           sets == {found(r) : r \in Results}
<1>1. PlanIsSound(passes)
  BY PlanIsTraced
<1>2. All(plan) = UNION sets
  BY DEF All, Results
<1>3. ASSUME NEW r \in Results
      PROVE  IsFiniteSet(found(r)) /\ \A w \in found(r) : Met(w)
  <2>1. IsFiniteSet(r.found) /\ \A w \in r.found : Met(w)
    BY ResultsTell DEF Telling
  <2> DEFINE f == [w \in r.found |-> [kind |-> w.kind, pos |-> w.pos, at |-> w.at, by |-> r.name]]
  <2>2. found(r) = {f[w] : w \in DOMAIN f} /\ DOMAIN f = r.found
    OBVIOUS
  <2>3. \A w \in found(r) : Met(w)
    BY <2>1 DEF Met
  <2> HIDE DEF f
  <2>4. IsFiniteSet({f[w] : w \in DOMAIN f})
    BY <2>1, <2>2, ImageIsFinite
  <2> QED  BY <2>2, <2>3, <2>4
<1>4. IsFiniteSet(sets)
  <2> DEFINE g == [i \in DOMAIN plan.results |-> found(plan.results[i])]
  <2>1. DOMAIN plan.results = 1 .. Len(plan.results) /\ Len(plan.results) \in Nat
    BY <1>1, AppendedTo DEF PlanIsSound
  <2>2. IsFiniteSet(1 .. Len(plan.results))
    BY <2>1, FS_Interval
  <2> HIDE DEF found
  <2>3. IsFiniteSet(DOMAIN g) /\ sets = {g[i] : i \in DOMAIN g}
    BY <2>1, <2>2 DEF Results
  <2> HIDE DEF g
  <2> QED  BY <2>3, ImageIsFinite
<1> HIDE DEF found
<1>5. (\A some \in sets : IsFiniteSet(some)) /\ \A w \in All(plan) : Met(w)
  BY <1>2, <1>3
<1> HIDE DEF sets
<1>6. IsFiniteSet(All(plan))
  BY <1>2, <1>4, <1>5, FS_UNION
<1>7. Waypoints(plan) \subseteq All(plan)
  BY DEF Waypoints
<1>8. plan.line \in Lines /\ Length(plan.line) \in Nat
  BY <1>1, LengthOfALine DEF PlanIsSound, OnALine
<1> QED  BY <1>5, <1>6, <1>7, <1>8, FS_Subset DEF Waysides, Located, Met

LEMMA CoursesTell == ASSUME PassInv, ReadInv, plan # NoPlan PROVE CourseTells(plan)
<1> DEFINE all == Waypoints(plan)
           kept == Course(all, Length(plan.line))
<1>1. CourseSpans(all, kept, Length(plan.line))
  BY WaypointsAreAlong, CourseIsSpaced
<1>2. OfKind(all, "gate") \cup OfKind(all, "hazard") \subseteq NeverDropped(all)
  BY SheetsAssumption DEF OfKind, NeverDropped
<1> HIDE DEF all, kept
<1>3. /\ Cardinality(kept) <= DeviceMax \/ kept = NeverDropped(all)
      /\ OfKind(all, "gate") \cup OfKind(all, "hazard") \subseteq kept
      /\ \A w \in all \ kept :
           LET same == OfKind(kept, w.kind)
           IN  same # {} => \E v \in same :
                 v.at <= w.at /\ (w.at - v.at) * Cardinality(same) <= Length(plan.line)
  BY <1>1, <1>2 DEF CourseSpans
<1> QED  BY <1>3 DEF CourseTells, all, kept

-----------------------------------------------------------------------------
\* However often a plan is scored again, and whichever of its scorers answer: its coverage is
\* that of its results, its report fails on every hard flag it looks at, its sheets show what
\* was flagged and what was not asked, its course keeps every gate and hazard and leaves out
\* what is near one that it keeps, and what is told of a re-scoring is all that it lost
\* (gpx_verify, plan_sheet, select_for_device, result_diff).
THEOREM ReadingsAreOfThePlan == SpecRead => []WhatIsReadIsOfThePlan
<1>1. PassInv /\ ReadInv /\ CoverageIsOfThePlan => WhatIsReadIsOfThePlan
  <2> SUFFICES ASSUME PassInv, ReadInv, CoverageIsOfThePlan PROVE WhatIsReadIsOfThePlan
    OBVIOUS
  <2>1. plan # NoPlan => ReportTells(plan) /\ SheetTells(plan) /\ CourseTells(plan)
    BY ReportsTell, SheetsTell, CoursesTell
  <2>2. DeltaTells
    BY DeltasTell
  <2> QED  BY <2>1, <2>2 DEF WhatIsReadIsOfThePlan
<1> QED  BY <1>1, ReadingsAreSound, CoverageIsItsOwn, PTL

-----------------------------------------------------------------------------
\* ---- the cassette and the call budget (RouterCache), from which the lines are drawn.  The
\* invariant is about one leg and the file: what the leg has paid for is in the file, what
\* it is asking for it has not paid for before, and what it was told may be recorded under
\* its pin.
Paid(log) == \A i \in DOMAIN log : ~log[i].cached => cassette[log[i].key] # Nothing
NotIn(log, key) == \A i \in DOMAIN log : ~log[i].cached => log[i].key # key

InFlight(l, offline) ==
  /\ l.call \in Calls /\ ~offline
  /\ NotIn(l.log, Key(l.call, l.pin))
MayBePut(l) ==
  /\ l.told \in Answers /\ Returns(l.call, l.told.said)
  /\ l.pin # Unpinned => l.told.graph >= l.pin

SoundLeg(l, offline) ==
  /\ l \in Legs
  /\ l.sent <= l.used /\ l.used <= ApiCallsMax
  /\ l.pin # Unpinned => l.pin <= graph
  /\ l.at = "asking" => InFlight(l, offline) /\ l.sent < l.used
  /\ l.at = "told" => InFlight(l, offline) /\ MayBePut(l)
  /\ Paid(l.log) /\ NoTwiceIn(l.log)

\* What is recorded under a graph's pin was drawn on that graph or a later one.
RecordedUnderItsPin ==
  \A k \in Keys : cassette[k] # Nothing /\ k.pin # Unpinned => cassette[k].graph >= k.pin

Inv ==
  /\ TypeOK /\ RecordedRoutesAreRoutes /\ RecordedUnderItsPin
  /\ \A p \in Plans : SoundLeg(leg[p], p \in Offline)

-----------------------------------------------------------------------------
LEMMA NewLegIsOne == /\ NewLeg \in Legs /\ NewLeg.at = "new" /\ NewLeg.number = 0
                     /\ NewLeg.pin = Unpinned /\ NewLeg.used = 0 /\ NewLeg.sent = 0
                     /\ NewLeg.log = <<>>
<1>1. <<>> \in Seq(Entries)
  OBVIOUS
<1> QED  BY <1>1, CacheAssumption DEF NewLeg, Legs, Places, Pins, Graphs

LEMMA InvInitially == Init => Inv
<1> SUFFICES ASSUME Init PROVE Inv
  OBVIOUS
<1>1. NewLeg \in Legs
  BY NewLegIsOne
<1>2. TypeOK
  BY <1>1, CacheAssumption DEF Init, TypeOK, Graphs
<1>3. ASSUME NEW p \in Plans PROVE SoundLeg(leg[p], p \in Offline)
  BY NewLegIsOne, CacheAssumption DEF Init, SoundLeg, Paid, NoTwiceIn
<1> QED
  BY <1>2, <1>3 DEF Init, Inv, RecordedRoutesAreRoutes, RecordedUnderItsPin

\* A step of one plan disturbs no other: the file forgets nothing, and the graph is
\* only replaced by a later one.
LEMMA OthersStaySound ==
  ASSUME Inv, NEW p \in Plans, NEW l \in Legs, Goes(p, l), SoundLeg(l, p \in Offline)',
         cassette' \in [Keys -> Answers \cup {Nothing}],
         \A k \in Keys : cassette[k] # Nothing => cassette'[k] # Nothing,
         graph' = graph
  PROVE  leg' \in [Plans -> Legs] /\ \A q \in Plans : SoundLeg(leg[q], q \in Offline)'
<1>1. leg \in [Plans -> Legs] /\ leg' = [leg EXCEPT ![p] = l]
  BY DEF Inv, TypeOK, Goes
<1>2. ASSUME NEW q \in Plans PROVE SoundLeg(leg[q], q \in Offline)'
  <2>1. CASE q = p
    BY <1>1, <2>1
  <2>2. CASE q # p
    <3>1. leg'[q] = leg[q] /\ SoundLeg(leg[q], q \in Offline)
      BY <1>1, <2>2 DEF Inv
    <3>2. \A i \in DOMAIN leg[q].log : leg[q].log[i] \in Entries
      <4>1. leg[q].log \in Seq(Entries)
        BY <3>1 DEF SoundLeg, Legs
      <4> QED  BY <4>1
    <3>3. Paid(leg[q].log)'
      BY <3>1, <3>2 DEF SoundLeg, Paid, Entries
    <3> QED  BY <3>1, <3>3 DEF SoundLeg
  <2> QED  BY <2>1, <2>2
<1> QED  BY <1>1, <1>2

\* A trip recorded in the log: nothing is paid twice when what was paid for is in
\* the file now and was not paid for before.
LEMMA RecordedKeepsLog ==
  ASSUME NEW log \in Seq(Entries), NEW key \in Keys, NEW cached \in BOOLEAN,
         Paid(log), NoTwiceIn(log), cached \/ NotIn(log, key),
         cached \/ cassette'[key] # Nothing,
         \A k \in Keys : cassette[k] # Nothing => cassette'[k] # Nothing,
         NEW longer, longer = Append(log, [key |-> key, cached |-> cached])
  PROVE  /\ longer \in Seq(Entries) /\ NoTwiceIn(longer)
         /\ \A i \in DOMAIN longer : ~longer[i].cached => cassette'[longer[i].key] # Nothing
<1> DEFINE entry == [key |-> key, cached |-> cached]
<1>1. entry \in Entries
  BY DEF Entries
<1>2. longer \in Seq(Entries) /\ Len(longer) = Len(log) + 1 /\ DOMAIN longer = 1 .. Len(log) + 1
  BY <1>1
<1>3. \A i \in 1 .. Len(log) : longer[i] = log[i] /\ log[i] \in Entries /\ i \in DOMAIN log
  BY <1>1
<1>4. longer[Len(log) + 1] = entry /\ Len(log) \in Nat
  BY <1>1
<1>5. \A i \in DOMAIN longer : i \in 1 .. Len(log) \/ i = Len(log) + 1
  BY <1>2, <1>4
<1>6. NoTwiceIn(longer)
  BY <1>3, <1>4, <1>5 DEF NoTwiceIn, NotIn
<1>7. \A i \in DOMAIN longer : ~longer[i].cached => cassette'[longer[i].key] # Nothing
  BY <1>3, <1>4, <1>5 DEF Paid, Entries
<1> QED  BY <1>2, <1>6, <1>7

-----------------------------------------------------------------------------
LEMMA InvKept == Inv /\ [Next]_vars => Inv'
<1> SUFFICES ASSUME Inv, [Next]_vars PROVE Inv'
  OBVIOUS
<1>0. leg \in [Plans -> Legs] /\ cassette \in [Keys -> Answers \cup {Nothing}]
      /\ graph \in Graphs /\ asked \in [Plans -> Nat]
  BY DEF Inv, TypeOK
\* The steps that leave the file alone: the leg that takes them stays sound.
<1>a. ASSUME NEW p \in Plans, NEW l, Goes(p, l), UNCHANGED <<cassette, graph>>,
             SoundLeg(l, p \in Offline), asked' \in [Plans -> Nat]
      PROVE  Inv'
  <2>1. l \in Legs /\ SoundLeg(l, p \in Offline)'
    BY <1>a DEF SoundLeg, Paid
  <2>2. leg' \in [Plans -> Legs] /\ \A q \in Plans : SoundLeg(leg[q], q \in Offline)'
    BY <1>0, <1>a, <2>1, OthersStaySound
  <2>3. TypeOK'
    BY <1>0, <1>a, <2>2 DEF TypeOK
  <2> QED
    BY <1>a, <2>2, <2>3 DEF Inv, RecordedRoutesAreRoutes, RecordedUnderItsPin
\* A plan without a lookup under way: it may go anywhere that is not one.
<1>b. ASSUME NEW p \in Plans, NEW l, l \in Legs, SoundLeg(leg[p], p \in Offline),
             l.at \notin {"new", "asking", "told"}, l.pin = leg[p].pin, l.log = leg[p].log,
             l.used = leg[p].used, l.sent <= l.used
      PROVE  SoundLeg(l, p \in Offline)
  BY <1>b DEF SoundLeg
<1>1. ASSUME NEW p \in Plans, NEW pin \in Pins, pin # Unpinned => pin <= graph,
             Opens(p, pin), UNCHANGED <<cassette, graph, asked>>
      PROVE  Inv'
  <2> DEFINE l == [NewLeg EXCEPT !.at = "planning", !.number = leg[p].number + 1,
                                 !.pin = pin]
  <2>1. leg[p].number + 1 \in Nat
    BY <1>0, <1>1 DEF Legs
  <2>2. l \in Legs /\ l.at = "planning" /\ l.pin = pin /\ l.used = 0 /\ l.sent = 0
        /\ l.log = <<>>
    BY <1>0, <2>1, NewLegIsOne DEF Legs, Places
  <2>5. SoundLeg(l, p \in Offline)
    <3> HIDE DEF l
    <3> QED  BY <1>1, <2>2, CacheAssumption DEF SoundLeg, Paid, NoTwiceIn
  <2>6. Goes(p, l)
    BY <1>1 DEF Opens
  <2> QED  BY <1>0, <1>1, <1>a, <2>5, <2>6
<1>2. ASSUME NEW p \in Plans, Begin(p) PROVE Inv'
  <2>1. PICK pin \in (IF p \in Pinned THEN 0 .. graph ELSE {Unpinned}) : Opens(p, pin)
    BY <1>2 DEF Begin
  <2>2. pin \in Pins /\ (pin # Unpinned => pin <= graph)
    BY <1>0, CacheAssumption DEF Pins, Graphs
  <2> QED  BY <1>1, <1>2, <2>1, <2>2 DEF Begin
<1>3. ASSUME NEW p \in Plans, NEW l, l \in {Back(leg[p]), Failed(leg[p])},
             Goes(p, l), UNCHANGED <<cassette, graph, asked>>
      PROVE  Inv'
  <2>1. SoundLeg(leg[p], p \in Offline) /\ leg[p] \in Legs
    BY <1>0 DEF Inv
  <2>2. l \in Legs /\ l.at \in {"planning", "failed"} /\ l.pin = leg[p].pin
        /\ l.log = leg[p].log /\ l.used = leg[p].used /\ l.sent = leg[p].sent
    BY <1>3, <2>1 DEF Back, Failed, Legs, Places
  <2>3. SoundLeg(l, p \in Offline)
    BY <1>b, <2>1, <2>2 DEF SoundLeg
  <2> QED  BY <1>0, <1>3, <1>a, <2>3
<1>4. ASSUME NEW p \in Plans, NEW c \in Calls, Hit(p, c) PROVE Inv'
  <2> DEFINE key == Key(c, leg[p].pin)
             l == Recorded(leg[p], c, TRUE)
  <2>1. SoundLeg(leg[p], p \in Offline) /\ leg[p] \in Legs /\ Goes(p, l)
        /\ UNCHANGED <<cassette, graph, asked>>
    BY <1>0, <1>4 DEF Inv, Hit
  <2>2. key \in Keys
    BY <2>1 DEF Key, Keys, Legs
  <2>3. l.log = Append(leg[p].log, [key |-> key, cached |-> TRUE])
        /\ l = [leg[p] EXCEPT !.at = "planning", !.call = Nothing, !.told = Nothing,
                              !.log = Append(leg[p].log, [key |-> key, cached |-> TRUE])]
    BY <2>1 DEF Recorded, Back, Legs
  <2>4. leg[p].log \in Seq(Entries) /\ Paid(leg[p].log) /\ NoTwiceIn(leg[p].log)
    BY <2>1 DEF SoundLeg, Legs
  <2>5. l.log \in Seq(Entries) /\ NoTwiceIn(l.log) /\ Paid(l.log)
    <3> HIDE DEF l, key
    <3> QED  BY <2>1, <2>2, <2>3, <2>4, RecordedKeepsLog DEF Paid
  <2>6. l \in Legs /\ l.at = "planning" /\ l.pin = leg[p].pin
        /\ l.used = leg[p].used /\ l.sent = leg[p].sent
    BY <2>1, <2>3, <2>5 DEF Legs, Places
  <2>7. SoundLeg(l, p \in Offline)
    BY <2>1, <2>5, <2>6 DEF SoundLeg
  <2> QED  BY <1>0, <1>a, <2>1, <2>7
<1>5. ASSUME NEW p \in Plans, NEW c \in Calls, Charge(p, c) PROVE Inv'
  <2>1. SoundLeg(leg[p], p \in Offline) /\ leg[p] \in Legs /\ leg[p].at = "planning"
        /\ cassette[Key(c, leg[p].pin)] = Nothing /\ p \notin Offline
        /\ UNCHANGED <<cassette, graph, asked>>
    BY <1>0, <1>5 DEF Inv, Charge, Missed, MayLook
  <2>2. CASE Refused(leg[p].used) /\ Swallows(c)
    <3>1. Goes(p, leg[p])
      BY <1>5, <2>2 DEF Charge
    <3> QED  BY <1>0, <1>a, <2>1, <3>1
  <2>3. CASE Refused(leg[p].used) /\ ~Swallows(c)
    BY <1>3, <1>5, <2>1, <2>3 DEF Charge
  <2>4. CASE ~Refused(leg[p].used)
    <3> DEFINE l == [leg[p] EXCEPT !.at = "asking", !.call = c, !.used = @ + 1]
    <3>1. Goes(p, l) /\ leg[p].used + 1 <= ApiCallsMax
      BY <1>5, <2>1, <2>4, CacheAssumption DEF Charge, Refused, Legs
    <3>2. l \in Legs /\ l.at = "asking" /\ l.call = c /\ l.used = leg[p].used + 1
          /\ l.pin = leg[p].pin /\ l.log = leg[p].log /\ l.sent = leg[p].sent
      <4>1. leg[p].used + 1 \in 0 .. ApiCallsMax /\ "asking" \in Places /\ c \in Calls \cup {Nothing}
        BY <2>1, <3>1, CacheAssumption DEF Legs, Places
      <4> QED  BY <2>1, <4>1 DEF Legs
    <3>3. NotIn(l.log, Key(c, l.pin))
      BY <2>1, <3>2 DEF SoundLeg, Paid, NotIn
    <3>4. l.sent < l.used
      BY <2>1, <3>2 DEF SoundLeg, Legs
    <3>5. SoundLeg(l, p \in Offline)
      <4> HIDE DEF l
      <4>1. InFlight(l, p \in Offline)
        BY <2>1, <3>2, <3>3 DEF InFlight
      <4>2. l.used <= ApiCallsMax /\ l.sent <= l.used
        BY <2>1, <3>1, <3>2, <3>4 DEF Legs
      <4> QED  BY <2>1, <3>2, <3>4, <4>1, <4>2 DEF SoundLeg
    <3> QED  BY <1>0, <1>a, <2>1, <3>1, <3>5
  <2> QED  BY <2>2, <2>3, <2>4
<1>6. ASSUME NEW p \in Plans, Ask(p) PROVE Inv'
  <2> DEFINE sent == [leg[p] EXCEPT !.sent = @ + 1]
  <2>1. SoundLeg(leg[p], p \in Offline) /\ leg[p] \in Legs /\ leg[p].at = "asking"
        /\ UNCHANGED <<cassette, graph>> /\ asked' \in [Plans -> Nat]
    BY <1>0, <1>6 DEF Inv, Ask
  <2>2. sent \in Legs /\ sent.sent = leg[p].sent + 1 /\ sent.sent <= leg[p].used
        /\ sent.used = leg[p].used /\ sent.pin = leg[p].pin /\ sent.log = leg[p].log
        /\ sent.call = leg[p].call
    <3>1. leg[p].sent < leg[p].used /\ leg[p].sent \in Nat /\ leg[p].used \in Nat
      BY <2>1, CacheAssumption DEF SoundLeg, Legs
    <3>2. sent \in Legs /\ sent.sent = leg[p].sent + 1
      BY <2>1, <3>1 DEF Legs
    <3>3. sent.used = leg[p].used /\ sent.pin = leg[p].pin /\ sent.log = leg[p].log
          /\ sent.call = leg[p].call
      BY <2>1 DEF Legs
    <3> QED BY <3>1, <3>2, <3>3
  <2>3. PICK said \in Sayings :
          Goes(p, IF Returns(leg[p].call, said)
                  THEN [sent EXCEPT !.at = "told", !.told = [said |-> said, graph |-> graph]]
                  ELSE Raised(sent))
    BY <1>6 DEF Ask
  <2>4. CASE Returns(leg[p].call, said)
    <3> DEFINE told == [said |-> said, graph |-> graph]
               l == [sent EXCEPT !.at = "told", !.told = told]
    <3>1. told \in Answers /\ told.said = said /\ told.graph = graph
      BY <1>0 DEF Answers
    <3>2. l \in Legs /\ l.at = "told" /\ l.told = told /\ l.call = leg[p].call
          /\ l.pin = leg[p].pin /\ l.log = leg[p].log /\ l.used = leg[p].used
          /\ l.sent = sent.sent
      BY <2>2, <3>1 DEF Legs, Places
    <3>3. InFlight(l, p \in Offline) /\ MayBePut(l)
      BY <2>1, <2>4, <3>1, <3>2 DEF SoundLeg, InFlight, MayBePut
    <3>4. SoundLeg(l, p \in Offline)
      BY <2>1, <2>2, <3>2, <3>3 DEF SoundLeg
    <3> QED  BY <1>a, <2>1, <2>3, <2>4, <3>4
  <2>5. CASE ~Returns(leg[p].call, said)
    <3> DEFINE l == Raised(sent)
    <3>1. l \in Legs /\ l.at \in {"planning", "failed"} /\ l.pin = leg[p].pin
          /\ l.log = leg[p].log /\ l.used = leg[p].used /\ l.sent = sent.sent
      BY <2>2 DEF Raised, Back, Failed, Legs, Places
    <3>2. SoundLeg(l, p \in Offline)
      BY <1>b, <2>1, <2>2, <3>1
    <3> QED  BY <1>a, <2>1, <2>3, <2>5, <3>2
  <2> QED  BY <2>4, <2>5
<1>7. ASSUME NEW p \in Plans, NEW c, c = leg[p].call, NEW key, key = Key(c, leg[p].pin),
             NEW l, l = Recorded(leg[p], c, FALSE), Put(p)
      PROVE  Inv'
  <2>1. SoundLeg(leg[p], p \in Offline) /\ leg[p] \in Legs /\ leg[p].at = "told"
        /\ Goes(p, l) /\ UNCHANGED <<graph, asked>>
    BY <1>0, <1>7 DEF Inv, Put
  <2>2. c \in Calls /\ p \notin Offline /\ NotIn(leg[p].log, key)
        /\ leg[p].told \in Answers /\ Returns(c, leg[p].told.said)
        /\ (leg[p].pin # Unpinned => leg[p].told.graph >= leg[p].pin)
    BY <1>7, <2>1 DEF SoundLeg, InFlight, MayBePut
  <2>3. key \in Keys /\ key.call = c /\ key.pin = leg[p].pin
    BY <1>7, <2>1, <2>2 DEF Key, Keys, Legs
  <2>4. cassette' = [cassette EXCEPT ![key] = leg[p].told]
    BY <1>7, <2>1, <2>2 DEF Put
  <2>5. cassette' \in [Keys -> Answers \cup {Nothing}] /\ cassette'[key] = leg[p].told
        /\ \A k \in Keys : k # key => cassette'[k] = cassette[k]
    BY <1>0, <2>2, <2>3, <2>4
  <2>6. \A k \in Keys : cassette[k] # Nothing => cassette'[k] # Nothing
    BY <2>2, <2>5, CacheAssumption
  <2>7. l = [leg[p] EXCEPT !.at = "planning", !.call = Nothing, !.told = Nothing,
                           !.log = Append(leg[p].log, [key |-> key, cached |-> FALSE])]
        /\ l.log = Append(leg[p].log, [key |-> key, cached |-> FALSE])
    BY <1>7, <2>1 DEF Recorded, Back, Legs
  <2>8. leg[p].log \in Seq(Entries) /\ Paid(leg[p].log) /\ NoTwiceIn(leg[p].log)
    BY <2>1 DEF SoundLeg, Legs
  <2>9. l.log \in Seq(Entries) /\ NoTwiceIn(l.log)
        /\ \A i \in DOMAIN l.log : ~l.log[i].cached => cassette'[l.log[i].key] # Nothing
    <3>1. cassette'[key] # Nothing
      BY <2>2, <2>5, CacheAssumption
    <3> QED  BY <2>2, <2>3, <2>6, <2>7, <2>8, <3>1, RecordedKeepsLog
  <2>10. l \in Legs /\ l.at = "planning" /\ l.pin = leg[p].pin
         /\ l.used = leg[p].used /\ l.sent = leg[p].sent
    BY <2>1, <2>7, <2>9 DEF Legs, Places
  <2>11. SoundLeg(l, p \in Offline)'
    BY <2>1, <2>9, <2>10 DEF SoundLeg, Paid
  <2>12. leg' \in [Plans -> Legs] /\ \A q \in Plans : SoundLeg(leg[q], q \in Offline)'
    BY <2>1, <2>5, <2>6, <2>10, <2>11, OthersStaySound
  <2>13. TypeOK'
    BY <1>0, <2>1, <2>5, <2>12 DEF TypeOK
  <2>14. RecordedRoutesAreRoutes'
    BY <2>2, <2>3, <2>5 DEF Inv, RecordedRoutesAreRoutes, Returns
  <2>15. RecordedUnderItsPin'
    BY <2>2, <2>3, <2>5 DEF Inv, RecordedUnderItsPin
  <2> QED  BY <2>12, <2>13, <2>14, <2>15 DEF Inv
<1>8. ASSUME NEW p \in Plans, End(p) PROVE Inv'
  <2>1. SoundLeg(leg[p], p \in Offline) /\ leg[p] \in Legs
    BY <1>0 DEF Inv
  <2>2. PICK place \in {"parked", "done"} : Goes(p, [leg[p] EXCEPT !.at = place])
    BY <1>8 DEF End
  <2> DEFINE l == [leg[p] EXCEPT !.at = place]
  <2>3. l \in Legs /\ l.at = place /\ l.pin = leg[p].pin /\ l.log = leg[p].log
        /\ l.used = leg[p].used /\ l.sent = leg[p].sent
    BY <2>1 DEF Legs, Places
  <2>4. SoundLeg(l, p \in Offline)
    BY <1>b, <2>1, <2>3 DEF SoundLeg
  <2> QED  BY <1>0, <1>8, <1>a, <2>2, <2>4 DEF End
<1>9. ASSUME NEW p \in Plans, Resume(p) PROVE Inv'
  <2>1. SoundLeg(leg[p], p \in Offline) /\ leg[p].pin \in Pins
    BY <1>0 DEF Inv, Legs
  <2> QED  BY <1>1, <1>9, <2>1 DEF Resume, SoundLeg
<1>10. CASE Rebuild
  <2>1. graph' \in Graphs /\ graph' >= graph /\ UNCHANGED <<cassette, leg, asked>>
    BY <1>0, <1>10, CacheAssumption DEF Rebuild, Graphs
  <2>2. ASSUME NEW p \in Plans PROVE SoundLeg(leg[p], p \in Offline)'
    <3>1. SoundLeg(leg[p], p \in Offline) /\ leg'[p] = leg[p] /\ leg[p].pin \in Pins
      BY <1>0, <2>1 DEF Inv, Legs
    <3>2. (leg[p].pin # Unpinned => leg[p].pin <= graph)'
      BY <1>0, <2>1, <3>1, CacheAssumption DEF SoundLeg, Pins, Graphs
    <3> QED
      BY <2>1, <3>1, <3>2 DEF SoundLeg, Paid, InFlight, MayBePut
  <2> QED
    BY <1>0, <2>1, <2>2 DEF Inv, TypeOK, RecordedRoutesAreRoutes, RecordedUnderItsPin
<1>11. CASE UNCHANGED vars
  <2>1. ASSUME NEW p \in Plans PROVE SoundLeg(leg[p], p \in Offline)'
    BY <1>11 DEF vars, Inv, SoundLeg, Paid, InFlight, MayBePut
  <2> QED
    BY <1>11, <2>1 DEF vars, Inv, TypeOK, RecordedRoutesAreRoutes, RecordedUnderItsPin
<1>12. ASSUME NEW p \in Plans, NEW c \in Calls, MissOffline(p, c) PROVE Inv'
  BY <1>3, <1>12 DEF MissOffline
<1>13. ASSUME NEW p \in Plans, Die(p) PROVE Inv'
  BY <1>3, <1>13 DEF Die
<1> QED
  BY <1>2, <1>4, <1>5, <1>6, <1>7, <1>8, <1>9, <1>10, <1>11, <1>12, <1>13
     DEF Next, Lookup

THEOREM InvHolds == Spec => []Inv
  BY InvInitially, InvKept, PTL DEF Spec

-----------------------------------------------------------------------------
(***************************************************************************)
(* The cassette, the legs and their records keep their shape.              *)
(***************************************************************************)
THEOREM TypeCorrect == Spec => []TypeOK
<1>1. Inv => TypeOK
  BY DEF Inv
<1> QED  BY <1>1, InvHolds, PTL

(***************************************************************************)
(* Every request to GraphHopper was charged for, and no leg charges more   *)
(* than its cap, for any cap and any number of plans (inner_paths).        *)
(***************************************************************************)
THEOREM RequestsAreMetered == Spec => []Metered
<1>1. Inv => Metered
  BY DEF Inv, SoundLeg, Metered
<1> QED  BY <1>1, InvHolds, PTL

(***************************************************************************)
(* No leg pays twice for an answer, whatever the others record (fetch).    *)
(***************************************************************************)
THEOREM AnswersPaidOnce == Spec => []PaidOnce
<1>1. Inv => PaidOnce
  BY DEF Inv, SoundLeg, PaidOnce
<1> QED  BY <1>1, InvHolds, PTL

(***************************************************************************)
(* No failure of a route or a detour is ever recorded (_paths).            *)
(***************************************************************************)
THEOREM RouteFailuresStayOut == Spec => []RecordedRoutesAreRoutes
<1>1. Inv => RecordedRoutesAreRoutes
  BY DEF Inv
<1> QED  BY <1>1, InvHolds, PTL

(***************************************************************************)
(* No plan with a pin finds a recording of an older graph (route_args).    *)
(***************************************************************************)
THEOREM PinsHold == Spec => []PinsTellGraphsApart
<1>1. Inv => PinsTellGraphsApart
  <2> SUFFICES ASSUME Inv, NEW p \in Plans, NEW c \in Calls,
                      leg[p].pin # Unpinned, cassette[Key(c, leg[p].pin)] # Nothing
               PROVE  cassette[Key(c, leg[p].pin)].graph >= leg[p].pin
    BY DEF PinsTellGraphsApart
  <2>1. leg[p].pin \in Pins
    BY DEF Inv, TypeOK, Legs
  <2>2. Key(c, leg[p].pin) \in Keys /\ Key(c, leg[p].pin).pin = leg[p].pin
    BY <2>1 DEF Key, Keys
  <2> QED  BY <2>2 DEF Inv, RecordedUnderItsPin
<1> QED  BY <1>1, InvHolds, PTL

(***************************************************************************)
(* The two together: what a replay may find is an answer, and of its graph *)
(* (CachedRouter._paths, route_args).                                      *)
(***************************************************************************)
THEOREM ReplaysAreTrue == Spec => []RecordingsAreTrue
<1>1. RecordedRoutesAreRoutes /\ PinsTellGraphsApart => RecordingsAreTrue
  BY DEF RecordingsAreTrue
<1> QED  BY <1>1, RouteFailuresStayOut, PinsHold, PTL

(***************************************************************************)
(* An offline plan asks nobody and records nothing (get, put).             *)
(***************************************************************************)
THEOREM OfflineIsSilent == Spec => OfflineLeavesNoTrace
<1>1. Inv /\ [Next]_vars
        => [\A p \in Offline : leg'[p] # leg[p] => UNCHANGED <<cassette, asked>>]_vars
  <2> SUFFICES ASSUME Inv, Next, NEW p \in Offline, leg'[p] # leg[p]
               PROVE  UNCHANGED <<cassette, asked>>
    BY DEF vars
  <2>1. p \in Plans /\ leg \in [Plans -> Legs] /\ SoundLeg(leg[p], p \in Offline)
    BY CacheAssumption DEF Inv, TypeOK
  <2>2. leg[p].at \notin {"asking", "told"}
    BY <2>1 DEF SoundLeg, InFlight
  <2>3. ASSUME NEW q \in Plans, NEW l, Goes(q, l) PROVE q = p
    BY <2>1, <2>3 DEF Goes
  <2>4. ASSUME NEW q \in Plans, Ask(q) PROVE q = p
    BY <2>3, <2>4 DEF Ask
  <2>5. ASSUME NEW q \in Plans, Put(q) PROVE q = p
    BY <2>3, <2>5 DEF Put
  <2>6. \A q \in Plans : ~Ask(q) /\ ~Put(q)
    BY <2>2, <2>4, <2>5 DEF Ask, Put
  <2> QED
    BY <2>6 DEF Next, Lookup, Begin, Hit, MissOffline, Charge, End, Die, Resume, Rebuild
<1> QED  BY <1>1, InvHolds, PTL DEF Spec, OfflineLeavesNoTrace
=============================================================================
