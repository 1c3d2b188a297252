------------------------------- MODULE Tuning --------------------------------
(***************************************************************************)
(* From lines the router draws to a vector that may be saved: the          *)
(* questions of core/labels/seeding.py, the grid search and its held-out   *)
(* measure in core/routing/tuning.py, and the gates of core/labels/adopt.py*)
(* and core/labels/reroute.py.                                             *)
(*                                                                         *)
(* A pair is [a, b, prefer, source, by, weight]; a and b are records of a  *)
(* name, a line and its summary.  Shares are in whole percents, and ratios *)
(* in hundredths of one.                                                   *)
(***************************************************************************)
EXTENDS Costing, Sequences, SequencesExt

CONSTANTS
  Grid,            \* exponents tried for each parameter
  MinPairs,        \* MIN_PAIRS, 12 in the code
  MinDifference,   \* MIN_CLASS_DIFFERENCE_M
  PerRequest,      \* PER_REQUEST
  Nobody           \* the labeler of a pair nobody put their name to

ASSUME TuningAssumption == Grid \subseteq Least .. Most /\ 0 \in Grid /\ MinPairs \in Nat /\ PerRequest \in Nat

MaxShared == 85
Folds == 5

\* Of a sequence, the elements at some of its indices, in their order; as a concatenation,
\* which TLC computes once.
Ranked(kept, k) == CHOOSE i \in kept : Cardinality({j \in kept : j <= i}) = k
Those(s, kept) == <<>> \o [k \in 1 .. Cardinality(kept) |-> s[Ranked(kept, k)]]

-----------------------------------------------------------------------------
\* ---- seeding: the lines of a few vectors, and the questions they are worth
SeedVectors ==
  <<Neutral, AvoidHighStress, [Neutral EXCEPT !["path_bonus"] = 2], [Neutral EXCEPT !["path_bonus"] = -2],
    [Neutral EXCEPT !["unpaved"] = 2], [Neutral EXCEPT !["unpaved"] = -2]>>

\* What the router draws: one of its cheapest lines, the first of them.
Draws(network, model) ==
  LET costs == [n \in DOMAIN network |-> RouterCost(model, network[n])]
  IN  CHOOSE n \in DOMAIN network : \A o \in DOMAIN network : costs[n] <= costs[o]

\* shared_fraction: how much of a line runs along another.
SharedFraction(x, y) == (100 * Metres(x \cap y)) \div AtLeast(Metres(x), 1)
\* _distinct and distinct: lines a person could prefer on purpose.
Distinct(x, y) ==
  /\ ClassDifference(Summary(x), Summary(y)) >= MinDifference
  /\ SharedFraction(x, y) <= MaxShared \/ SharedFraction(y, x) <= MaxShared

\* The vectors' lines, in turn, that are distinct from every one kept before.
Drawn(network) == [i \in DOMAIN SeedVectors |-> Draws(network, CustomModel(SeedVectors[i], "mixed", TRUE))]
Kept(network, drawn) ==
  LET keeps[i \in DOMAIN drawn] ==
        \A j \in 1 .. i - 1 : keeps[j] => Distinct(network[drawn[i]], network[drawn[j]])
  IN  {i \in DOMAIN drawn : keeps[i]}

\* stratum: the parameter two lines differ on most.
Stratum(x, y) ==
  LET apart == [p \in ParameterNames |-> Apart(ParameterMetres(x, p) - ParameterMetres(y, p))]
  IN  CHOOSE p \in ParameterNames : \A q \in ParameterNames : apart[q] <= apart[p]

Vectors == {[p \in ParameterNames |-> IF p \in Parameters THEN g[p] ELSE 0] : g \in [Parameters -> Grid]}
SplitVectors == {v \in Vectors : \A p \in Parameters : v[p] \in {-1, 0, 1}}
\* split_fraction: how evenly the grid's vectors disagree about two lines; 100 is evenly.
Votes(x, y) ==
  SumFunction([v \in SplitVectors |-> IF Cost(v, x) < Cost(v, y) THEN 2 ELSE IF Cost(v, x) = Cost(v, y) THEN 1 ELSE 0])
Lopsided(x, y) == Apart(Votes(x, y) - Cardinality(SplitVectors))

\* A question about two kept lines, and what its turn depends on: the most evenly split
\* first; of the even, the farthest apart; of those, by the names of the vectors.
ByName == <<2, 1, 3, 5, 4, 6>>
Question(x, y) ==
  [ends |-> <<x.name, y.name>>, stratum |-> Stratum(x.summary, y.summary),
   split |-> Lopsided(x.summary, y.summary), apart |-> ClassDifference(x.summary, y.summary),
   tie |-> <<ByName[x.vector], ByName[y.vector]>>]
Precedes(q, r) ==
  \/ q.split < r.split
  \/ q.split = r.split /\ q.apart > r.apart
  \/ q.split = r.split /\ q.apart = r.apart /\ q.tie[1] < r.tie[1]
  \/ q.split = r.split /\ q.apart = r.apart /\ q.tie[1] = r.tie[1] /\ q.tie[2] < r.tie[2]
Options(lines) == {Question(o[1], o[2]) : o \in {xy \in lines \X lines : xy[1].vector < xy[2].vector}}
\* One question to a stratum, and so many to a request.
Firsts(options) == {q \in options : \A r \in options : r.stratum = q.stratum => ~Precedes(r, q)}
Asked(firsts) == {q \in firsts : Cardinality({r \in firsts : Precedes(r, q)}) < PerRequest}
\* seed_request
SeedRequest(network) ==
  LET drawn == Drawn(network)
      lines == {[vector |-> i, name |-> drawn[i], summary |-> Summary(network[drawn[i]])] : i \in Kept(network, drawn)}
  IN  {q.ends : q \in Asked(Firsts(Options(lines)))}

-----------------------------------------------------------------------------
\* ---- the fit
Chosen(pair) == IF pair.prefer = "a" THEN pair.a ELSE pair.b
Rejected(pair) == IF pair.prefer = "a" THEN pair.b ELSE pair.a
Weights(pairs) == SumFunction([i \in DOMAIN pairs |-> pairs[i].weight])
Percent(part, whole) == IF whole = 0 THEN 0 ELSE (100 * part) \div whole
PercentUp(part, whole) == IF whole = 0 THEN 0 ELSE (100 * part + whole - 1) \div whole

\* agreement_of, doubled, of one pair: a tie is half an answer.
Agrees(pair, v) ==
  LET chosen == Cost(v, Chosen(pair).summary)  rejected == Cost(v, Rejected(pair).summary)
  IN  IF chosen < rejected THEN 2 ELSE IF chosen = rejected THEN 1 ELSE 0
Agreement(pairs, v) == SumFunction([i \in DOMAIN pairs |-> pairs[i].weight * Agrees(pairs[i], v)])

\* detour_penalty: how far past the tolerance the vector's own choices go.  A started
\* percent is a whole one: what is over at all is over.
Picked(pair, v) == IF Cost(v, pair.a.summary) <= Cost(v, pair.b.summary) THEN pair.a ELSE pair.b
Shorter(pair) == AtMost(LengthOf(pair.a.summary), LengthOf(pair.b.summary))
Excess(pair, line, tolerance) == AtLeast(PercentUp(LengthOf(line.summary), Shorter(pair)) - 100 - tolerance, 0)
Detours(pairs, v, tolerance) ==
  SumFunction([i \in DOMAIN pairs |-> Excess(pairs[i], Picked(pairs[i], v), tolerance)])
Penalty(pairs, v, tolerance) == (4 * Detours(pairs, v, tolerance)) \div AtLeast(Len(pairs), 1)

Distance(v) == SumFunction([p \in ParameterNames |-> Apart(v[p])])
\* search: the best of the grid under what the router would apply, nearest to neutral.
Search(pairs, prefs) ==
  LET Score(v) == Percent(Agreement(pairs, v), 2 * Weights(pairs)) - Penalty(pairs, v, prefs.tolerance)
      tried == {[v |-> v, score |-> Score(Effective(v, prefs.surface)), far |-> Distance(v)] : v \in Vectors}
      top == Max({t.score : t \in tried})
      best == {t \in tried : t.score = top}
      near == Min({t.far : t \in best})
  IN  (CHOOSE t \in best : t.far = near).v

Real(pairs) == Those(pairs, {i \in DOMAIN pairs : pairs[i].source # "synthetic"})
\* fit: neutral, unless enough of the pairs are a person's.
Fit(pairs, prefs) == IF Len(Real(pairs)) < MinPairs THEN Neutral ELSE Search(pairs, prefs)

\* holdout_agreement: each fold judged by a fit that did not see it.
Holdout(pairs, prefs) ==
  LET n == Len(pairs)
      k == AtLeast(AtMost(Folds, n), 2)
      train(f) == Those(pairs, {i \in 1 .. n : i % k # f})
      fitted == [f \in 0 .. k - 1 |-> Effective(Search(train(f), prefs), prefs.surface)]
  IN  [pairs |-> n, whole |-> 2 * Weights(pairs),
       fitted |-> SumFunction([i \in 1 .. n |-> pairs[i].weight * Agrees(pairs[i], fitted[i % k])]),
       neutral |-> Agreement(pairs, Effective(Neutral, prefs.surface))]
\* beats_neutral: neutral's share lies below the fit's 95% Wilson interval, whose ends
\* are where (fitted - x)^2 * n = 1.96^2 * x * (1 - x).
BeatsNeutral(h) ==
  /\ h.neutral < h.fitted
  /\ 10000 * (h.fitted - h.neutral) ^ 2 * h.pairs > 38416 * h.neutral * (h.whole - h.neutral)

\* refusals: why a fit may not be saved.
RefusedForNobody(pairs, v, prefs, labeler) ==   \* a bug: everyone's answers, as one runner's
  \/ Len(Real(pairs)) < MinPairs \/ IsNeutral(v)
  \/ Detours(pairs, Effective(v, prefs.surface), prefs.tolerance) > 0
  \/ ~BeatsNeutral(Holdout(Real(pairs), prefs))
Refused(pairs, v, prefs, labeler) ==
  \/ labeler = Nobody
  \/ Len(Real(pairs)) < MinPairs
  \/ IsNeutral(v)
  \/ Detours(pairs, Effective(v, prefs.surface), prefs.tolerance) > 0
  \/ Len(Real(pairs)) < 2
  \/ ~BeatsNeutral(Holdout(Real(pairs), prefs))

-----------------------------------------------------------------------------
\* ---- reroute: each pair's ends, drawn once with the vector to be saved.  The network
\* between them may have lines that nobody was shown.
Outcome(pair, line) ==
  LET chosen == SharedFraction(line, Chosen(pair).line)  rejected == SharedFraction(line, Rejected(pair).line)
  IN  IF chosen <= MaxShared /\ rejected <= MaxShared THEN "neither"
      ELSE IF chosen >= rejected THEN "chosen" ELSE "rejected"
\* The ratio of the lengths, rounded to four digits.
Ratio(part, whole) == (20000 * part + whole) \div (2 * whole)
Redrawn(pair, network, model) ==
  LET line == network[Draws(network, model)]
  IN  [outcome |-> Outcome(pair, line), ratio |-> Ratio(Metres(line), Shorter(pair))]
Times(rows, outcome) == Cardinality({i \in DOMAIN rows : rows[i].outcome = outcome})
\* RerouteReport.problems
RerouteProblems(rows, tolerance) ==
  \/ rows = <<>>
  \/ Times(rows, "refused") > 0
  \/ Times(rows, "chosen") <= Times(rows, "rejected")
  \/ \E i \in DOMAIN rows : rows[i].outcome # "refused" /\ rows[i].ratio > 100 * (100 + tolerance)
=============================================================================
