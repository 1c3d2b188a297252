-------------------------------- MODULE Pacing --------------------------------
(***************************************************************************)
(* When the runner is where: the runs of a history become a curve          *)
(* (core/pacing/history.py), the curve and the terrain an arrival at every *)
(* point of the line (core/pacing/model.py, core/geo/dem.py), and the      *)
(* arrivals, begun at other hours, a table to choose a start from          *)
(* (core/scorers/start_time_optimizer.py).  A speed is in hundredths, a    *)
(* grade in percent; the drift a history shows is given.                   *)
(***************************************************************************)
EXTENDS SupplyScorers, WeatherScorers

\* ---- history.py: a run is its sport, whether it was a race, and points of a distance, a
\* time and a height.
RunningSports == {"running", "trail_running"}
Trim == 2            \* PRIVACY_TRIM_M
Stride == 2          \* STRIDE_M
MovingSpeed == 1     \* MOVING_SPEED_MS
MinSamples == 2      \* MIN_SAMPLES_PER_BIN
IsRunning(run) == run.sport = Unknown \/ run.sport \in RunningSports
Distance(run) == Last(run.points).d
Usable(runs) == SelectSeq(runs, LAMBDA r : IsRunning(r) /\ ~r.race /\ Len(r.points) > 1)

\* _kept: nothing is read of either end of a run, nor of one that is all ends.
Trimmed(run) ==
  IF Distance(run) <= 2 * Trim THEN <<>>
  ELSE SelectSeq(run.points, LAMBDA p : Trim <= p.d /\ p.d <= Distance(run) - Trim)
Grade(low, high, span) == IF low = Unknown \/ high = Unknown THEN Unknown ELSE (100 * (high - low)) \div span
\* _strides: each stretch of moving that is long enough; a halt begins a new one.
Strides(run) ==
  LET p == Trimmed(run)
      Step(done, i) ==
        LET spent == p[i].t - p[i - 1].t
            span == p[i].d - p[done.from].d
        IN  IF spent <= 0 THEN done
            ELSE IF p[i].d - p[i - 1].d < MovingSpeed * spent THEN [done EXCEPT !.from = i]
            ELSE IF span < Stride THEN done
            ELSE [from |-> i,
                  out |-> Append(done.out, [grade |-> Grade(p[done.from].ele, p[i].ele, span),
                                            speed |-> (100 * span) \div (p[i].t - p[done.from].t)])]
  IN  FoldLeft(Step, [from |-> 1, out |-> <<>>], [i \in 1 .. Len(p) - 1 |-> i + 1]).out

Median(speeds) ==
  LET sorted == SortSeq(speeds, <)
      n == Len(speeds)
  IN  IF n % 2 = 1 THEN sorted[(n + 1) \div 2] ELSE (sorted[n \div 2] + sorted[n \div 2 + 1]) \div 2
GradeBin(grade) == (grade \div 2) * 2
PopulationSpeed == 278
PopulationDrift == 4
Population == [history |-> FALSE, flat |-> PopulationSpeed, bins |-> {}, longest |-> Unknown, drift |-> PopulationDrift]
\* derive: a median of enough strides on a grade, and the population's curve where there are few.
Derive(runs, drift) ==
  LET usable == Usable(runs)
      graded == SelectSeq(FlattenSeq([i \in DOMAIN usable |-> Strides(usable[i])]), LAMBDA s : s.grade # Unknown)
      Speeds(Test(_)) == LET those == SelectSeq(graded, LAMBDA s : Test(s.grade))
                         IN  [i \in DOMAIN those |-> those[i].speed]
      level == Speeds(LAMBDA g : -1 < g /\ g < 1)
      seen == {GradeBin(graded[i].grade) : i \in DOMAIN graded}
      enough == {b \in seen : Len(Speeds(LAMBDA g : GradeBin(g) = b)) >= MinSamples}
  IN  IF usable = <<>> THEN Population
      ELSE [history |-> TRUE, drift |-> drift,
            flat |-> IF Len(level) >= MinSamples THEN Median(level) ELSE PopulationSpeed,
            bins |-> {[bin |-> b, speed |-> Median(Speeds(LAMBDA g : GradeBin(g) = b))] : b \in enough},
            longest |-> CHOOSE d \in {Distance(usable[i]) : i \in DOMAIN usable} :
                          \A i \in DOMAIN usable : Distance(usable[i]) <= d]

\* ---- dem.py: what the raster says at each point, and the climb it comes to.
PointsOf == 1 .. N + 1
Sampled(w) == [i \in PointsOf |-> IF w.dem /\ i \in w.covered THEN w.ground[i] ELSE Unknown]
Spike == 30
Threshold == 3
\* strip_spikes, from the left, each point against a neighbour already mended.
StripSpikes(ele) ==
  LET Mend(out, i) ==
        IF i \in {1, N + 1} \/ Unknown \in {out[i - 1], out[i], out[i + 1]} THEN out
        ELSE IF Apart(out[i], out[i - 1]) > Spike /\ Apart(out[i + 1], out[i]) > Spike
                  /\ Apart(out[i + 1], out[i - 1]) < Spike
        THEN [out EXCEPT ![i] = (out[i - 1] + out[i + 1]) \div 2]
        ELSE out
  IN  FoldLeft(Mend, ele, [i \in PointsOf |-> i])
\* _accumulate: a rise or a fall counts once it is out of the noise.
Accumulate(ele) ==
  LET Climb(sum, i) ==
        IF ele[i] = Unknown THEN sum
        ELSE IF sum.anchor = Unknown THEN [sum EXCEPT !.anchor = ele[i]]
        ELSE IF ele[i] - sum.anchor >= Threshold
        THEN [sum EXCEPT !.gain = @ + ele[i] - sum.anchor, !.anchor = ele[i]]
        ELSE IF sum.anchor - ele[i] >= Threshold
        THEN [sum EXCEPT !.loss = @ + sum.anchor - ele[i], !.anchor = ele[i]]
        ELSE sum
  IN  FoldLeft(Climb, [anchor |-> Unknown, gain |-> 0, loss |-> 0], [i \in PointsOf |-> i])
\* grades, over the nearest points at least half a smoothing window away.
HalfWindow == 2
At(w, i) == w.start[i]
WindowBounds(w, i) ==
  LET before == {j \in 1 .. i : At(w, i) - At(w, j) >= HalfWindow}
      after == {k \in i .. N + 1 : At(w, k) - At(w, i) >= HalfWindow}
  IN  <<IF before = {} THEN 1 ELSE CHOOSE j \in before : \A o \in before : o <= j,
        IF after = {} THEN N + 1 ELSE CHOOSE k \in after : \A o \in after : k <= o>>
Grades(w, ele) ==
  [i \in PointsOf |->
     LET b == WindowBounds(w, i) IN Grade(ele[b[1]], ele[b[2]], At(w, b[2]) - At(w, b[1]))]

\* ---- model.py
\* Minetti's cost, as a line: slower up, and down faster only so far.
GradeFactor(grade) == IF grade <= -5 THEN 125 ELSE IF grade >= 16 THEN 20 ELSE 100 - 5 * grade
GradeSpeed(curve, grade) ==
  IF \E b \in curve.bins : b.bin = GradeBin(grade)
  THEN (CHOOSE b \in curve.bins : b.bin = GradeBin(grade)).speed
  ELSE (curve.flat * GradeFactor(grade)) \div 100
Onset == 10
Fatigue(curve, d) ==
  IF d <= Onset THEN 100 ELSE IF 100 - (d - Onset) * curve.drift < 20 THEN 20 ELSE 100 - (d - Onset) * curve.drift
SpeedMs(curve, grade, d) == (GradeSpeed(curve, grade) * Fatigue(curve, d)) \div 100
\* pacing_model: flat where the grade is unknown.  No plan passes it a surface or a stop.
Arrivals(w, curve) ==
  LET grade == Grades(w, Sampled(w))
      after[i \in PointsOf] ==
        IF i = 1 THEN 0
        ELSE after[i - 1] + (10000 * (At(w, i) - At(w, i - 1)))
                              \div SpeedMs(curve, IF grade[i] = Unknown THEN 0 ELSE grade[i], At(w, i))
  IN  after
ExtrapolatesBeyondHistory(curve, length) == ~curve.history \/ 2 * curve.longest < length
\* _caveats: what the sheet must say of how the times were come by.
Caveats(w, curve) ==
  (IF curve.history THEN {} ELSE {NotAsked("history")})
  \cup (IF ExtrapolatesBeyondHistory(curve, Length(w)) THEN {NotAsked("longest_effort")} ELSE {})
  \cup (IF w.device /\ curve.bins # {} THEN {NotAsked("terrain_of_the_runs")} ELSE {})
  \cup (IF \E i \in PointsOf : Sampled(w)[i] = Unknown THEN {NotAsked("elevation")} ELSE {})
CurveOf(w) == IF w.history THEN Derive(w.runs, w.drift) ELSE Population
PacingModel(w) ==
  LET after == Arrivals(w, CurveOf(w))
      climb == Accumulate(StripSpikes(Sampled(w)))
  IN  Result({<<"at", i, after[i]>> : i \in PointsOf} \cup {<<"gain", climb.gain>>, <<"loss", climb.loss>>}, {},
             Caveats(w, CurveOf(w)))

\* ---- start_time_optimizer.py
SweepWindow == 6
SweepStep == 3
\* candidate_starts: the request's window from end to end, or a span either side on the same day.
CandidateStarts(w) ==
  IF w.window # <<>>
  THEN {t \in w.window[1] .. w.window[2] - 1 : (t - w.window[1]) % SweepStep = 0} \cup {w.window[2]}
  ELSE {t \in w.begin - SweepWindow .. w.begin + SweepWindow :
          (t - w.begin) % SweepStep = 0 /\ t \in Moments}
\* _shift, of a line on which a unit of distance takes a unit of time.
EtaAt(start, d) == start + d
NearestPoint(w, d) == CHOOSE i \in PointsOf : \A j \in PointsOf : Apart(At(w, i), d) <= Apart(At(w, j), d)
TapsOpen(w, start) ==
  {p \in w.places : /\ p.kind \in Kinds /\ p.off <= Buffer
                    /\ LET t == EtaAt(start, At(w, NearestPoint(w, p.d)))
                       IN  IsOpen(p.hours, (w.weekday + t \div DayLength) % 7, t % DayLength) # FALSE}
WbgtAt(w, t) == WbgtHard - Apart(t % DayLength, w.noon)
\* The hottest reading there is, at any hour that was fetched; a run into hours that were
\* not is judged by the rest of it.
PeakWbgt(w, start) ==
  LET read == {WbgtAt(w, EtaAt(start, At(w, i))) :
                 i \in {j \in PointsOf : Says(w, At(w, j), EtaAt(start, At(w, j)))}}
  IN  IF read = {} THEN Unknown ELSE CHOOSE h \in read : \A o \in read : o <= h
Dawn == 6
Dusk == 18
DarkPoints(w, start) ==
  Cardinality({i \in PointsOf : LET t == EtaAt(start, At(w, i)) % DayLength IN t < Dawn \/ t >= Dusk})
Row(w, start) ==
  [start |-> start, dark |-> DarkPoints(w, start), peak |-> PeakWbgt(w, start),
   open |-> IF w.amenities THEN Cardinality(TapsOpen(w, start)) ELSE Unknown,
   served |-> IF w.stopsLayer THEN \E h \in w.halts : EtaAt(start, Length(w)) \in h.departs ELSE Unknown]
\* _best: the first of the rows that have a reading and the least of it.
Coolest(rows) ==
  LET warm == {r \in rows : r.peak # Unknown}
      least == {r \in warm : \A o \in warm : r.peak <= o.peak}
  IN  {r.start : r \in {q \in least : \A o \in least : q.start <= o.start}}
StartTimes(w) ==
  LET rows == {Row(w, start) : start \in CandidateStarts(w)}
  IN  IF ~w.etas \/ ~w.surface THEN Unavailable("start_time_optimizer")
      ELSE Result({<<"row", r.start, r>> : r \in rows} \cup {<<"coolest", Coolest(rows)>>}, {},
                  {Asked("surface_model"), Asked("pvlib")}
                  \cup (IF Answered(w) = {} THEN {NotAsked("forecast")} ELSE {})
                  \cup (IF w.amenities THEN {} ELSE {NotAsked("amenities")})
                  \cup (IF w.stopsLayer THEN {} ELSE {NotAsked("transit_stops")}))
=============================================================================
