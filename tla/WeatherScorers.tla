---------------------------- MODULE WeatherScorers ----------------------------
(***************************************************************************)
(* core/data/forecast.py, core/data/air.py and core/data/alerts.py, and    *)
(* the scorers that read them: microclimate, heat_stress, sun_exposure,    *)
(* air_quality, and the warnings of hazards.  Sites along the line are     *)
(* asked one after the other, each of a provider and then of another,      *)
(* while the plan has calls to spend; a provider that is in the cache      *)
(* costs none.  A time is local, and so is every day.                      *)
(***************************************************************************)
EXTENDS Scoring

CONSTANT Sites   \* how many places along the line the weather is asked for

ASSUME WeatherAssumption == Sites \in Nat

\* What a provider says of a site, and the calls it takes: hours, none, or a failure.
\* Budget.spend_api_call: the call over the limit raises, and those before it are gone.
Spend(left, cost) == IF cost > left THEN 0 ELSE left - cost
Refused(left, cost) == cost > left

\* route_forecast: nws, unless nobody set the contact string, then open-meteo.  Once the
\* calls are gone no later site is asked, not even of the cache.
NwsCost(w, s) == IF w.contact THEN w.nws[s].cost ELSE 0
NwsAnswers(w, s) == w.contact /\ w.nws[s].reply = "hours"
AskSite(w, s, before) ==
  IF before.exhausted THEN [before EXCEPT !.provider = "none"]
  ELSE IF Refused(before.left, NwsCost(w, s))
  THEN [left |-> 0, exhausted |-> TRUE, provider |-> "none"]
  ELSE IF NwsAnswers(w, s)
  THEN [left |-> Spend(before.left, NwsCost(w, s)), exhausted |-> FALSE, provider |-> "nws"]
  ELSE LET left == Spend(before.left, NwsCost(w, s))
       IN  [left |-> Spend(left, w.meteo[s].cost),
            exhausted |-> Refused(left, w.meteo[s].cost),
            provider |-> IF w.meteo[s].reply = "hours" /\ ~Refused(left, w.meteo[s].cost)
                         THEN "open-meteo" ELSE "none"]
Asking(w) ==
  LET site[n \in 0 .. Sites] ==
        IF n = 0 THEN [left |-> w.calls, exhausted |-> FALSE, provider |-> "none"]
        ELSE AskSite(w, n, site[n - 1])
  IN  site
Provider(w, s) == Asking(w)[s].provider
Answered(w) == {s \in 1 .. Sites : Provider(w, s) # "none"}
NearestSite(w, d) ==
  CHOOSE s \in Answered(w) :
    \A r \in Answered(w) : Apart(w.at[s], d) < Apart(w.at[r], d)
                             \/ (Apart(w.at[s], d) = Apart(w.at[r], d) /\ s <= r)

\* SiteForecast.at: between the first and the last hour that were fetched, and never past them.
Within(hours, t) == hours[1] <= t /\ t <= hours[2]
HasReading(w, d, t) == Answered(w) # {} /\ Within(w.hours[NearestSite(w, d)], t)
Says(w, d, t) == HasReading(w, d, t) /\ w.says[NearestSite(w, d)]
Read(w, i) == HasReading(w, Middle(w, i), w.eta[i])
\* RouteForecast.coverage: who answered, and that some sites did not.
ForecastCoverageOfAnswers(w) == {Asked(Provider(w, s)) : s \in Answered(w)}   \* a bug
ForecastCoverage(w) ==
  {Asked(Provider(w, s)) : s \in Answered(w)}
    \cup (IF Answered(w) = 1 .. Sites THEN {} ELSE {NotAsked("forecast")})
\* window_gap_entry: hours were fetched, and none of them was an hour of this plan.
WindowGap(w) ==
  IF Answered(w) # {} /\ \A i \in Segments : ~Read(w, i) THEN {NotAsked("open_meteo")} ELSE {}

Microclimate(w) ==
  IF ~w.etas THEN Unavailable("microclimate")
  ELSE Result({i \in Segments : Read(w, i)}, {}, ForecastCoverage(w) \cup WindowGap(w))

\* ---- heat.py: WBGT needs temperature and humidity, and neither is ever assumed.
SoftHeat == 26
HardHeat == 30
Known(w, i) == Says(w, Middle(w, i), w.eta[i])
HeatFlag(w, i) ==
  IF w.wbgt[i] > HardHeat THEN {HardStrain("heat_stress", i, "wbgt_above_hard_floor")}
  ELSE IF w.wbgt[i] > SoftHeat THEN {SoftStrain("heat_stress", i, "wbgt_above_soft_threshold")}
  ELSE {}
Heat(w) ==
  IF ~w.etas \/ Answered(w) = {} THEN Unavailable("heat_stress")
  ELSE Result({i \in Segments : Known(w, i)}, UNION {HeatFlag(w, i) : i \in {j \in Segments : Known(w, j)}},
              ForecastCoverage(w) \cup WindowGap(w))
\* What heat hands to the scorers after it: the worst it knows, or nothing.
MaxWbgt(w) ==
  LET known == {w.wbgt[i] : i \in Heat(w).known}
  IN  IF known = {} THEN Unknown ELSE CHOOSE h \in known : \A g \in known : g <= h

\* ---- sun.py: shade needs a surface model; a flag needs a preference and a temperature.
Disliked(w, profile, i) ==
  \/ profile.sun = "shade" /\ w.lit[i]
  \/ profile.sun = "sun" /\ ~w.lit[i]
CloudKnown(w) == \E i \in Segments : Says(w, Begins(w, i), w.eta[i])
SunFlags(w, profile) ==
  {Soft("sun_exposure", i, "against_preference") :
     i \in {j \in Segments : Says(w, Middle(w, j), w.eta[j]) /\ Disliked(w, profile, j)}}
Sun(w, profile) ==
  IF ~w.etas \/ ~w.surface THEN Unavailable("sun_exposure")
  ELSE Result(Segments, SunFlags(w, profile),
              {Asked("surface_model"), Asked("pvlib")}
                \cup (IF CloudKnown(w) THEN {} ELSE {NotAsked("forecast")}))

\* ---- air.py: one provider, and the nearest hour it has, however far off.
AskAir(w, s, before) ==
  IF before.exhausted \/ Refused(before.left, w.air[s].cost)
  THEN [left |-> 0, exhausted |-> TRUE, provider |-> "none"]
  ELSE [left |-> Spend(before.left, w.air[s].cost), exhausted |-> FALSE,
        provider |-> IF w.air[s].reply = "hours" THEN "open-meteo" ELSE "none"]
AirAnswered(w) ==
  LET site[n \in 0 .. Sites] ==
        IF n = 0 THEN [left |-> w.calls, exhausted |-> FALSE, provider |-> "none"]
        ELSE AskAir(w, n, site[n - 1])
  IN  {s \in 1 .. Sites : site[s].provider # "none"}
AirQuality(w) ==
  IF ~w.etas THEN Unavailable("air_quality")
  ELSE Result(IF AirAnswered(w) = {} THEN {} ELSE Segments, {},
              {Entry("open_meteo", AirAnswered(w) # {})})

\* ---- alerts.py: what is in force on a day, if the day is near enough to be asked about.
\* The clock a scorer reads is frozen at the start of the run (runtime.py).
AlertHorizon == 7
ClockDay(w) == w.day
BeyondHorizon(w) == w.day - ClockDay(w) > AlertHorizon
AlertsLeft(w) ==
  LET left[n \in 0 .. Sites] ==
        IF n = 0 THEN w.calls
        ELSE IF ~w.contact \/ Refused(left[n - 1], w.nws[n].cost) THEN left[n - 1]
        ELSE left[n - 1] - w.nws[n].cost
  IN  left
SiteAlerts(w) ==
  {s \in 1 .. Sites : /\ w.contact /\ w.nws[s].reply # "fails"
                      /\ ~Refused(AlertsLeft(w)[s - 1], w.nws[s].cost)}
\* An alert is told of at the sites it lies on.
InForce(w) == {a \in w.alerts : a.at \cap SiteAlerts(w) # {} /\ a.from <= w.day /\ w.day <= a.until}
Alerts(w) ==
  IF BeyondHorizon(w) \/ SiteAlerts(w) = {} THEN Unavailable("nws_alerts")
  ELSE Result({Route}, {Soft("hazards", Route, a.code) : a \in InForce(w)}, {Asked("nws_alerts")})
=============================================================================
