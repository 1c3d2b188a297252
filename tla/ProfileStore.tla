---------------------------- MODULE ProfileStore -----------------------------
(***************************************************************************)
(* The one file that says what a runner likes (core/preferences/store.py), *)
(* and everyone who reads and writes it: the runner, with an editor;       *)
(* `longrun ingest-history --save`, which loads it, merges a pacing curve  *)
(* and writes all of it; `longrun tune --save`, which fits a routing       *)
(* vector to the runner's answers and writes one block; `longrun plan` and *)
(* its like, which draw with what they read.  Each is a process that may   *)
(* die anywhere.                                                           *)
(*                                                                         *)
(* save_profile empties the file before it fills it, and an empty file     *)
(* reads as the shipped defaults; save_entry stages and renames.           *)
(***************************************************************************)
EXTENDS Tuning

CONSTANTS
  Networks,        \* between a few pairs of ends, the lines there are, by name
  Runner,          \* the labeler
  Silent(_),       \* the tasks the runner may have left unanswered: sets of them
  Edits,           \* of each axis, what the runner may write, or Absent
  Processes,
  NoFile, Absent,  \* no file; an axis a file has no block for
  Alone,           \* whether the file stands still from a saver's last look to its write
  MaxEdits, MaxCrashes   \* bounds, for model checking only

VARIABLES
  said,            \* history: what the runner last wrote of each axis
  file,
  answers,         \* the pair files: what the runner answered, of the tasks that seeding drew
  process,
  cut,             \* whether a process died while the file was empty
  edits, crashes

vars == <<said, file, answers, process, cut, edits, crashes>>

-----------------------------------------------------------------------------
Axes == {"traffic", "tolerance", "surface", "pacing", "routing"}
Provenance == [default |-> 0, inferred |-> 1, stated |-> 2]
Entry(value, provenance) == [value |-> value, provenance |-> provenance]
Stated(e) == e # Absent /\ e.provenance = "stated"
Unfitted == [params |-> Neutral, labeler |-> Nobody, pairs |-> 0, under |-> Nobody]
Defaults ==
  [traffic |-> Entry(2, "default"), tolerance |-> Entry(10, "default"), surface |-> Entry("mixed", "default"),
   pacing |-> Entry("population", "default"), routing |-> Entry(Unfitted, "default")]
Empty == [a \in Axes |-> Absent]
Exists == file # NoFile

\* What may be written of an axis: store.py refuses a file that says anything else.
Multipliers == [ParameterNames -> Least .. Most]
Surfaces == DOMAIN SurfaceLean
Proper(axis, value) ==
  CASE axis = "tolerance" -> value \in Nat
    [] axis = "surface" -> value \in Surfaces
    [] axis = "routing" -> value.params \in Multipliers
    [] OTHER -> TRUE
ASSUME ProfileAssumption ==
  /\ DOMAIN Edits \subseteq Axes /\ Alone \in BOOLEAN /\ Runner # Nobody
  /\ \A axis \in DOMAIN Edits : \A value \in Edits[axis] \ {Absent} : Proper(axis, value)
\* Between two ends there are lines, and they have lengths.
ASSUME NetworkAssumption ==
  /\ IsFiniteSet(DOMAIN Networks)
  /\ \A n \in DOMAIN Networks :
       /\ DOMAIN Networks[n] # {}
       /\ \A line \in Range(Networks[n]) :
            /\ IsFiniteSet(line) /\ line # {}
            /\ \A stretch \in line : stretch.m \in Nat \ {0} /\ stretch.effort \in Nat \ {0}

\* load_profile: what the file does not say is as shipped.
Merged(text) == [a \in Axes |-> IF text[a] = Absent THEN Defaults[a] ELSE text[a]]
Loaded == IF Exists THEN Merged(file) ELSE Defaults
\* _check_floors: no profile that would take a hard flag off a line is read or written.
MaxTraffic == 3
FloorsHold(profile) == profile["traffic"].value <= MaxTraffic
Prefs(profile) == [surface |-> profile["surface"].value, tolerance |-> profile["tolerance"].value]

\* merge: an entry gives way to one that is said at least as plainly.
Supersedes(new, old) == Provenance[new.provenance] >= Provenance[old.provenance]
MergeAll(base, incoming) == incoming   \* a bug: whoever says it
Merge(base, incoming) ==
  [a \in Axes |-> IF Supersedes(incoming[a], base[a]) THEN incoming[a] ELSE base[a]]

-----------------------------------------------------------------------------
\* ---- the questions, and the pairs their answers make
Tasks == UNION {{<<n, ends[1], ends[2]>> : ends \in SeedRequest(Networks[n])} : n \in DOMAIN Networks}
Candidate(n, name) == [name |-> name, line |-> Networks[n][name], summary |-> Summary(Networks[n][name])]
CandidateOf == [n \in DOMAIN Networks |-> [name \in DOMAIN Networks[n] |-> Candidate(n, name)]]
\* pair_from: an answer that names a line is evidence.
PairFrom(task, prefer) ==
  [ends |-> task[1], a |-> CandidateOf[task[1]][task[2]], b |-> CandidateOf[task[1]][task[3]],
   prefer |-> prefer, source |-> "judged", by |-> Runner, weight |-> 2]
\* record_answer: of what was answered, the answers that name a line.
Pairs(given) ==
  LET tasks == SetToSeq(DOMAIN given)
      named == Those(tasks, {i \in DOMAIN tasks : given[tasks[i]] \in {"a", "b"}})
  IN  [i \in DOMAIN named |-> PairFrom(named[i], given[named[i]])]
\* read_pairs, of one labeler or of everyone.
PairsBy(pairs, labeler) == Those(pairs, {i \in DOMAIN pairs : labeler = Nobody \/ pairs[i].by = labeler})

Idle == [at |-> "idle", text |-> NoFile, entry |-> Absent]
Saving == {"loaded", "emptied", "staged"}

Init ==
  /\ said = Empty /\ file = NoFile
  /\ \E silent \in Silent(Tasks), f \in [Tasks -> {"a", "b"}] :
       answers = Pairs([t \in DOMAIN f |-> IF t \in silent THEN "none" ELSE f[t]])
  /\ process = [p \in Processes |-> Idle]
  /\ cut = FALSE /\ edits = 0 /\ crashes = 0

At(p, place) == process[p].at = place
Goes(p, record) == process' = [process EXCEPT ![p] = record]
Quiet(p) == Alone => \A q \in Processes \ {p} : process[q].at \notin Saving

\* The runner's editor: one block written or taken out.
Edit(axis, value) ==
  /\ edits < MaxEdits /\ (Alone => \A p \in Processes : process[p].at \notin Saving)
  /\ LET entry == IF value = Absent THEN Absent ELSE Entry(value, "stated")
         text == IF Exists THEN file ELSE Empty
     IN  /\ text[axis] # entry
         /\ file' = [text EXCEPT ![axis] = entry]
         /\ said' = [said EXCEPT ![axis] = entry]
  /\ edits' = edits + 1
  /\ UNCHANGED <<answers, process, cut, crashes>>

\* ---- ingest-history --save
IngestLoads(p) ==
  /\ At(p, "idle") /\ FloorsHold(Loaded) /\ Quiet(p)
  /\ LET incoming == [Loaded EXCEPT !["pacing"] = Entry("history", "inferred")]
     IN  Goes(p, [Idle EXCEPT !.at = "loaded", !.text = Merge(Loaded, incoming)])
  /\ UNCHANGED <<said, file, answers, cut, edits, crashes>>
SaveEmpties(p) ==
  /\ At(p, "loaded")
  /\ file' = Empty
  /\ Goes(p, [process[p] EXCEPT !.at = "emptied"])
  /\ UNCHANGED <<said, answers, cut, edits, crashes>>
SaveFills(p) ==
  /\ At(p, "emptied")
  /\ file' = process[p].text
  /\ Goes(p, Idle)
  /\ UNCHANGED <<said, answers, cut, edits, crashes>>

\* ---- tune --save: the profile and the pairs are read once, and the fit is refused, or
\* goes on to be re-drawn.
TuneFits(p, labeler) ==
  /\ At(p, "idle") /\ FloorsHold(Loaded)
  /\ LET prefs == Prefs(Loaded)
         pairs == PairsBy(answers, labeler)
         v == Fit(pairs, prefs)
     IN  /\ ~Refused(pairs, v, prefs, labeler)
         /\ Goes(p, [Idle EXCEPT !.at = "fitted",
              !.entry = Entry([params |-> v, labeler |-> labeler, pairs |-> Len(pairs), under |-> prefs],
                              "inferred")])
  /\ UNCHANGED <<said, file, answers, cut, edits, crashes>>
\* reroute: the router draws every pair's ends, or refuses one, or is not there.
Rows(fitted) ==
  LET pairs == PairsBy(answers, fitted.labeler)
  IN  [i \in DOMAIN pairs |->
         Redrawn(pairs[i], Networks[pairs[i].ends], CustomModel(fitted.params, fitted.under.surface, TRUE))]
TuneRedraws(p) ==
  /\ At(p, "fitted")
  /\ LET fitted == process[p].entry.value
         passed == ~RerouteProblems(Rows(fitted), fitted.under.tolerance)
     IN  \/ passed /\ Goes(p, [process[p] EXCEPT !.at = "passed"])
         \/ Goes(p, Idle)
  /\ UNCHANGED <<said, file, answers, cut, edits, crashes>>
\* save_entry: the text as it is now, with one block of it changed.
TuneStages(p) ==
  /\ At(p, "passed") /\ Quiet(p)
  /\ LET text == IF Exists THEN file ELSE Empty
         written == [text EXCEPT !["routing"] = process[p].entry]
     IN  Goes(p, IF FloorsHold(Merged(written)) THEN [process[p] EXCEPT !.at = "staged", !.text = written] ELSE Idle)
  /\ UNCHANGED <<said, file, answers, cut, edits, crashes>>
TuneReplaces(p) ==
  /\ At(p, "staged")
  /\ file' = process[p].text
  /\ Goes(p, Idle)
  /\ UNCHANGED <<said, answers, cut, edits, crashes>>

\* ---- plan reads, and writes nothing here: what each flag makes it send the router for a
\* profile that breaks no floor.  It says of every graph that it has levels.
Flags == {"none", "neutral", "avoid_high_stress"}
Draw(profile, flag, hasLts) ==
  LET v == DrawnWith(profile["routing"].value.params, flag)
      surface == profile["surface"].value
  IN  [hasLts |-> hasLts, applied |-> Effective(v, surface), model |-> CustomModel(v, surface, hasLts)]
Plans == {Draw(Loaded, flag, hasLts) : flag \in {f \in Flags : FloorsHold(Loaded)}, hasLts \in BOOLEAN}

Crash(p) ==
  /\ ~At(p, "idle") /\ crashes < MaxCrashes
  /\ cut' = (cut \/ At(p, "emptied"))
  /\ Goes(p, Idle) /\ crashes' = crashes + 1
  /\ UNCHANGED <<said, file, answers, edits>>

Saves(p) == IngestLoads(p) \/ SaveEmpties(p) \/ SaveFills(p) \/ TuneRedraws(p) \/ TuneStages(p) \/ TuneReplaces(p)
Next ==
  \/ \E axis \in DOMAIN Edits : \E value \in Edits[axis] : Edit(axis, value)
  \/ \E p \in Processes : Saves(p) \/ Crash(p) \/ \E who \in {Runner, Nobody} : TuneFits(p, who)

Spec == Init /\ [][Next]_vars

-----------------------------------------------------------------------------
\* What the runner wrote is in the file, whoever saves something into it, unless a saver
\* died on it; a fit, which save_entry writes over whatever is there, is the one thing
\* that takes the place of what was said (README, Disagreements).
IsFit(e) == e # Absent /\ e.provenance = "inferred"
Emptied == \E p \in Processes : At(p, "emptied")
StatedStands ==
  \A a \in Axes : said[a] # Absent /\ ~Emptied /\ ~cut =>
    Exists /\ (file[a] = said[a] \/ (a = "routing" /\ IsFit(file[a])))

\* A fit that is in the file was earned by the one it is for: from enough of their own
\* answers; it takes their side more often than no preference at all would, unless that one
\* is the one that takes lines too long for them; and where it takes a longer line it is
\* within what they tolerated as it was fitted (ADR 0021, 0051).
FitIsEarned ==
  Exists /\ IsFit(file["routing"]) =>
    LET fit == file["routing"].value
        own == Those(answers, {i \in DOMAIN answers : answers[i].by = fit.labeler})
        applied == Effective(fit.params, fit.under.surface)
        plain == Effective(Neutral, fit.under.surface)
    IN  /\ Len(own) >= MinPairs /\ fit.pairs = Len(own)
        /\ Agreement(own, applied) > Agreement(own, plain) \/ Detours(own, plain, fit.under.tolerance) > 0
        /\ \A i \in DOMAIN own :
             100 * LengthOf(Picked(own[i], applied).summary) <= (100 + fit.under.tolerance) * Shorter(own[i])

\* What the router is sent says what the fitter costed: no rule multiplies by more than one;
\* whatever the rules leave of the priority of two ways is in the ratio the fitter's cost has
\* them in (to_custom_model, effective_params, priority_of); and where a bonus had to be sent
\* as a penalty on the rest, it "errs towards the runner's preference" (_term): of two lines
\* on ways the router itself rates alike, the one that the fitter prefers, and that the
\* router would draw if it took the multipliers as they are, is drawn.  The router's order is
\* not the fitter's: distance counts as it always did (README, Disagreements).
Classes == {WayClass(way.tags) : way \in UNION UNION {Range(Networks[n]) : n \in DOMAIN Networks}}
Known(drawn) ==
  {c \in Classes : Exponent(drawn.applied, c) >= Least /\ (drawn.hasLts \/ c \cap Levels = {})}
OnKnownWays(drawn, line) == \A s \in line : WayClass(s.tags) \in Known(drawn)
RatedAlike(x, y) == \A s, t \in x \cup y : s.effort = t.effort
\* The weight under the multipliers themselves, in the units of Cost.
Wished(v, line) ==
  SumFunction([s \in line |->
    s.m * (s.effort * TwoTo(Unit - Priority(v, WayClass(s.tags))) + DistanceInfluence * TwoTo(Unit))])
DrawnAsCosted ==
  \A drawn \in Plans :
    /\ \A t \in drawn.model : t.by < 0
    /\ \A c, d \in Known(drawn) :
         RouterExponent(drawn.model, c) - RouterExponent(drawn.model, d)
           = Exponent(drawn.applied, c) - Exponent(drawn.applied, d)
    /\ \A n \in DOMAIN Networks :
         LET lines == {line \in Range(Networks[n]) : OnKnownWays(drawn, line)}
             fitter == [line \in lines |-> Cost(drawn.applied, Summary(line))]
             wished == [line \in lines |-> Wished(drawn.applied, line)]
             router == [line \in lines |-> RouterCost(drawn.model, line)]
         IN  \A x, y \in lines :
               RatedAlike(x, y) /\ fitter[x] < fitter[y] /\ wished[x] < wished[y] => router[x] < router[y]
=============================================================================
