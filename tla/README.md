# longrun: models, checks and proofs

`longrun` plans long running routes: it draws a line with GraphHopper, scores
every stretch of it, and lets a loop of rounds repair the worst stretch, asking
the runner when two routes are too close to choose between. Plans are made as
jobs, stored as files, edited by gestures on a map, scored again for another
day, and read as sheets and courses. The repository is a monorepo; the Python
package is `src/src/longrun`, and the web page is `src/ui`.

The modules model where several actors or several steps have to agree (the loop
and its scratchpad, the job runner, the edits of a stored plan, the router's cache,
the region build, the adapters, the ledger of labels, the profile file, the passes
over a plan), and, as operators, what the scorers, the router's answers, the
fitter and the sheets make of their inputs. Geometry is reduced to points on a
small grid, and comfort, sun and gradients to levels.

## 1. The system

`core/` is `src/src/longrun/core/`.

| component | code | state it keeps | operations |
|---|---|---|---|
| Arbitration | `core/plan/arbitrate.py` | none | key of a candidate, order, runner-up, margin, what the loop adopts |
| Planning loop | `agent/loop.py`, `core/plan/scratchpad.py`, `core/preferences/elicitation.py` | the scratchpad: line, locks, question, answer, rounds spent, questions asked, status | a round (detour, question, or nothing), taking an answer, resuming, saving |
| Job runner | `jobs/runner.py`, handlers of `api/app.py` | futures and event logs in memory; a scratchpad and a `plan.json` for each job on disk | submit, poll, resume, the worker's start, end and failure |
| Edits | `core/plan/edits.py`, gesture handlers of `api/app.py`, `cli/edit.py`, `core/plan/refresh.py`, `core/geo/segments.py` | the stored plan | lock, unlock, avoid, via, choose, draw again; rescoring after a splice |
| Pipeline | `core/plan/pipeline.py`, `core/scorers/registry.py`, `core/plan/refresh.py`, `core/plan/diff.py` | the plan's results and coverage | match to ways, cut, run or carry each scorer, assemble, tell the difference |
| Verification, metrics, export | `core/verify`, `core/plan/metrics.py`, `core/export` | none, but the length of the shortest route | twelve checks, sheets, courses |
| Scorers | `core/scorers` and the sources in `core/data`, `core/pacing` | none | from a line and what sources say to flags, measurements and coverage |
| Routing requests | `core/routing` | none | costing model, paths into lines, cues, way ids |
| Router cache | `core/routing/cached.py`, `core/data/cache.py`, `core/models/context.py`, `core/routing/graphhopper.py` | a SQLite file of recorded answers; the budget of a leg; its record of calls | get, charge, ask, put; offline replay |
| Adapters | `adapters/` | a plan's registry: memos and the count of asks | a ladder of sources for each jurisdiction, an extraction at the end |
| Labels | `core/labels`, `cli/label.py` | ledger files: tasks, answers, pairs, verdicts; published pairs and cases | seed, answer, import, pair, judge, publish |
| Tuning | `core/routing/tuning.py`, `core/labels/adopt.py`, `reroute.py`, `cli/tune.py` | none | seed questions, fit, hold out, refuse or adopt |
| Preferences | `core/preferences`, `agent/profile_updates.py` | the profile file | load, merge, save, floors |
| Region build | `regions/build.py`, `lts.py`, `speed_surveys.py`, `core/data/osm.py` | a manifest file for each region; the tables of ways, surveys, levels and vintages that all regions share | build, skip, resume, force, run some steps; load, merge surveys, score |
| Model call sites | `agent/` (intent, prompts, questions, trade-offs) | none | wording, with a fixed fallback |

How they interact. An HTTP handler (or the command line) makes a pad and submits it to the
runner; a worker thread runs `plan_route` on it, which asks the router through the
cache, scores lines through the pipeline, arbitrates, and returns the pad complete,
failed or waiting. The worker writes `plan.json` and then the pad. A client polls the
runner's memory, or the store when another process ran the job. An answer is written
to the stored pad and a new job is submitted that resumes from it. A gesture is a
job of the same pool that reads, changes and overwrites `plan.json`. A refresh runs
some scorers and carries the results of the others. The scorers ask layers and sites, and
through the registry the adapters of a plan. All plans share one cache file when
`LONGRUN_CACHE_DIR` is set, and the graph behind GraphHopper is rebuilt under them. Pairs
of lines are seeded, answered through three doors, fitted by `tune`, and the fit is
written to the profile that plans are drawn with.

What is hard, and what makes each part correct:

- *Loop.* Locks are metres of a line that changes; a question outlives its process;
  caps are per plan and legs are many. Correct: no answered segment is asked again,
  every round is paid with one lock, the line never gets worse, a parked plan can
  say what it waits for.
- *Runner.* Two files, an event log and a future tell a client the same thing in four
  steps; a process may die between any two. Correct: who is told "complete" can open
  the plan, who is told "waiting" can answer, and both survive a restart.
- *Edits.* A read, a change and a write of one file by two threads and a shell without a
  lock. Correct: whatever survives is one sound plan, with measurements of its own line.
- *Pipeline.* Results are carried over days and over edits that rename the segments.
  Correct: a result is of the day, the line and the ground it tells, and what a plan says
  was asked is what its own results asked.
- *Sheets and courses.* Correct: what is read of a plan is of that plan, no hazard gives way to a tap.
- *Scorers.* Any source may be missing, silent, partial or over budget. Correct: what is
  unknown is told of, and no preference moves a hard flag.
- *Cache.* What must not be recorded, what must not be paid twice, what must not be
  replayed on another graph, and what must not be asked offline.
- *Adapters.* A ceiling in the middle of a ladder; two candidate lines over one ground.
- *Labels.* An answer and its pair are two files, and three doors lead to them. Correct: a
  first answer stands, and what is fitted and published is what was said.
- *Profile.* Four writers of one file. Correct: what the runner wrote stands, and a fit in
  the file was earned.
- *Region build.* Each step commits tables that other regions use too, and a file says
  afterwards that it did. Correct: what the file says is committed, a region that is
  said to be scored has no gap, and levels follow the speeds they were computed from.

The hazards, each at its line, are in `PROJECT.json`.

## 2. Modules

| module | models | notes |
|---|---|---|
| `Arbitration` | keys, order, margin, adoption | operators only |
| `ArbitrationField` | candidates proposed one at a time, and two of them swapped | state for checking `Arbitration` |
| `PlanningLoop` | the loop, legs and scratchpad | extends `Arbitration` |
| `JobLifecycle` | what polls of a job may report | abstract |
| `JobRunner` | pool, store, handlers, two-step writes | implements `JobLifecycle` |
| `RangeLocks` | a list of locked ranges | operators only |
| `PlanGestures` | gestures applied whole, one after another | abstract |
| `PlanEdits` | handlers, jobs, shells and the stored plan | extends `RangeLocks`, implements `PlanGestures` when gestures are made one at a time |
| `Segments` | a line cut into segments, and what two cuts share | operators only |
| `RouterPaths` | the router's answers: lines, way ids, cues; matching to layers | extends `Segments` |
| `PlanPipeline` | passes over a plan: draw, propose, repair, refresh, edit | extends `RouterPaths` |
| `Sheets` | checks, metrics, sheets, courses, read off a plan | extends `PlanPipeline`, adds the one write-back |
| `Scoring` | what scorers are given and return | operators only |
| `WayScorers`, `OpeningHours`, `SupplyScorers`, `WeatherScorers`, `AuthorityScorers`, `Pacing` | the scorers, by the sources they read | operators only |
| `Scorers` | one scorer judged in one world, which then can be compared with others | state for checking the scorers |
| `AdapterLadder` | a plan's registry over the lines it asks about | |
| `LabelLedger` | the ledger's files and its doors | |
| `Verdicts` | verdicts on goldens and their cases | extends `LabelLedger`: one run is about one of the two |
| `Costing` | what a way costs, for the fitter and for the router | operators only |
| `Tuning` | seeded questions, the fit and its gates | extends `Costing` |
| `ProfileStore` | the profile file, its writers and who draws with it | extends `Tuning` |
| `RouterCache` | cache file, budgets, graph, legs | |
| `RegionBuild` | builds, manifests and tables | |
| `*MC` | small instances | `JobRunner` has its constants in the cfg |
| `*Proofs` | theorems of the component they are named after | `PlanningLoopProofs` holds those of arbitration and of the scorers too, `PlanEditsProofs` those of range locks, `PlanPipelineProofs` those of the cache and the sheets, `VerdictsProofs` those of the ledger |

Operators next to a comment "a bug:" (for example `KeyUnpinned`) are faulty versions of the
definition that follows them. No action uses them; each shows that a property can tell the
fault from the code (`mutants` in `PROJECT.json`).

### Correspondence

`PlanningLoop`. `pad` is the `Scratchpad` of the running leg and `store` the one on disk.
A line is a sequence of one-metre segments with the street under it (`ground`) and its
worst flag (`flags`), so `Routes` is at once the router's repertoire and the result of
scoring. `Begin` is `plan_route` on a request, `BeginUnrouted` its early return when no
route is found; `Improve` and `Park` are the two outcomes of a round (propose, score,
`_arbitrate`, then lock and count, or `_ask`), `Complete` the loop's exits, `Save` the
caller's save, `Answer` the runner's answer written to the stored pad, `Resume`
`_apply_answer` and the next leg, `Lose` a leg whose process died or raised. Which
proposals the router makes for a segment is left open: any sequence of at most
`Candidates` lines. `settled` and `request` are history.

`JobRunner`. A slot is a submission: the pool takes them in order. `disk` and `plan` are the
two files of a job, `Torn` between `write_text`'s truncation and its write. `SubmitPlan`,
`ResumeChecks`, `ResumeAnswers`, `ResumeTruncates`, `ResumeSaves`, `ResumeSubmits` are the
handlers up to each file access (handlers do not await, so one is in progress at a time);
`Start` to `End` are the worker: `Load`, the outcome of `plan_route` (`Parks`, `Finishes`,
`Raises`), `_finish`'s write of the plan, the store's save, the event and the future.
`SaveRaises` is a save that raises after the `except`, `Crash` the death of the process.
A pad is reduced to its status, its question and the answers taken: the two models meet
at `Save`/`Answer`/`Resume` of `PlanningLoop`, which are steps there and several steps here.

`PlanEdits`. `file` is `plan.json`, `job[e]` the place of gesture `e` and the plan it holds.
`Submit` is the handler, `Start` the pool or a shell's command, `Read` the load and the change of a
request-level gesture (`Requested`) or the start of a choice, `Rescore` the splice, the
carry of measurements (`Carried`) and the scorers run again, or their failure, `Truncate` and
`Write` the save; a shell may be killed at any of them. A line is a sequence of streets of one
length, each between two corners (`Ends`, and two streets may share both); a result is the set of (place, street)
pairs a scorer measured, so a measurement that was carried to another street can be seen. `Carried` compares what
`map_segments` compares, the distance and the two ends of the old line's piece and the new line's.

`Segments`, `RouterPaths`. A point is a pair of integers and distance is the larger difference.
`Boundaries` is `_boundary_indices` (a cut where the way changes, or where a segment would be longer
than `MaxLen`), `Counterparts` and `Landed` are `map_segments`. A path is what GraphHopper sends:
coordinates, ways in ranges of indices and turns at indices; `PathToRoute` is `path_to_route`
(`Normalize` drops what is within `Dedupe`, `Densify` fills what is beyond `MaxSpacing`), `MapMatch`,
`Replayed` and `MatchedWays` what the router, the cache and the pipeline make of the ranges, `AssignWayIds`
the layers' matching, `PathToCues` and `CueSheet` the turns.

`PlanPipeline`. `pass` is one run of `_score_pass` on the context that all passes of a plan
share: `Draw` and `Propose` are the loop's, the second for a candidate that may be dropped,
`Repair` is `score_route` of a line handed in, `Refresh` and `Edit` are `rescore_plan` over the
old line and over another. `CarryOne`, `Skip` and `ScoreOne` are one turn of `run_scorers` each;
a scorer may fail, a source answer in part, the deadline pass (`Late`), or the pass raise (`Raise`). `Drain`
moves what was recorded into the plan's coverage, `Keep` is `build_plan` and the delta. A result keeps,
besides its flags and measurements, the day and the ground of each, which is what the
properties compare with what it tells.

`Sheets`. `Verified` is `gpx_verify`'s twelve checks, each passed, failed or skipped; `Metrics` the
acceptance metrics, `MeasureDetour` the write of `longrun metrics`; `Markdown` and `Html` are the two
sheets as the facts they print, `Course` is `select_for_device` and `CoursePoints` what is put on the track: the
greedy choice is a recursive function over the waypoints in the order they are offered. What is said of all that is two
properties: `WhatIsReadIsOfThePlan` (report, sheets, course, delta and coverage against the plan and the results in it)
and `WhatIsReadIsOfTheGround` (waypoints, map and turns against the places of the line).

`Scorers` and the modules it extends. A world is a record of what one scorer reads: its line cut in four,
what each source would say and whether it is there. A result is the segments measured, the flags, and
one coverage entry for each source. A distance unit stands for 100 m or more, thresholds are scaled to it, and `Unknown`
is a value of its own wherever the code has `None`. Time goes with distance, one unit each.

`AdapterLadder`. One `AdapterRegistry` for a plan. `Begin` is `fetch`; `Ask` is one `_ask`, from the memo
(`AskAgain`), from a recording or in vain without its credential, over the ceiling, or for real; `NextTier` the step of `_climb`;
`GiveAnswer` is `_answer` and `_extracted`; `Deadline` may pass at any time. `history` is history.

`LabelLedger`, `Verdicts`. Files by task: `queue`, `answers`, `pairs`, and `published`; `process[p]` is a
command or a thread of the server at one of `record_answer`'s steps (`Check`, `Truncate`, `Write`,
`TruncatePair`, `WritePair`), with the rest of its import to do. `page` is the hosted page's file, in
the order it was saved. A verdict's submission is checked on the numbers the process measured (`Judge`),
written in two steps, and published if it still fits the golden.

`Costing`, `Tuning`, `ProfileStore`. A multiplier is a power of two, so products are sums; `Proper` is what
`store.py` lets into the file, `Multipliers` its range of each parameter. `Fit` is the grid
search, `Holdout` its folds, `Refused` the gates of `adopt.py`, `RerouteProblems` those of `reroute.py`. What a line is over the
tolerance counts in started percents, so that any excess is one. `CustomModel` is asked for with and without levels; no command says a graph has
none. `RouterCost` is the custom weighting of the server's profile: metre by metre, the router's own effort (`foot_average_speed`,
`foot_priority`: a number of each stretch) over what the rules leave of the priority, and the distance. The profile's hard
excludes, which a request cannot touch, and the four digits a multiplier is sent with are left out. `TuneFits`,
`TuneRedraws`, `TuneStages`, `TuneReplaces` are `tune --save` at each read and write of the file,
`IngestLoads`, `SaveEmpties`, `SaveFills` `ingest-history --save`, `Edit` the runner's editor. `said` is history.

`RouterCache`. `cassette` is the cache file, keyed by `route_args`: the call and the graph's
pin. `Hit`, `MissOffline`, `Charge`, `Ask`, `Put` are `fetch` and its producer, one action for
each point where another plan's thread can come in between. A plan is abstracted to any
sequence of lookups.

`RegionBuild`. `Invoke` is `build_region` up to its loop; a build then stands at the next step
it will call (`Onward`: the loop's two `continue`s), past it with the record in memory
(`"ran"`), or in the save. `Layers`, `SpeedSurveys` and `WayLts` are the steps that write, each
one commit; `Report` stands for the four that do not, `Fails` for what any raises before it
commits, `Crash` for the death of the process. An extract is its date, and `Extent` the ways it has then: a newer one
may bring ways (`NewExtract`). A level is what it was computed from, the date of the way's tags and its speed, so that a level that is out of date
can be seen; `Upserted`, `Merged` and `Due` are the three SQL statements. What
adapters answer is left open. A second pass over the extract that raises leaves the first one
committed: psycopg commits when `with _connect(dsn)` (`cli/region.py:232`) is left, and
`build_region` has caught the exception.


## 3. Runs

Every passing run is exhaustive within its bounds. Sizes are distinct states where they are large.

| run | question | bounds, and why they are enough |
|---|---|---|
| `arbitration` | is the winner unique and unbeaten, is hard safety never traded, and does the order of the alternatives not matter | up to 4 candidates of 10 keys: every kind of first difference (count or sum, each tier, in and out of the margin), and a field where best, runner-up, a third and the original all differ |
| `planning_loop` | what a parked plan, a lock, a question and an answer may and may not do; does a parked plan end | 6 lines chosen to give a detour that improves, one that ties within the margin, one with a hard flag, and two flags on one line; 2 rounds, 2 candidates, 1 question, 1 lost leg, with and without a lock of the runner's and under `--rounds` 1 and 3 |
| `job_runner` | do the file, the poll, the plan and the log agree, also after a crash; is what polls report the abstract life cycle; does every running job settle | 2 jobs, 3 submissions, 2 threads, 2 questions a job, 1 save that raises, 1 crash anywhere: two jobs finish in either order, or one is answered twice in turn (114,000) |
| `plan_edits` | is whatever survives of concurrent gestures a sound plan; are gestures made one at a time atomic; does each end | a lock, an unlock of the runner's own, an avoid and a choice from the page on 2 threads, and a redraw in a shell that may be killed, over overlapping and nested ranges; a choice that replaces a street by another of the same length. `together` remembers that two gestures overlapped, and atomicity is asked of the behaviors in which none did |
| `router_cache` | what is charged, paid twice, recorded and replayed; does an offline plan ask nobody and write nothing | 2 pinned plans and an offline one with 3 legs among them, a rebuild, a cap of 2 calls, 2 lookups a leg of 2 calls (a detour, which a failure leaves out, and a match, which does not fail): two plans can miss the same key, either can record before or after the rebuild, and a live plan or a replay can be resumed (2.1 million) |
| `region_build` | what may a manifest that says done be taken for | 2 regions that share a way, one without a file at first; 3 builds, whole, forced, or of the layers or the surveys alone; 2 dates, of which the second brings a way, 1 death: a region is built, its neighbour takes a way over, and one of them is built again (4.2 million) |
| `labels` | does a first answer stand, and is what `tune` and the evaluation read what was said | a question and a probe of it, 2 processes, a hosted page saved by its reader, 1 death anywhere; or a golden judged twice with 2 changes of the code, the bound or the plan between (960,000) |
| `scorers` | is nothing that a missing source would have changed left out without a word; do floors ignore the profile; are dry gaps, sustained stretches and shut gates exactly what they are on the ground | all 23 scorers, one at a time, on a line of 4 segments with 2 weather sites: each source there or missing, each value it can say or unknown (341,000) |
| `ladder` | is nothing paid for twice, no better rung passed over, and is a line answered the same again | 6 adapters on 4 rungs, 3 jurisdictions under a ceiling of 2, 6 fetches, and 3 questions of a plan about 2 lines that cross the jurisdictions in another order: the first line is asked about again after the other (199,000) |
| `pipeline` | is no result of another day, ground or pass than it tells, and does what is read off a plan say what is in it | 3 paths (a straight one with no point between, one whose points are close, one nobody can match), 2 days, 6 scorers with a chain of two reads among them, 3 passes, 1 mishap: a plan is drawn, refreshed in part, and edited (877,000) |
| `way_ids` | *violation*: is a segment scored as the way its ground is on | the same instance |
| `profile` | does what was said stand, was a fit in the file earned, and do the rules the router is sent hold the ratios the fitter costed with | 2 processes, 3 requests to ask about with two or three lines each, one of them on ways of unknown stress; 2 edits, 1 crash; a metre costs the router an effort of 9 or 10 beside a distance of 1, as 720 seconds a kilometre are beside 70, and one loop is preferred by the fitter only (11,900 up to swapping the processes; a fit runs its whole grid search and its gates) |

These bounds exist for model checking only: `MaxLost`, `MaxSubmissions`, `MaxCrashes`, `MaxSaveFailures`,
`MaxGraph`, `MaxLookups`, `MaxLegs`, `MaxDate`, `MaxBuilds`, `MaxLines`, `MaxPasses`, `MaxMishaps`, `MaxEdits`,
`MaxChanges` and `MaxVerdicts` (the theorems hold for every value of those they meet). The others are the code's own caps.
Deadlock is not checked: a plan that is complete, a server nobody asks, and a model at its bound all stop.

Three constants say what the program relies on and does not enforce.

- `Eager = FALSE` (`JobRunner`): a job is not answered while a worker has it. The page's disabled button
  guarantees it and no handler does; with `Eager = TRUE` every property of `job_runner` is lost, for a
  second tab or a script can have two threads on one pad.
- `OneDoor = TRUE` (`LabelLedger`): two processes do not record an answer of the same task at the same
  time. `ledger.py:43` looks first and writes afterwards; with `FALSE` a first answer is replaced (`FirstAnswerStands`).
- `Alone = TRUE` (`ProfileStore`): one writer of the profile at a time. With `FALSE` the runner's edit is lost
  between `ingest-history`'s load and its save (`StatedStands`).

### Fairness

- `PlanningLoop`: weak fairness of the loop's own steps, of the save and of the resume
  (a thread runs them to the end), and of the runner's answer. The last is an
  assumption about a person, and `Settles` reads "if the runner answers". Losing a leg is
  never forced, and is bounded.
- `JobRunner`: weak fairness of the handler and of each worker's steps (the event loop and the
  pool's threads run). Nobody has to submit or to answer.
- `PlanEdits`: weak fairness of each job's steps, not of `Submit`.

The other modules promise nothing that must happen: what they model is called, and returns.

### Disagreements between the documents and the code

`way_ids` is a run, and `PROJECT.json` quotes its lines. The others were met while modelling
and have no run of their own; where one of them bears on a property, the property is stated so as
to exclude it and says so. Paths are under `src/src/longrun`.

*The loop.*

- `core/plan/arbitrate.py:216` compares the best two only. Two alternatives that tie hide
  that the original is within the margin, against "same-tier conflicts are not
  resolved silently" (`arbitrate.py:8`).
- `agent/loop.py:615`: the leg that takes an answer goes on from the line it had, whichever
  option was chosen ("the chosen alternative auto-locks", `docs/long-run-planner-scope.md:264`).
- `agent/loop.py:519`, `loop.py:230`, `loop.py:618`: a lock is metres of the old line, so a detour need not keep a street the
  runner locked, and after one of another length an answered street can be asked about again ("must
  not be silently reopened", `loop.py:593`).
- `agent/loop.py:550`: a preference question is about the original and the first
  alternative, also when the trade-off is between two others.

*Jobs and edits.*

- `api/app.py:506`, `jobs/runner.py:9`: two answers before the first leg is saved start two legs on one pad.
- `api/app.py:843`, `cli/jobs.py:107`: a resumed leg runs under `MAX_ROUNDS`, not under `--rounds`; `api/app.py:823`: it
  has a budget of its own ("Hard caps per plan", `core/models/context.py:67`).
- `core/plan/scratchpad.py:147`: a process that dies in a save leaves a file no process can
  read ("makes the pause survive the process", `api/app.py:480`); `api/app.py:1069` does not catch it.
- `jobs/runner.py:136`: a save that raises fails the job without an event that says why.
- `cli/jobs.py`: `longrun resume` finishes a job of the shared store and writes its plan to `--out` only, so the server
  says "complete" of a job without a `plan.json`; nothing keeps a shell and a server off one pad.
- `api/app.py:913`: a lock that read the plan before a choice was stored puts the old line back
  ("The line is not touched", `app.py:898`).
- `api/app.py:963`, `app.py:962`: a chosen stretch longer than the one it replaces is locked in part, and locks further
  along cover other ground ("A distance names the same ground on both sides of a renumbering", `app.py:103`).
- `cli/edit.py:90` says of a lock "Exclude a range from rerouting"; `edit reroute` does not look at locks.

*Routing and its cache.*

- `core/routing/graphhopper.py:416`: the run `way_ids`. `CachedRouter.map_match` shifts the same ways again.
- `core/plan/pipeline.py`, `_score_pass`: when the router matched, `way_matching` is recorded as checked however
  few points have a way, against `matching_coverage`'s docstring.
- No plan has a cue sheet: `build_plan`'s `cues` is only passed by a repair, and "re-run with --cue-sheet" names an
  option that no command has. A refresh of a repaired plan turns `NO_ROUTER` into `NOT_REQUESTED`.
- `core/routing/cached.py:31`, `core/data/cache.py:150`: an outage that a handler below the cache swallows is recorded as the answer.
- `core/routing/cached.py:112`: a plan without a snapshot keys every graph as "unpinned", and the
  API gives none.
- `core/routing/cached.py:207`: a detour asked for when the calls are spent ends a plan that was
  already scored ("It must never take a plan down", `core/routing/graphhopper.py:366`).

*Passes over a plan.*

- `core/verify/runner.py`, `_offenders_from`: a refresh of a drawn line cuts it by the layer's ways, drops the
  legality flags that were carried, and check 5 passes ("A check that cannot run reports `skipped`, never
  `passed`", `core/verify/checks.py:8`). Ground that an edit with `--only` brings in and nobody measures passes too, and so does
  check 6 on closures of another day. Check 10 compares the original's points with the candidate's, so a spur inside
  a lock passes.
- `core/plan/refresh.py`, `RefreshDelta.new_hard_flags`: a hard flag that moves, that replaces another, or that a soft
  one of its code becomes, is not told of, and `--fail-on-new-hard` (`cli/refresh.py:54`) ends with 0.
- `core/plan/refresh.py`, `rescore_plan`: a result that is unavailable replaces the stored one. `drawn_with` and the measured
  detour are lost by every refresh, and `regrounded` stays on a result, so a later refresh tells of the loss again.
- `refresh` and `edit` without `--out` leave the old plan's `sheet.md` and `course.gpx` beside the new `plan.json`.
- `core/export`: a sheet says "Every segment has an exit within reach." and "No road-accessible parking was found" of a
  scorer that failed; `select_for_device`'s "At most `limit`" keeps every hazard and gate; one sheet credits the sources
  that were consulted, the other all.
- `core/geo/segments.py`, `_boundary_indices`: "max_len_m is an upper bound", but a change of way on the point that goes
  over it cuts there.
- `core/geo/segments.py`, `map_segments`: "a segment whose span is right but whose ground is not counts as lost", and a plan with
  "measurements of the old" line is "the state M11 exists to prevent" (`_choose_alternative`). Only the two ends are compared: a street
  of the same length between the same corners, chosen in place of another, keeps what the scorers that are not run again
  had measured of the other. `NoStaleMeasurement` promises the corners and no more; run `plan_edits` does such a choice.
- `core/scorers/registry.py`: a cassette's miss in a replay becomes "scorer failed".

*Scorers.* The first four are `KnownSilence`, the exceptions of `AbsenceIsReported`.

- `closures` says nothing of a missing parks layer when it has boundaries.
- `warnings` is said to be consulted when any site answered.
- `sun_exposure` names the forecast only when no segment has a cloud cover.
- `start_time_optimizer` says nothing of the sites that did not answer when one did.
- `core/scorers/closures.py`, `trail_status.py`, `access_hours.py`: a count of 0 with confidence 1.0 on each segment where nobody answered.
- `core/data/alerts.py:219`: the horizon is counted from the frozen start (`runtime.py:95`), so a start in two weeks is never
  beyond it ("unknown", `alerts.py:17`).
- `core/scorers/crew_points.py:242`: no ways layer and no drivable way are the same answer. `core/scorers/transit.py`: a finish with no
  stop has no flag. `core/scorers/bailouts.py` flags a segment without an exit when calendars cannot be read.
  `core/scorers/resupply.py`: the hard gap is looked for under the soft threshold, and put on the first segment.
- `core/scorers/_hours.py`, `next_open`: misses an opening at the end of an "off" period; `_stretch_conflict` tests both ends of a
  stretch and no time between. A tide window at the start of the day misses a high water just before midnight.
- `core/data/forecast.py`: one charged call can be two requests, and after the last one sites that are cached are refused too.
- `core/pacing`: no plan hands `unpaved` to the model, grades use raw elevations while the profile strips spikes, and
  "coolest start" compares peaks over the hours that were fetched.
- `core/preferences/floors.py`: `SafetyFloors`, `DEFAULT_FLOORS` and `tighten` are not used outside their module.

*Adapters.* `adapters/registry.py`: the memo of an extraction lacks the corridor, and what is extracted is not clipped, so a
second line gets the first one's; a failure is kept for the whole plan.

*Labels, tuning, profile.*

- `core/labels/ledger.py:163`: a death in a write leaves an answer, a pair or a verdict that raises or reads as none; an import does not
  expect an answer that arrives between its look and its write.
- The panel of verdicts records what `plan.json` measures when it is clicked, not what it showed; verdicts of one second are ordered by
  hash; a difference within the tolerance of 1e-3 can publish a case whose golden breaks the bound.
- `cli/tune.py`: `save_entry` does not go through `merge`, so a fit replaces a vector the runner stated; pairs of `tune --edit` name no labeler.
- `core/preferences/store.py:83`: a profile is emptied, then filled, and an empty file reads as the defaults.
- The router does not order lines as the fitter does ("the ordering this produces is the ordering the router would produce",
  `src/docs/decisions/0020-tuning-costs-recorded-routes.md:31`). Its cost adds a distance term that a priority does not scale, and rates
  ways by `foot_priority` and speed, as the code says itself ("What is not identical is the ratio to `distance_influence`",
  `core/routing/custom_model.py:203`; "the line a vector draws is not certain to be the one its costing prefers",
  `core/labels/reroute.py:11`). The `loop` of `ProfileStoreMC` is such a line: with paths worth twice the rest, the
  fitter prefers it to the side streets (a cost of 21.5 to 22), and the router the side streets (462 to 471). `DrawnAsCosted` claims
  no more than the ratios of the ways and the "direction it errs in" (`custom_model.py:206`); it is `reroute.py` that asks the router.
- `core/routing/tuning.py:140`: a product of multipliers below `MIN_MULTIPLIER` costs the fitter the floor
  (`max(priority, MIN_MULTIPLIER)`), and the router multiplies on, so that "every ratio between two ways is the same"
  (`core/routing/custom_model.py:201`) is not so where a way carries several penalties. `DrawnAsCosted` is stated of the other ways.
- `core/labels/reroute.py` rounds a re-drawn line's ratio to four digits before it compares: a line up to 0.005 % over the tolerance passes
  there, and not in `tuning.py`.
- `core/routing/tuning.py`: a fit is the best of the grid that takes no line too long for the runner. Where no preference at all
  takes one, the fit may agree with fewer answers than it; `FitIsEarned` says so.
- `surface` of one run reaches the scorers and not the router's model.

*Region build.*

- `regions/lts.py:455`: the vintage is written whenever there is a file. When the layers were
  recorded as done without one, or the levels are computed by `--only way_lts` first, it is
  written for a region without ways, and ways loaded later have no level ("a row saying a
  region's LTS is computed is only there when it is", `lts.py:341`). `LevelsCoverTheRegion`
  is stated of the other regions.
- `regions/build.py`, `step_layers`: no record is cleared when layers are loaded again, as `step_speed_surveys` clears that of
  `way_lts`. A way that a newer extract brings, loaded by `--only layers --force` or by a forced build that fails in
  `speed_surveys`, has no level while `way_lts` is recorded as done, and a plain build skips it: the "coverage gap" of `lts.compute`.
  `LevelsCoverTheRegion` is stated of the ways that were in every extract up to the one that was loaded last; run
  `region_build` loads such an extract, and with the exception left out TLC finds a gap.
- `regions/build.py:418`: a build that dies after a merge's commit and before the manifest is saved
  leaves `way_lts` recorded as done with the old speeds, and no later build finds that anything
  changed ("A merge that changed anything clears `way_lts`'s record", `build.py:386`).
  `SurveysAreScored` is stated of builds that do not die.

## 4. Proofs

Each module of theorems proves its components' invariants for every value of the constants,
from the assumptions named in the components' modules (`TLC` evaluates those on every run) and
from what is said below.

- `PlanningLoopProofs`, arbitration. From `MarginAssumption` and `FieldAssumption`. On lemmas that the order on
  keys is total, irreflexive and transitive and that hard counts come first, `HardSafetyNeverTraded`, and
  `ArbitrationIsTotal`: a field of any size has one best candidate and one runner-up, unbeaten tier by tier. Its
  invariant is that every set of candidates in the field has a lowest and a foremost one, kept as candidates are added one by one, for
  that is an induction the prover does not make. `ListingDoesNotDecide`
  (a property of steps): a swap of two alternatives changes neither the pair that is compared nor what is adopted.
- `PlanningLoopProofs`, the loop. From `LoopAssumption` (a line has one flag for each segment, requests are well
  formed). That the key of a line is made of numbers, its severities being sums, is the lemma `KeysAreNumbers`: a sum of the community
  module is followed set by set, from the smallest at which it would not be a number (`SumIsNatural`). The invariant is `TypeOK`, `PadInv` of the pad in memory and of the stored one, `Phase`
  (which status goes with which `pc`) and `Closed` (every answered segment of a line is
  locked in any pad that still has that line, or is the one the stored question is about). `Closed`
  is what `NeverReasked` lacks: a leg that is lost goes back to the stored pad, so what was answered must be
  closed there, or still be answered there.
- `PlanningLoopProofs`, the scorers. From `ScoringAssumption`, `HoursAssumption` and `ScorersAssumption`: a line is cut into segments that
  have a length, a place lies somewhere on it, and hours are rules or parts nobody could read. A scorer is run once
  (`JudgeInv`), so what is proved is about its operator, for every line, world and profile. `FloorsHold`: of the 23, six read a
  preference, four of those have no hard flag, and the floor of water is under any tolerance the store lets through.
  `DryGapsAreRefused`: a stretch with no open tap lies in a gap between two taps that are next to each other, and what is refused at
  some width is refused at a greater one. `SustainedStretchesAreFlagged`: each length before the end is on exactly one segment, so
  that a stretch on the ground is one of segments, whatever the cut. `ClosedIsCertain`: what is not unknown after a rule stays the same
  however the rules are filled in, rule by rule. As the prover makes no induction, these follow the least segment, mark or rule
  at which the claim would fail; `RulesOf` is a function on numbers for that reason.
  `AbsenceNamed` states `AbsenceIsReported` for all 23: where a source is not there, and the scorer does not say so of it, nothing would
  be different if it were, but for the exceptions of `KnownSilence`. A scorer of layers that calls nothing unchecked had them all, so
  that the revealed world is the one it read (one lemma for each way of asking: `LayersAreNamed`, `WeatherIsNamed`, `AgenciesAreNamed`,
  `AccessIsNamed`, ...). A scorer that asks site by site leaves nothing unchecked only if each site answered
  (`EverySiteAnswers`), so its readings are the same (`SameReadings`). `ScorersAssumption` gives the worlds the fields a
  scorer reads, and `WeatherAssumption` says that there is a number of weather sites.
- `JobRunnerProofs`. From `RunnerAssumption` and `~Eager`. No property of files and logs is inductive without
  `WorkerInv` and `HandlerInv`: a job has at most one owner (a slot not ended, or the handler), and the owner knows what is
  on disk, so that nobody else can be writing there. `DiskInv`, `EntryInv` and `FirstInv` say the rest of what
  survives a crash and what memory may hold after one. `FollowsLifecycle` is the safety part of the refinement: each
  step of the runner is a step of `JobLifecycle` as seen through `Polled`, or a stutter.
- `PlanEditsProofs`. An unlock frees exactly its range from exactly the locks it may take apart
  (`UnlockFreesItsRange`). From `EditsAssumption`, the invariant says of the plan every job holds
  what the properties say of the stored one, because any of them may be written next, and
  that the loop's ground is freed only under an unlock that has started. It covers the plain refresh beside
  the gestures too, which the run leaves out. `GesturesAreAtomic` is the refinement `OneAtATimeIsAtomic`: while no two gestures have been
  made together, each step is the abstract gesture, applied at once to the stored plan, or a stutter. Its invariant, `AloneInv`, is
  that a gesture waits in the queue once (`QueuedOnce`), and, until two are together, that one job at most is under way, that what it
  has read is still what the file says, and that the file is torn only while that job writes it. So the plan that is written is the
  gesture's image of the plan that was there, and the abstract step is taken when the file is truncated, from when on nobody can
  read the old one. That a torn file is no plan is a hypothesis (`TornIsNoPlan`).
- `AdapterLadderProofs`. From `RegistryAssumption`. A climb keeps nothing but what each adapter said; the invariant (`Climbed`)
  says that the rest follows from it: which ladders are open at a tier, who is due there, and under which key. What an
  adapter said follows from the plan's memory (`Word`), or it was over the ceiling, and then nothing that is not in
  memory is ever fetched again, because the count only grows. So a line is climbed the same way a second time
  (`OneWordPerLine`), and no rung before a better one (`SearchComesLast`).
- `VerdictsProofs`. From `LedgerAssumption` and `OneDoor`. The invariant is that a process which is at an answer is alone
  with its task (`AllAlone`), so that what it found there is still so when it writes (`Proper`), and, of the verdicts,
  that what was checked travels with them from the plan they were measured on to the golden they are published for.
- `ProfileStoreProofs`. From `ProfileAssumption`, `Alone`, and that no file is not a text and no block is not an entry
  (`MarkersMarkNothing`). A saver's text is a copy of the file taken steps before it is written: the invariant says that one process
  saves at a time and that its text keeps every entry the runner wrote, as the file does unless it stands empty.
  `OnlyPassedFitsAreSaved` needs neither of the two. `SavedFitsAreEarned` states `FitIsEarned`: beside the gates, it follows
  the grid search. The best of a grid is there (a set of numbers with a bound has a greatest, and of the best one is nearest to no
  preference), it is refused unless it wins more answers than no preference or that one is too long, and what it wins under the profile
  it was fitted for is what `Effective` makes of it. `ProperInv`, that the file holds only what `store.py` lets in, gives the
  multipliers their range. `PlansAreDrawnAsCosted` states `DrawnAsCosted`: the router's rules multiply by at most one, because a bonus is
  a penalty on the rest, and what that adds to the exponent is the same on every way (`Lift`), so that the exponents of two ways
  that are not floored differ as the fitter has them (`ToldLeans`, `WaysAreTold`). The fitter adds up by class and the router by
  stretch (`SumsByClass`, `CostByStretch`). On ways of one effort both weights, under the multipliers and under the rules, are the
  fitter's cost and the distance, and only the cost is scaled by the lift (`WeightsAre`): what is ahead in the cost and in the sum
  stays ahead (`ScalingKeepsOrder`, `DrawnAsWished`). Both rest on lemmas about the sums of the community module `Functions`, which are proved by removing elements (`ByRemoval`): that any term may be taken out, that sums add, compare and scale. `NetworkAssumption` says that
  between two ends there are lines and that they have lengths. That a question is about two of them is proved (`SeedsAsk`): the router's
  cheapest line exists, since a rule never multiplies by more than one and so every cost is a natural number. That the pairs a fit reads
  can be costed (`Telling`) is an invariant.
- `PlanPipelineProofs`, the passes. From `PipelineAssumption`, for any registry whose scorers read only what is before them. `PassInv`
  is about the pass that runs and the plan it starts from: a pass wants all that what it wants reads (`Begun`), a result of a wanted scorer is
  of this pass (`Given`), the record of calls is what the pass has asked so far (`Manifest`), and each row of a plan is measured
  ground that lies where it was taken but for one tolerance a pass (`PlanIsSound`). Neither half of `ResultsAreWhatTheyTell`
  (`ResultsTellTrue`) is inductive alone: `PriorsAreOfTheirPass` speaks of what was read, and it is the closure of what is wanted that keeps a carried result from being read
  (`OldIsNeverReadAsNew`); `CarriedIsWhatItTells` needs the ground of the last plan (`WhatIsCarriedIsTraced`).
  It rests on lemmas about recursive functions, proved by the least element of a set of numbers: `ClosureIsClosed`, that
  `Boundaries` are points of the line, and that each cut is placed.
- `PlanPipelineProofs`, what is read of a plan. `ReadingsAreOfThePlan` states `WhatIsReadIsOfThePlan`, from `SheetsAssumption` besides. The
  invariant is `ReadInv`: a result tells what it has, of segments that are counted; a carried one tells of the stored result
  what a segment that is still there lets it (`CarriedFrom`); and the last delta was read off the plan it replaced. Then the report
  (`ReportsTell`), the sheets (`SheetsTell`), the course (`CoursesTell`) and the delta (`DeltasTell`) are functions of the plan, each with a
  lemma. The course's share is the hard one. `CourseIsSpaced`: after k picks every waypoint that is left is either
  passed over or at least k spacings along, so that no more can be picked than spacings fit on the line; and a waypoint that is left out comes after one of its
  kind that is kept, by no more than an equal share of the line. `SheetsAssumption` says that the waypoints and the locks of a scorer lie on every line, because what
  the router and the layers find is not indexed by the line here.
- `PlanPipelineProofs`, the cache. From `CacheAssumption`. The invariant adds, for each leg, that what it has
  recorded as paid is in the cache under its pin from then on (nothing is ever removed), and that an
  offline leg is never between a charge and an answer.
- `RegionBuildProofs`. From `BuildAssumption` and `LayersFirst` (nobody scores a region by `--only`
  without loading it). The invariant says the same (`Told`) of every manifest and of the records
  of the running build, for each becomes the other, and that a build past its layers has them
  done (`Ahead`). That is why levels recorded as done cover what was always in the extract: it was loaded when they were
  computed (`Loaded`), whichever extract that was, ways are never taken out, and a way with no level is always due; and a later load
  only shrinks what must be covered (`LastingShrinks`). `LevelsFollowTheSurveys` adds `Owed`:
  while no build has died, a level whose speed is not its way's is owed by a region that is not recorded as done,
  or by the build that runs.

Five properties were restated when their proofs failed. `BetterRungsFirst` said that whoever is on a rung of a jurisdiction was preceded by
that jurisdiction's better rungs; but what an adapter says counts for every jurisdiction that has it, one whose ladder ended sooner
too, so the better rungs are those of the ladder that climbed. `CarriedIsWhatItTells` gave a measurement one
tolerance for ever; but `map_segments` compares a segment with that of the last plan and not with the ground it was measured on,
so what is carried may drift by a tolerance in each pass. `FitIsEarned` said that a fit takes the runner's side more often
than no preference, `DrawnAsCosted` that the router orders lines as the fitter does, for the exceptions see above, and
`WhatIsReadIsOfThePlan` that a segment is red exactly where its ends agree with those of a hard flag: it is red exactly when a flag has its
id, and lies where the flag was raised but for one tolerance a pass; the rest is `MapTells`.
Three definitions (`CutAt`, and the two readings of a plan's flags in `Sheets`) had `CASE` arms that overlap, which TLC reads in order
and TLA+ does not; they are `IF`s now, as the code's branches are.

Only model-checked:

- `Settles`, `GesturesEnd` and the fair part of `KeepsLifecycle`: liveness is out of the prover's reach.
- `WhatIsReadIsOfTheGround`, whose parts are true of the lines that routers draw and not of every sequence of points.
  `WaypointsStayOnTheirGround`: a waypoint has a distance and no segment, one at a joint belongs to two, and after two edits it may lie on
  the neighbour, whose far end has changed. `MapTells`: ends that agree to a tolerance may be two tolerances apart after
  two passes, and a loop has one place twice. `PathTells`: the points filled in between two coordinates are rounded to
  whole units here, which can make a diagonal a unit longer (4 along and 4 back in three steps is 2 + 1 + 2), and that a path lies on its
  ways is a fact about what GraphHopper sends.

## 5. Not modelled

- The via gesture takes the path of avoid; the order of vias is numeric.
- What a model call words, except which options a question has.
- `read_job`'s HTTP status when it meets a torn file.
- A budget's other caps (tiles, windows, model calls, latency), and `peek`.
- Two region builds at once (psycopg's transactions would interleave at the commits), and a change of
  `LTS_VERSION`, which makes every way due.
- The arithmetic of comfort scores, gradients, tides and the sun, which enter as levels; the
  projections, rasters and viewsheds they come from.
- Check 9, which no plan runs; the elevation of a route run backwards.
- How places to ask about are chosen, and the preview of a label's map.
- The parsers of the published feeds, and the promotion of a portal's entry by hand.
- Region routers, data models, wording, the runtime's wiring, the web page (but for what its buttons guarantee) and
  deployment: the reasons are in `PROJECT.json`.

## 6. Plan

Theorems worth proving next: `WaypointsStayOnTheirGround` for lines that do not meet themselves, over one edit; that `PathToRoute` keeps the
length of a path whose coordinates are no farther apart than `MaxSpacing`.

Models: the budget's other caps in `RouterCache`; vias in `PlanEdits`; two region builds at once; a feed's adapter whose
pages move while they are read.
