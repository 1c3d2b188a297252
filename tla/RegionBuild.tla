----------------------------- MODULE RegionBuild -----------------------------
(***************************************************************************)
(* The region build (regions/build.py): steps over one database that all   *)
(* regions share, and a manifest file for each region that a build which   *)
(* stopped is resumed from.  The steps that write tables are layers        *)
(* (core/data/osm.py load_extract), speed_surveys (regions/                *)
(* speed_surveys.py) and way_lts (regions/lts.py); each commits once, and  *)
(* the manifest is saved after it, by truncating the file and filling it.  *)
(*                                                                         *)
(* An extract is known by its date, and so are the tags loaded from it.  A *)
(* level is known by what it was computed from.  One build runs at a time. *)
(* The four steps that write no table are one here, "report".              *)
(***************************************************************************)
EXTENDS Integers, Sequences, FiniteSetsExt

CONSTANTS
  Regions,
  Ways,         \* those with a highway tag
  Extent,       \* the ways in each region's extract of each date
  Speeds,       \* what surveys measure, in km/h
  None, Unread, \* no value; a manifest that is not there, or was cut short
  Commands,     \* how a build may be called
  FirstDate,    \* the date of each region's extract at the start, 0 when there is no file
  MaxDate,      \* bounds the extracts
  MaxBuilds, MaxCrashes   \* and the builds, and those that die

VARIABLES
  extract,      \* each region's file: its date, 0 when there is none
  ways,         \* osm.ways: the date of each way's tags, 0 when it is not loaded
  speed,        \* speed_survey.way_speed: the speed of each way, and whose it is
  level,        \* osm_lts.way_lts: what each way was scored from
  osm, lts,     \* meta.layer_vintage: the date each region was loaded and scored at
  manifest,     \* each region's file
  build,        \* the build that is running
  builds, crashes

vars == <<extract, ways, speed, level, osm, lts, manifest, build, builds, crashes>>
tables == <<ways, speed, level, osm, lts>>

-----------------------------------------------------------------------------
Steps == <<"layers", "speed_surveys", "way_lts", "report">>
Names == {Steps[i] : i \in DOMAIN Steps}
Statuses == {"none", "done", "blocked", "failed"}
Records == [Names -> Statuses]

Loads(file) == file # Unread
NoRecords == [s \in Names |-> "none"]

Dates == 0 .. MaxDate
Surveys == [Ways -> Speeds \cup {None}]
Rows == [kph : Speeds, region : Regions]
Levels == [tags : 1 .. MaxDate, kph : Speeds \cup {None}]

ASSUME BuildAssumption ==
  /\ Extent \in [Regions -> [1 .. MaxDate -> SUBSET Ways]]
  /\ None \notin Speeds /\ None \notin Rows /\ None \notin Levels /\ None \notin Regions
  /\ Commands \subseteq [only : SUBSET Names, force : BOOLEAN]
  /\ Unread \notin Records
  /\ MaxDate \in Nat /\ FirstDate \in [Regions -> Dates] /\ MaxBuilds \in Nat /\ MaxCrashes \in Nat

\* Nobody scores a region by --only without loading it.
ASSUME LayersFirst == \A c \in Commands : "way_lts" \in c.only => "layers" \in c.only

\* The build: its region and command, the place in Steps, the records in memory,
\* and where it is: at a step, past its commit, or in the save.
Idle == [at |-> "idle", region |-> None, command |-> [only |-> {}, force |-> FALSE],
         step |-> 1, records |-> NoRecords]

Complete(status) == status \in {"done", "blocked"}

\* Whether the step is called: `only` leaves it out, or a record says it is finished.
Wanted(b, i) ==
  /\ b.command.only = {} \/ Steps[i] \in b.command.only
  /\ b.command.force \/ ~Complete(b.records[Steps[i]])
\* The build at its first step to be called from the i-th on; over, when there is none.
Onward(b, i) ==
  LET ahead == {j \in i .. Len(Steps) : Wanted(b, j)}
  IN  IF ahead = {} THEN Idle ELSE [b EXCEPT !.at = "step", !.step = Min(ahead)]
At(name) == build.at = "step" /\ Steps[build.step] = name

\* The speed a way is scored with.
Speed(w) == IF speed[w] = None THEN None ELSE speed[w].kph

-----------------------------------------------------------------------------
Init ==
  /\ extract = FirstDate
  /\ ways = [w \in Ways |-> 0] /\ speed = [w \in Ways |-> None] /\ level = [w \in Ways |-> None]
  /\ osm = [r \in Regions |-> 0] /\ lts = [r \in Regions |-> 0]
  /\ manifest = [r \in Regions |-> Unread]
  /\ build = Idle /\ builds = 0 /\ crashes = 0

\* Somebody clips a newer extract, which may bring ways and lack others.
NewExtract(r) ==
  /\ extract[r] < MaxDate
  /\ extract' = [extract EXCEPT ![r] = @ + 1]
  /\ UNCHANGED <<tables, manifest, build, builds, crashes>>

\* build_region: a manifest that cannot be read is a new one.
Invoke(r, command) ==
  /\ build = Idle /\ builds < MaxBuilds
  /\ builds' = builds + 1
  /\ LET records == IF Loads(manifest[r]) THEN manifest[r] ELSE NoRecords
     IN  build' = Onward([Idle EXCEPT !.region = r, !.command = command, !.records = records], 1)
  /\ UNCHANGED <<extract, tables, manifest, crashes>>

\* manifest.record, in memory, of a step that returned or raised.
Returned(records, status) ==
  build' = [build EXCEPT !.at = "ran", !.records = [records EXCEPT ![Steps[build.step]] = status]]
Returns(status) == Returned(build.records, status)

\* osm_graph, terrain, jurisdictions and coverage_report name files and count rows, and
\* are finished when they end: done or blocked, which is one here.
Report ==
  /\ At("report")
  /\ Returns("done")
  /\ UNCHANGED <<extract, tables, manifest, builds, crashes>>

\* Whatever a step raises before it has committed.
Fails ==
  /\ \E name \in Names : At(name)
  /\ Returns("failed")
  /\ UNCHANGED <<extract, tables, manifest, builds, crashes>>

\* load_extract upserts every way of the file.
Upserted(r) ==
  [w \in Ways |-> IF extract[r] # 0 /\ w \in Extent[r][extract[r]] THEN extract[r] ELSE ways[w]]

\* After a second pass over the file the date is written, and all is committed; boundaries,
\* streams, stops and parks come after, in commits of their own.  When the second pass
\* raises, what is upserted is committed all the same: the build returns, and leaving the
\* connection's block commits.
Layers ==
  LET r == build.region
  IN  /\ At("layers")
      /\ ways' = Upserted(r)
      /\ \/ /\ \E status \in {"done", "failed"} : Returns(status)
            /\ osm' = IF extract[r] = 0 THEN osm ELSE [osm EXCEPT ![r] = extract[r]]
         \/ Returns("failed") /\ UNCHANGED osm
      /\ UNCHANGED <<extract, speed, level, lts, manifest, builds, crashes>>

\* speed_surveys.compute: the region's rows are deleted, and what its surveys measured
\* of the ways loaded is put in, over whatever row another region has there.
Matched(found) == [w \in Ways |-> IF ways[w] = 0 THEN None ELSE found[w]]
RowsOf(r) ==
  [w \in Ways |-> IF speed[w] # None /\ speed[w].region = r THEN speed[w].kph ELSE None]
Merged(r, found) ==
  [w \in Ways |-> IF found[w] # None THEN [kph |-> found[w], region |-> r]
                  ELSE IF RowsOf(r)[w] # None THEN None ELSE speed[w]]

PoppedNever(records, r, found) == records   \* a bug: way_lts is taken for finished
\* A merge that changed anything clears way_lts's record.
Popped(records, r, found) ==
  IF RowsOf(r) # found THEN [records EXCEPT !["way_lts"] = "none"] ELSE records

\* When no adapter that is installed claims a boundary that is loaded, nobody is asked and
\* nothing is written; those that are asked answer what their cities publish today, or
\* nothing, and then the region has no surveys.
Unclaimed ==
  /\ At("speed_surveys")
  /\ Returns("blocked")
  /\ UNCHANGED <<extract, tables, manifest, builds, crashes>>
SpeedSurveys ==
  LET r == build.region
  IN  /\ At("speed_surveys")
      /\ \E answer \in Surveys :
           LET found == Matched(answer)
           IN  /\ speed' = Merged(r, found)
               /\ Returned(Popped(build.records, r, found), "done")
      /\ UNCHANGED <<extract, ways, level, osm, lts, manifest, builds, crashes>>

DueAgain(w, force) ==   \* a bug: only what was scored before is scored again
  ways[w] # 0 /\ level[w] # None /\ (force \/ level[w].kph # Speed(w))
\* _rows: a loaded way without a level, or with another speed than it was scored with.
Due(w, force) ==
  ways[w] # 0 /\ (level[w] = None \/ force \/ level[w].kph # Speed(w))

PinnedIfScored(r, force) ==   \* a bug: no vintage when there was nothing to score
  IF \E w \in Ways : Due(w, force) THEN [lts EXCEPT ![r] = extract[r]] ELSE lts
\* The vintage, written last and whatever was scored: the date of the file there is.
Pinned(r, force) == [lts EXCEPT ![r] = extract[r]]

\* lts.compute: every way that is due, of any region, in one commit with the vintage.
WayLts ==
  LET r == build.region  force == build.command.force
  IN  /\ At("way_lts")
      /\ IF extract[r] = 0
         THEN Returns("blocked") /\ UNCHANGED <<level, lts>>
         ELSE /\ level' = [w \in Ways |-> IF Due(w, force) THEN [tags |-> ways[w], kph |-> Speed(w)]
                                          ELSE level[w]]
              /\ lts' = Pinned(r, force)
              /\ Returns("done")
      /\ UNCHANGED <<extract, ways, speed, osm, manifest, builds, crashes>>

\* BuildManifest.save, and then the next step, unless this one failed.
Truncate ==
  /\ build.at = "ran"
  /\ manifest' = [manifest EXCEPT ![build.region] = Unread]
  /\ build' = [build EXCEPT !.at = "saving"]
  /\ UNCHANGED <<extract, tables, builds, crashes>>
Write ==
  /\ build.at = "saving"
  /\ manifest' = [manifest EXCEPT ![build.region] = build.records]
  /\ build' = IF build.records[Steps[build.step]] = "failed" THEN Idle
              ELSE Onward(build, build.step + 1)
  /\ UNCHANGED <<extract, tables, builds, crashes>>

Crash ==
  /\ build # Idle /\ crashes < MaxCrashes
  /\ crashes' = crashes + 1 /\ build' = Idle
  /\ UNCHANGED <<extract, tables, manifest, builds>>

Next ==
  \/ \E r \in Regions : NewExtract(r) \/ \E c \in Commands : Invoke(r, c)
  \/ Report \/ Fails \/ Layers \/ Unclaimed \/ SpeedSurveys \/ WayLts
  \/ Truncate \/ Write \/ Crash

Spec == Init /\ [][Next]_vars

-----------------------------------------------------------------------------
Builds == [at : {"idle", "step", "ran", "saving"}, region : Regions \cup {None},
           command : [only : SUBSET Names, force : BOOLEAN],
           step : 1 .. Len(Steps), records : Records]

\* The shape of the tables, the manifests and the build.
TypeOK ==
  /\ extract \in [Regions -> Dates]
  /\ ways \in [Ways -> Dates] /\ speed \in [Ways -> Rows \cup {None}]
  /\ level \in [Ways -> Levels \cup {None}]
  /\ osm \in [Regions -> Dates] /\ lts \in [Regions -> Dates]
  /\ manifest \in [Regions -> Records \cup {Unread}]
  /\ build \in Builds
  /\ builds \in Nat /\ crashes \in Nat

Says(r, step, status) == Loads(manifest[r]) /\ manifest[r][step] = status

\* What a manifest says is done was committed, whenever the process died: a region
\* whose levels are said to be there has the row that says from which extract.
RecordedIsCommitted == \A r \in Regions : Says(r, "way_lts", "done") => lts[r] # 0

\* A region that had an extract when it was first built, and whose levels are done, has a
\* level on every way that was in its extract all the time up to the one that was loaded
\* last, however often it was loaded again and its builds failed, died and were called
\* again.  A way that a newer extract brought is excepted: layers clears no record, so a
\* build of layers alone, or one that fails before way_lts, leaves that way loaded with no
\* level, which is "a coverage gap" (lts.compute), and the levels recorded as done.
Lasting(r, loaded) == {w \in Ways : \A d \in FirstDate[r] .. loaded : w \in Extent[r][d]}
Covered(r) == \A w \in Lasting(r, osm[r]) : level[w] # None
LevelsCoverTheRegion ==
  \A r \in Regions : FirstDate[r] # 0 /\ Says(r, "way_lts", "done") => Covered(r)

\* "A merge that changed anything clears way_lts's record, so the same build rescores
\* with it": when every region that was built has its levels done, every level was
\* computed with the speed its way has, whichever region's survey that is, and however
\* builds failed and were called again.  Not after a build that died: the merge is
\* committed before the record that it cleared is saved.
Settled ==
  /\ build = Idle
  /\ \A r \in Regions : Loads(manifest[r]) => manifest[r]["way_lts"] = "done"
SurveysAreScored ==
  crashes = 0 /\ Settled => \A w \in Ways : level[w] # None => level[w].kph = Speed(w)
=============================================================================
