-------------------------- MODULE RegionBuildProofs --------------------------
(***************************************************************************)
(* What a manifest may be taken for, for any regions, ways and extracts,   *)
(* and for builds that fail and die as often as they like.  The manifest   *)
(* of a region and the records of the build in memory are told the same    *)
(* of (Told), for each may become the other; and a build past the layers   *)
(* has them done (Ahead), which is what makes the levels that it records   *)
(* cover the region.                                                       *)
(***************************************************************************)
EXTENDS RegionBuild, TLAPS

\* What records of a region are worth, when it is dated and scored like this.
Told(r, records, scoredAt, loadedAt, levels) ==
  /\ records \in Records /\ records["layers"] # "blocked"
  /\ records["way_lts"] = "done" => scoredAt[r] # 0
  /\ FirstDate[r] # 0 =>
       /\ records["layers"] = "done" => loadedAt[r] # 0
       /\ records["way_lts"] = "done" =>
            loadedAt[r] # 0 /\ \A w \in Lasting(r, loadedAt[r]) : levels[w] # None

Within(b, i) == b.command.only = {} \/ Steps[i] \in b.command.only

\* Where a build is: at a step it was called for, and past the layers if it was called
\* for them.
Ahead(b) ==
  /\ b.region \in Regions /\ b.command \in Commands
  /\ Within(b, b.step)
  /\ Within(b, 1) => IF b.step = 1 THEN b.at # "step" => b.records["layers"] # "none"
                     ELSE b.records["layers"] = "done"

\* A file is only replaced by a newer one, and what was loaded last was once the file.
Kept == \A r \in Regions : FirstDate[r] <= extract[r]
Loaded ==
  \A r \in Regions : osm[r] # 0 =>
    /\ FirstDate[r] <= osm[r] /\ osm[r] <= extract[r]
    /\ \A w \in Extent[r][osm[r]] : ways[w] # 0
Filed == \A r \in Regions : Loads(manifest[r]) => Told(r, manifest[r], lts, osm, level)
Goes(b, scoredAt, loadedAt, levels) ==
  \/ b = Idle
  \/ b.at # "idle" /\ Ahead(b) /\ Told(b.region, b.records, scoredAt, loadedAt, levels)
Running == Goes(build, lts, osm, level)

Inv == TypeOK /\ Kept /\ Loaded /\ Filed /\ Running

-----------------------------------------------------------------------------
\* Dates are numbers, and so are the dates of a region whose file is there.
LEMMA DatesAre ==
  /\ Dates \subseteq Nat /\ FirstDate \in [Regions -> Dates]
  /\ \A d \in Dates \ {0} : d \in 1 .. MaxDate
  /\ \A r \in Regions : \A d \in 1 .. MaxDate : Extent[r][d] \subseteq Ways
BY BuildAssumption DEF Dates

\* The later the last load, the fewer ways were there all the time.
LEMMA LastingShrinks ==
  ASSUME NEW r \in Regions, NEW o \in Dates, NEW oo \in Dates, o <= oo
  PROVE  Lasting(r, oo) \subseteq Lasting(r, o)
<1>1. FirstDate[r] \in Nat /\ o \in Nat /\ oo \in Nat
  BY DatesAre
<1>2. FirstDate[r] .. o \subseteq FirstDate[r] .. oo
  BY <1>1
<1> QED
  BY <1>2 DEF Lasting

\* The four steps are distinct.
LEMMA FourSteps ==
  /\ Names = {"layers", "speed_surveys", "way_lts", "report"} /\ Len(Steps) = 4
  /\ Steps[1] = "layers" /\ Steps[2] = "speed_surveys"
  /\ Steps[3] = "way_lts" /\ Steps[4] = "report"
BY DEF Names, Steps

\* Records stay records when a step's is replaced.
LEMMA Replaced ==
  ASSUME NEW records \in Records, NEW name \in Names, NEW status \in Statuses
  PROVE  /\ [records EXCEPT ![name] = status] \in Records
         /\ [records EXCEPT ![name] = status][name] = status
         /\ \A other \in Names \ {name} :
              [records EXCEPT ![name] = status][other] = records[other]
BY DEF Records

\* A build that is not running is one all the same.
LEMMA IdleIsABuild == Idle \in Builds /\ NoRecords \in Records
BY FourSteps DEF Idle, NoRecords, Builds, Records, Statuses

\* A nonempty set of the places from i on has a least one.
LEMMA Least ==
  ASSUME NEW i \in 1 .. 5, NEW S \in SUBSET (i .. 4), S # {}
  PROVE  \E j \in S : \A k \in S : j <= k
<1>1. CASE i \in S  BY <1>1
<1>2. CASE i \notin S /\ i + 1 \in S  BY <1>2
<1>3. CASE i \notin S /\ i + 1 \notin S /\ i + 2 \in S  BY <1>3
<1>4. CASE i \notin S /\ i + 1 \notin S /\ i + 2 \notin S /\ i + 3 \in S  BY <1>4
<1>5. i \in S \/ i + 1 \in S \/ i + 2 \in S \/ i + 3 \in S
  <2>1. PICK x \in S : TRUE  OBVIOUS
  <2>2. x \in i .. 4  OBVIOUS
  <2>3. x = i \/ x = i + 1 \/ x = i + 2 \/ x = i + 3  BY <2>2
  <2> QED  BY <2>3
<1> QED  BY <1>1, <1>2, <1>3, <1>4, <1>5

\* Onward ends the build or puts it at a step that it was called for, and every step it
\* passes over was not called for or is complete.
LEMMA OnwardGoes ==
  ASSUME NEW b \in Builds, NEW i \in 1 .. 5, b.region \in Regions
  PROVE  \/ Onward(b, i) = Idle
         \/ \E j \in i .. 4 :
              /\ Onward(b, i) = [b EXCEPT !.at = "step", !.step = j]
              /\ Wanted(b, j) /\ \A k \in i .. (j - 1) : ~Wanted(b, k)
PROOF
<1> DEFINE ahead == {j \in i .. Len(Steps) : Wanted(b, j)}
<1>1. CASE ahead = {}
  BY <1>1 DEF Onward
<1>2. CASE ahead # {}
  <2>1. ahead \in SUBSET (i .. 4)
    BY FourSteps
  <2>2. PICK j \in ahead : \A k \in ahead : j <= k
    BY <1>2, <2>1, Least
  <2>3. \A k \in ahead : (\A l \in ahead : k <= l) => k = j
    BY <2>1, <2>2
  <2>4. Min(ahead) = j
    BY <2>2, <2>3 DEF Min
  <2>5. Onward(b, i) = [b EXCEPT !.at = "step", !.step = j]
    BY <1>2, <2>4 DEF Onward
  <2>6. \A k \in i .. (j - 1) : ~Wanted(b, k)
    BY <2>1, <2>2, FourSteps
  <2> QED
    BY <2>1, <2>2, <2>5, <2>6
<1> QED
  BY <1>1, <1>2

\* A build that goes on from a place where its layers are done, or were never called for,
\* is where it should be.
LEMMA OnwardAhead ==
  ASSUME NEW b \in Builds, NEW i \in 1 .. 5, b.region \in Regions, b.command \in Commands,
         NEW l, NEW o, NEW v, Told(b.region, b.records, l, o, v),
         i > 1 /\ Within(b, 1) => b.records["layers"] = "done"
  PROVE  LET n == Onward(b, i)
         IN  /\ n \in Builds
             /\ Goes(n, l, o, v)
PROOF
<1>1. CASE Onward(b, i) = Idle
  BY <1>1, IdleIsABuild DEF Goes
<1>2. ASSUME NEW j \in i .. 4, Onward(b, i) = [b EXCEPT !.at = "step", !.step = j],
             Wanted(b, j), \A k \in i .. (j - 1) : ~Wanted(b, k)
      PROVE  LET n == Onward(b, i)
             IN  n \in Builds /\ n.at # "idle" /\ Ahead(n) /\ Told(n.region, n.records, l, o, v)
  <2> DEFINE n == Onward(b, i)
  <2>1. /\ n \in Builds /\ n.at = "step" /\ n.step = j
        /\ n.region = b.region /\ n.command = b.command /\ n.records = b.records
    <3>1. j \in 1 .. Len(Steps)
      BY FourSteps
    <3> QED
      BY <3>1, <1>2 DEF Builds
  <2>2. Within(n, j)
    BY <1>2, <2>1 DEF Wanted, Within
  <2>3. ASSUME Within(n, 1), j # 1  PROVE b.records["layers"] = "done"
    <3>1. CASE i > 1
      BY <3>1, <2>1, <2>3 DEF Within
    <3>2. CASE i = 1
      <4>1. ~Wanted(b, 1)
        BY <3>2, <1>2, <2>3
      <4>2. Complete(b.records["layers"])
        BY <4>1, <2>1, <2>3, FourSteps DEF Wanted, Within
      <4> QED
        BY <4>2 DEF Complete, Told
    <3> QED
      BY <3>1, <3>2
  <2>4. ASSUME NEW m, m.at = "step", m.step = j, m.region = b.region, m.command = b.command,
               m.records = b.records, Within(m, j),
               Within(m, 1) /\ j # 1 => b.records["layers"] = "done"
        PROVE  m.at # "idle" /\ Ahead(m) /\ Told(m.region, m.records, l, o, v)
    BY <2>4 DEF Ahead
  <2> QED
    BY <2>1, <2>2, <2>3, <2>4
<1> QED
  BY <1>1, <1>2, OnwardGoes DEF Goes

-----------------------------------------------------------------------------
\* The databases and the files are empty at first.
LEMMA Initially == Init => Inv
PROOF
<1> SUFFICES ASSUME Init PROVE Inv
  OBVIOUS
<1>1. TypeOK
  BY BuildAssumption, IdleIsABuild DEF Init, TypeOK, Dates
<1>2. Kept
  <2>1. \A r \in Regions : FirstDate[r] \in Nat
    BY DatesAre
  <2> QED
    BY <2>1 DEF Init, Kept
<1>3. Loaded /\ Filed /\ Running
  BY DEF Init, Loaded, Filed, Running, Goes, Loads
<1> QED
  BY <1>1, <1>2, <1>3 DEF Inv

-----------------------------------------------------------------------------
\* What is dated, loaded and scored stays so.
Stays(r, l, o, v, ll, oo, vv) ==
  /\ l[r] # 0 => ll[r] # 0
  /\ o[r] # 0 => oo[r] # 0 /\ Lasting(r, oo[r]) \subseteq Lasting(r, o[r])
  /\ \A w \in Ways : v[w] # None => vv[w] # None

\* Then records keep their worth.
LEMMA ToldStays ==
  ASSUME NEW r, NEW records, NEW l, NEW o, NEW v, NEW ll, NEW oo, NEW vv,
         Stays(r, l, o, v, ll, oo, vv), Told(r, records, l, o, v)
  PROVE  Told(r, records, ll, oo, vv)
<1>1. Lasting(r, oo[r]) \subseteq Ways
  BY DEF Lasting
<1> QED
  BY <1>1 DEF Told, Stays

\* And so they do when a step's is replaced, by a status that has it.
LEMMA ToldReplaced ==
  ASSUME NEW r, NEW records, NEW l, NEW o, NEW v,
         Told(r, records, l, o, v),
         NEW name \in Names, NEW status \in Statuses,
         name = "layers" => status # "blocked",
         name = "layers" /\ status = "done" /\ FirstDate[r] # 0 => o[r] # 0,
         name = "way_lts" /\ status = "done" =>
           /\ l[r] # 0
           /\ FirstDate[r] # 0 => o[r] # 0 /\ \A w \in Lasting(r, o[r]) : v[w] # None
  PROVE  Told(r, [records EXCEPT ![name] = status], l, o, v)
PROOF
<1> DEFINE new == [records EXCEPT ![name] = status]
<1>1. new \in Records /\ new[name] = status /\ \A n \in Names \ {name} : new[n] = records[n]
  BY Replaced DEF Told
<1>2. "layers" \in Names /\ "way_lts" \in Names
  BY FourSteps
<1>3. ASSUME NEW now \in Records, now[name] = status,
             \A n \in Names \ {name} : now[n] = records[n]
      PROVE  Told(r, now, l, o, v)
  BY <1>2, <1>3 DEF Told
<1> QED
  BY <1>1, <1>3

AllStay == \A r \in Regions : Stays(r, lts, osm, level, lts', osm', level')

\* Manifests that nobody writes keep their worth.
LEMMA FiledStays ==
  ASSUME AllStay, Filed, UNCHANGED manifest
  PROVE  Filed'
BY ToldStays DEF Filed, AllStay

\* Tables that nobody writes stay.
LEMMA StillStays ==
  ASSUME UNCHANGED <<level, osm, lts>>
  PROVE  AllStay
BY DEF AllStay, Stays

\* A step that returns or raises leaves the build where it should be.
LEMMA ReturnedAhead ==
  ASSUME TypeOK, build.at = "step", Ahead(build),
         NEW records \in Records, records["layers"] = build.records["layers"],
         NEW status \in Statuses \ {"none"}, Returned(records, status)
  PROVE  /\ build' \in Builds /\ build'.at = "ran" /\ Ahead(build')
         /\ build'.region = build.region
         /\ build'.records = [records EXCEPT ![Steps[build.step]] = status]
PROOF
<1>1. build.step \in 1 .. 4 /\ Steps[build.step] \in Names
  BY FourSteps DEF TypeOK, Builds
<1> DEFINE new == [records EXCEPT ![Steps[build.step]] = status]
<1>2. /\ new \in Records /\ new[Steps[build.step]] = status
      /\ \A n \in Names \ {Steps[build.step]} : new[n] = records[n]
  BY <1>1, Replaced
<1>3. build' = [build EXCEPT !.at = "ran", !.records = new]
  BY DEF Returned
<1> HIDE DEF new
<1>4. /\ build' \in Builds /\ build'.at = "ran" /\ build'.region = build.region
      /\ build'.records = new /\ build'.step = build.step /\ build'.command = build.command
  BY <1>2, <1>3 DEF TypeOK, Builds
<1>5. build.step # 1 => new["layers"] = records["layers"]
  BY <1>1, <1>2, FourSteps
<1>6. build.step = 1 => new["layers"] # "none"
  BY <1>1, <1>2, FourSteps
<1>7. Within(build', 1) <=> Within(build, 1)
  BY <1>4 DEF Within
<1>8. Within(build', build'.step)
  BY <1>4 DEF Within, Ahead
<1> QED
  BY <1>4, <1>5, <1>6, <1>7, <1>8 DEF Ahead, new

-----------------------------------------------------------------------------
\* A step that returns or raises keeps the invariant, when what it records is worth it in
\* the tables that it leaves.
LEMMA ReturnedKeeps ==
  ASSUME Inv, build.at = "step", AllStay, UNCHANGED manifest,
         NEW records \in Records, records["layers"] = build.records["layers"],
         records["way_lts"] = "done" => build.records["way_lts"] = "done",
         NEW status \in Statuses \ {"none"}, Returned(records, status),
         Steps[build.step] = "layers" => status # "blocked",
         Steps[build.step] = "layers" /\ status = "done" /\ FirstDate[build.region] # 0
           => osm'[build.region] # 0,
         Steps[build.step] = "way_lts" /\ status = "done"
           => /\ lts'[build.region] # 0
              /\ FirstDate[build.region] # 0 =>
                   /\ osm'[build.region] # 0
                   /\ \A w \in Lasting(build.region, osm'[build.region]) : level'[w] # None
  PROVE  build' \in Builds /\ Filed' /\ Running'
PROOF
<1> DEFINE r == build.region
           new == [records EXCEPT ![Steps[build.step]] = status]
<1>1. r \in Regions /\ Ahead(build) /\ Told(r, build.records, lts, osm, level)
  BY DEF Inv, Running, Goes, Idle, Ahead
<1>2. /\ build' \in Builds /\ build'.at = "ran" /\ Ahead(build')
      /\ build'.region = r /\ build'.records = new
  BY <1>1, ReturnedAhead DEF Inv
<1>3. Steps[build.step] \in Names
  BY FourSteps DEF Inv, TypeOK, Builds
<1>4. Told(r, records, lts, osm, level)
  BY <1>1 DEF Told
<1>5. Told(r, records, lts', osm', level')
  BY <1>1, <1>4, ToldStays DEF AllStay
<1>6. Told(r, new, lts', osm', level')
  BY <1>3, <1>5, ToldReplaced
<1>7. Running'
  BY <1>2, <1>6 DEF Running, Goes
<1> QED
  BY <1>2, <1>7, FiledStays DEF Inv

-----------------------------------------------------------------------------
\* Report: a step that is no other's business.
LEMMA ReportKeeps == ASSUME Inv, Report PROVE Inv'
PROOF
<1>1. /\ build.at = "step" /\ Steps[build.step] = "report"
      /\ Returned(build.records, "done") /\ UNCHANGED <<extract, tables, manifest, builds, crashes>>
  BY DEF Report, At, Returns
<1>2. build.records \in Records
  BY <1>1 DEF Inv, TypeOK, Builds
<1>3. AllStay
  BY <1>1, StillStays DEF tables
<1>4. build' \in Builds /\ Filed' /\ Running'
  BY <1>1, <1>2, <1>3, ReturnedKeeps DEF Statuses
<1> QED
  BY <1>1, <1>4 DEF Inv, TypeOK, Kept, Loaded, tables

\* Fails: a failure is worth nothing, and nothing is lost.
LEMMA FailsKeeps == ASSUME Inv, Fails PROVE Inv'
PROOF
<1>1. /\ build.at = "step"
      /\ Returned(build.records, "failed") /\ UNCHANGED <<extract, tables, manifest, builds, crashes>>
  BY DEF Fails, At, Returns
<1>2. build.records \in Records
  BY <1>1 DEF Inv, TypeOK, Builds
<1>3. AllStay
  BY <1>1, StillStays DEF tables
<1>4. build' \in Builds /\ Filed' /\ Running'
  BY <1>1, <1>2, <1>3, ReturnedKeeps DEF Statuses
<1> QED
  BY <1>1, <1>4 DEF Inv, TypeOK, Kept, Loaded, tables

\* Unclaimed: nothing is written.
LEMMA UnclaimedKeeps == ASSUME Inv, Unclaimed PROVE Inv'
PROOF
<1>1. /\ build.at = "step" /\ Steps[build.step] = "speed_surveys"
      /\ Returned(build.records, "blocked") /\ UNCHANGED <<extract, tables, manifest, builds, crashes>>
  BY DEF Unclaimed, At, Returns
<1>2. build.records \in Records
  BY <1>1 DEF Inv, TypeOK, Builds
<1>3. AllStay
  BY <1>1, StillStays DEF tables
<1>4. build' \in Builds /\ Filed' /\ Running'
  BY <1>1, <1>2, <1>3, ReturnedKeeps DEF Statuses
<1> QED
  BY <1>1, <1>4 DEF Inv, TypeOK, Kept, Loaded, tables

\* Layers: the ways of the extract are loaded, whatever is dated.
LEMMA LayersKeeps == ASSUME Inv, Layers PROVE Inv'
PROOF
<1> DEFINE r == build.region
<1>1. r \in Regions /\ build.at = "step" /\ Steps[build.step] = "layers"
  BY DEF Inv, Running, Goes, Idle, Ahead, Layers, At
<1>2. /\ ways' = Upserted(r) /\ UNCHANGED <<extract, speed, level, lts, manifest, builds, crashes>>
  BY DEF Layers
<1>3. PICK status \in {"done", "failed"} :
        /\ Returned(build.records, status)
        /\ \/ osm' = IF extract[r] = 0 THEN osm ELSE [osm EXCEPT ![r] = extract[r]]
           \/ status = "failed" /\ UNCHANGED osm
  BY DEF Layers, Returns
<1>4. extract[r] \in Dates /\ osm \in [Regions -> Dates] /\ ways \in [Ways -> Dates]
  BY <1>1 DEF Inv, TypeOK
<1>5. ways' \in [Ways -> Dates] /\ osm' \in [Regions -> Dates]
  BY <1>1, <1>2, <1>3, <1>4 DEF Upserted
<1>6. ASSUME NEW q \in Regions, osm[q] # 0
      PROVE  osm'[q] \in Dates /\ osm'[q] # 0 /\ osm[q] <= osm'[q]
  <2>1. osm[q] \in Nat /\ osm[q] <= extract[q]
    BY <1>4, <1>6, DatesAre DEF Inv, Loaded
  <2> QED
    BY <1>1, <1>3, <1>4, <1>5, <1>6, <2>1
<1>7. AllStay
  <2> SUFFICES ASSUME NEW q \in Regions, osm[q] # 0
               PROVE  osm'[q] # 0 /\ Lasting(q, osm'[q]) \subseteq Lasting(q, osm[q])
    BY <1>2 DEF AllStay, Stays
  <2> QED
    BY <1>4, <1>6, LastingShrinks
<1>8. Loaded'
  <2> SUFFICES ASSUME NEW q \in Regions, osm'[q] # 0
               PROVE  /\ FirstDate[q] <= osm'[q] /\ osm'[q] <= extract[q]
                      /\ \A w \in Extent[q][osm'[q]] : ways'[w] # 0
    BY <1>2 DEF Loaded
  <2>1. \A w \in Ways : ways[w] # 0 => ways'[w] # 0
    BY <1>2 DEF Upserted
  <2>2. Extent[q][osm'[q]] \subseteq Ways
    BY <1>5, DatesAre
  <2>3. CASE osm'[q] = osm[q]
    BY <2>1, <2>2, <2>3 DEF Inv, Loaded
  <2>4. CASE osm'[q] # osm[q]
    <3>1. q = r /\ extract[r] # 0 /\ osm'[q] = extract[r]
      BY <1>3, <1>4, <2>4
    <3>2. FirstDate[q] <= extract[r] /\ extract[r] <= extract[r]
      <4>1. FirstDate[r] <= extract[r] /\ extract[r] \in Nat
        BY <1>1, <1>4, DatesAre DEF Inv, Kept
      <4> QED
        BY <3>1, <4>1
    <3>3. \A w \in Extent[q][extract[r]] : ways'[w] # 0
      BY <1>2, <2>2, <3>1 DEF Upserted
    <3> QED
      BY <3>1, <3>2, <3>3
  <2> QED
    BY <2>3, <2>4
<1>9. build.records \in Records
  BY DEF Inv, TypeOK, Builds
<1>10. status = "done" /\ FirstDate[r] # 0 => osm'[r] # 0
  BY <1>1, <1>3, <1>4, DatesAre DEF Inv, Kept
<1>11. build' \in Builds /\ Filed' /\ Running'
  BY <1>1, <1>2, <1>3, <1>7, <1>9, <1>10, ReturnedKeeps DEF Statuses
<1> QED
  BY <1>2, <1>5, <1>8, <1>11 DEF Inv, TypeOK, Kept

\* SpeedSurveys: the rows are replaced, and no more is recorded than was.
LEMMA SurveysKeep == ASSUME Inv, SpeedSurveys PROVE Inv'
PROOF
<1> DEFINE r == build.region
<1>1. r \in Regions /\ build.at = "step" /\ Steps[build.step] = "speed_surveys"
  BY DEF Inv, Running, Goes, Idle, Ahead, SpeedSurveys, At
<1>2. UNCHANGED <<extract, ways, level, osm, lts, manifest, builds, crashes>>
  BY DEF SpeedSurveys
<1>3. PICK answer \in Surveys :
        /\ speed' = Merged(r, Matched(answer))
        /\ Returned(Popped(build.records, r, Matched(answer)), "done")
  BY DEF SpeedSurveys
<1> DEFINE found == Matched(answer)
           records == Popped(build.records, r, found)
<1>4. found \in Surveys
  BY DEF Matched, Surveys
<1>5. speed' \in [Ways -> Rows \cup {None}]
  <2> SUFFICES ASSUME NEW w \in Ways
               PROVE  (IF found[w] # None THEN [kph |-> found[w], region |-> r]
                       ELSE IF RowsOf(r)[w] # None THEN None ELSE speed[w]) \in Rows \cup {None}
    BY <1>3 DEF Merged
  <2>1. found[w] \in Speeds \cup {None} /\ speed[w] \in Rows \cup {None}
    BY <1>4 DEF Surveys, Inv, TypeOK
  <2> QED
    BY <1>1, <2>1 DEF Rows
<1>6. build.records \in Records
  BY DEF Inv, TypeOK, Builds
<1>7. /\ records \in Records /\ records["layers"] = build.records["layers"]
      /\ records["way_lts"] = "done" => build.records["way_lts"] = "done"
  <2> DEFINE cleared == [build.records EXCEPT !["way_lts"] = "none"]
  <2>1. /\ cleared \in Records /\ cleared["way_lts"] = "none"
        /\ cleared["layers"] = build.records["layers"]
    BY <1>6, FourSteps DEF Records, Statuses
  <2>2. records = cleared \/ records = build.records
    BY DEF Popped
  <2> HIDE DEF cleared, records
  <2> QED
    BY <1>6, <2>1, <2>2
<1>8. AllStay
  BY <1>2, StillStays
<1> HIDE DEF records, found
<1>9. build' \in Builds /\ Filed' /\ Running'
  BY <1>1, <1>2, <1>3, <1>7, <1>8, ReturnedKeeps DEF Statuses, records, found
<1> QED
  BY <1>2, <1>5, <1>9 DEF Inv, TypeOK, Kept, Loaded

\* WayLts: every way of the region is loaded, so every one is due or has its level.
LEMMA WayLtsKeeps == ASSUME Inv, WayLts PROVE Inv'
PROOF
<1> DEFINE r == build.region  force == build.command.force
<1>1. /\ r \in Regions /\ build.at = "step" /\ Steps[build.step] = "way_lts"
      /\ Ahead(build) /\ Told(r, build.records, lts, osm, level)
  BY DEF Inv, Running, Goes, Idle, Ahead, WayLts, At
<1>2. UNCHANGED <<extract, ways, speed, osm, manifest, builds, crashes>>
  BY DEF WayLts
<1>3. build.records \in Records
  BY DEF Inv, TypeOK, Builds
<1>4. CASE extract[r] = 0
  <2>1. Returned(build.records, "blocked") /\ UNCHANGED <<level, lts>>
    BY <1>4 DEF WayLts, Returns
  <2>2. AllStay
    BY <1>2, <2>1, StillStays
  <2>3. build' \in Builds /\ Filed' /\ Running'
    BY <1>1, <1>2, <1>3, <2>1, <2>2, ReturnedKeeps DEF Statuses
  <2> QED
    BY <1>2, <2>1, <2>3 DEF Inv, TypeOK, Kept, Loaded
<1>5. CASE extract[r] # 0
  <2>1. /\ level' = [w \in Ways |-> IF Due(w, force) THEN [tags |-> ways[w], kph |-> Speed(w)]
                                    ELSE level[w]]
        /\ lts' = [lts EXCEPT ![r] = extract[r]]
        /\ Returned(build.records, "done")
    BY <1>5 DEF WayLts, Returns, Pinned
  <2>2. /\ extract[r] \in Dates /\ lts \in [Regions -> Dates] /\ ways \in [Ways -> 0 .. MaxDate]
        /\ speed \in [Ways -> Rows \cup {None}] /\ level \in [Ways -> Levels \cup {None}]
    BY <1>1 DEF Inv, TypeOK, Dates
  <2>3. lts' \in [Regions -> Dates] /\ lts'[r] # 0
    BY <1>1, <1>5, <2>1, <2>2
  <2>4. ASSUME NEW w \in Ways, Due(w, force)
        PROVE  [tags |-> ways[w], kph |-> Speed(w)] \in Levels
    <3>1. ways[w] \in 1 .. MaxDate
      BY <2>2, <2>4, BuildAssumption DEF Due
    <3>2. Speed(w) \in Speeds \cup {None}
      BY <2>2 DEF Speed, Rows
    <3> QED
      BY <3>1, <3>2 DEF Levels
  <2>5. level' \in [Ways -> Levels \cup {None}]
    BY <2>1, <2>2, <2>4
  <2>6. \A w \in Ways : ways[w] # 0 \/ level[w] # None => level'[w] # None
    <3> SUFFICES ASSUME NEW w \in Ways, ways[w] # 0 \/ level[w] # None
                 PROVE  level'[w] # None
      OBVIOUS
    <3>1. CASE Due(w, force)
      BY <3>1, <2>1, <2>4, BuildAssumption
    <3>2. CASE ~Due(w, force)
      BY <3>2, <2>1 DEF Due
    <3> QED
      BY <3>1, <3>2
  <2>7. \A q \in Regions : lts[q] # 0 => lts'[q] # 0
    BY <1>1, <2>1, <2>2, <2>3
  <2>8. AllStay
    BY <1>2, <2>6, <2>7 DEF AllStay, Stays
  <2>9. FirstDate[r] # 0 => osm'[r] # 0 /\ \A w \in Lasting(r, osm'[r]) : level'[w] # None
    <3> SUFFICES ASSUME FirstDate[r] # 0
                 PROVE  osm[r] # 0 /\ \A w \in Lasting(r, osm[r]) : level'[w] # None
      BY <1>2
    <3>1. build.step = 3 /\ Within(build, build.step)
      BY <1>1, FourSteps DEF Inv, TypeOK, Builds, Ahead
    <3>2. Within(build, 1)
      BY <1>1, <3>1, FourSteps, LayersFirst DEF Within, Ahead
    <3>3. osm[r] # 0
      BY <1>1, <3>1, <3>2 DEF Ahead, Told
    <3>4. FirstDate[r] \in Nat /\ osm[r] \in Nat /\ FirstDate[r] <= osm[r]
      BY <1>1, <3>3, DatesAre DEF Inv, TypeOK, Loaded
    <3>5. Lasting(r, osm[r]) \subseteq Ways \cap Extent[r][osm[r]]
      BY <3>4 DEF Lasting
    <3> QED
      BY <1>1, <2>6, <3>3, <3>5 DEF Inv, Loaded
  <2>10. build' \in Builds /\ Filed' /\ Running'
    BY <1>1, <1>2, <1>3, <2>1, <2>3, <2>8, <2>9, ReturnedKeeps DEF Statuses
  <2> QED
    BY <1>2, <2>3, <2>5, <2>10 DEF Inv, TypeOK, Kept, Loaded
<1> QED
  BY <1>4, <1>5

-----------------------------------------------------------------------------
\* Invoke: the records are the manifest's, or none.
LEMMA InvokeKeeps ==
  ASSUME Inv, NEW q \in Regions, NEW command \in Commands, Invoke(q, command)
  PROVE  Inv'
PROOF
<1> DEFINE records == IF Loads(manifest[q]) THEN manifest[q] ELSE NoRecords
           b == [Idle EXCEPT !.region = q, !.command = command, !.records = records]
<1>1. /\ build' = Onward(b, 1) /\ builds' = builds + 1
      /\ UNCHANGED <<extract, tables, manifest, crashes>>
  BY DEF Invoke
<1>2. Told(q, records, lts, osm, level)
  <2>1. CASE Loads(manifest[q])
    BY <2>1 DEF Inv, Filed
  <2>2. CASE ~Loads(manifest[q])
    BY <2>2, IdleIsABuild, FourSteps DEF Told, NoRecords
  <2> QED
    BY <2>1, <2>2
<1>3. b \in Builds /\ b.region = q /\ b.command = command /\ b.records = records
  BY <1>2, IdleIsABuild, BuildAssumption DEF Told, Builds, Idle
<1> HIDE DEF b, records
<1>4. build' \in Builds /\ Goes(build', lts, osm, level)
  BY <1>1, <1>2, <1>3, OnwardAhead
<1> QED
  BY <1>1, <1>4 DEF Inv, TypeOK, Kept, Loaded, Filed, Running, tables

\* A save that begins leaves nothing to read, and keeps the build where it is.
LEMMA TruncateKeeps == ASSUME Inv, Truncate PROVE Inv'
PROOF
<1>1. /\ build.at = "ran" /\ build' = [build EXCEPT !.at = "saving"]
      /\ manifest' = [manifest EXCEPT ![build.region] = Unread]
      /\ UNCHANGED <<extract, tables, builds, crashes>>
  BY DEF Truncate
<1>2. build.region \in Regions /\ Ahead(build) /\ Told(build.region, build.records, lts, osm, level)
  BY <1>1 DEF Inv, Running, Goes, Idle, Ahead
<1>3. /\ build' \in Builds /\ build'.at = "saving" /\ build'.region = build.region
      /\ build'.command = build.command /\ build'.step = build.step /\ build'.records = build.records
  BY <1>1 DEF Inv, TypeOK, Builds
<1>4. Ahead(build')
  BY <1>1, <1>2, <1>3 DEF Ahead, Within
<1>5. manifest' \in [Regions -> Records \cup {Unread}] /\ Filed'
  BY <1>1, <1>2 DEF Inv, TypeOK, Filed, Loads, tables
<1> QED
  BY <1>1, <1>2, <1>3, <1>4, <1>5 DEF Inv, TypeOK, Kept, Loaded, Running, Goes, tables

\* A save that ends leaves the records, and a build whose step did not fail goes on.
LEMMA WriteKeeps == ASSUME Inv, Write PROVE Inv'
PROOF
<1>1. /\ build.at = "saving"
      /\ manifest' = [manifest EXCEPT ![build.region] = build.records]
      /\ build' = IF build.records[Steps[build.step]] = "failed" THEN Idle
                  ELSE Onward(build, build.step + 1)
      /\ UNCHANGED <<extract, tables, builds, crashes>>
  BY DEF Write
<1>2. build.region \in Regions /\ Ahead(build) /\ Told(build.region, build.records, lts, osm, level)
  BY <1>1 DEF Inv, Running, Goes, Idle, Ahead
<1>3. manifest' \in [Regions -> Records \cup {Unread}] /\ Filed'
  BY <1>1, <1>2 DEF Inv, TypeOK, Filed, Told, Loads, tables
<1>4. CASE build.records[Steps[build.step]] = "failed"
  BY <1>1, <1>3, <1>4, IdleIsABuild DEF Inv, TypeOK, Kept, Loaded, Running, Goes, tables
<1>5. CASE build.records[Steps[build.step]] # "failed"
  <2>1. build.step \in 1 .. 4 /\ build \in Builds /\ build.records \in Records
    BY FourSteps DEF Inv, TypeOK, Builds
  <2>2. ASSUME Within(build, 1)  PROVE build.records["layers"] = "done"
    <3>1. CASE build.step = 1
      <4>1. build.records["layers"] \in Statuses
        BY <2>1, FourSteps DEF Records
      <4> QED
        BY <1>1, <1>2, <1>5, <2>2, <3>1, <4>1, FourSteps DEF Ahead, Told, Statuses
    <3>2. CASE build.step # 1
      BY <1>2, <2>2, <3>2 DEF Ahead
    <3> QED
      BY <3>1, <3>2
  <2>3. build.step + 1 \in 1 .. 5 /\ build.command \in Commands
    BY <1>2, <2>1 DEF Ahead
  <2>4. build' \in Builds /\ Goes(build', lts, osm, level)
    BY <1>1, <1>2, <1>5, <2>1, <2>2, <2>3, OnwardAhead
  <2> QED
    BY <1>1, <1>3, <2>4 DEF Inv, TypeOK, Kept, Loaded, Running, tables
<1> QED
  BY <1>4, <1>5

\* Every step keeps the invariant.
LEMMA Step == Inv /\ [Next]_vars => Inv'
PROOF
<1> SUFFICES ASSUME Inv, [Next]_vars PROVE Inv'
  OBVIOUS
<1>1. ASSUME NEW r \in Regions, NewExtract(r)  PROVE Inv'
  <2>1. extract' = [extract EXCEPT ![r] = @ + 1] /\ extract[r] < MaxDate
        /\ UNCHANGED <<tables, manifest, build, builds, crashes>>
    BY <1>1 DEF NewExtract
  <2>2. extract' \in [Regions -> Dates] /\ \A q \in Regions : extract[q] <= extract'[q]
    BY <2>1, BuildAssumption DEF Inv, TypeOK, Dates
  <2>3. extract \in [Regions -> Dates] /\ osm \in [Regions -> Dates]
    BY DEF Inv, TypeOK
  <2>4. \A q \in Regions : /\ FirstDate[q] \in Nat /\ extract[q] \in Nat
                            /\ extract'[q] \in Nat /\ osm[q] \in Nat
    BY <2>2, <2>3, DatesAre
  <2>5. Kept'
    BY <2>2, <2>4 DEF Inv, Kept
  <2>6. Loaded'
    BY <2>1, <2>2, <2>4 DEF Inv, Loaded, tables
  <2> QED
    BY <2>1, <2>2, <2>5, <2>6 DEF Inv, TypeOK, Filed, Running, tables
<1>2. ASSUME NEW r \in Regions, NEW c \in Commands, Invoke(r, c)  PROVE Inv'
  BY <1>2, InvokeKeeps
<1>3. CASE Report \/ Fails \/ Layers \/ Unclaimed \/ SpeedSurveys \/ WayLts
  BY <1>3, ReportKeeps, FailsKeeps, LayersKeeps, UnclaimedKeeps, SurveysKeep, WayLtsKeeps
<1>4. CASE Truncate \/ Write
  BY <1>4, TruncateKeeps, WriteKeeps
<1>5. CASE Crash
  <2>1. build' = Idle /\ crashes' = crashes + 1 /\ UNCHANGED <<extract, tables, manifest, builds>>
    BY <1>5 DEF Crash
  <2> QED
    BY <2>1, IdleIsABuild DEF Inv, TypeOK, Kept, Loaded, Filed, Running, Goes, tables
<1>6. CASE UNCHANGED vars
  BY <1>6 DEF vars, Inv, TypeOK, Kept, Loaded, Filed, Running
<1> QED
  BY <1>1, <1>2, <1>3, <1>4, <1>5, <1>6 DEF Next

\* What the step theorems build on.
THEOREM Always == Spec => []Inv
BY Initially, Step, PTL DEF Spec

\* The tables, the manifests and the build keep their shape: no way is scored that is not
\* loaded, and no build stands at a step that there is not.
THEOREM TypeCorrect == Spec => []TypeOK
<1>1. Inv => TypeOK
  BY DEF Inv
<1> QED
  BY <1>1, Always, PTL

\* What a manifest says is done was committed, however many builds died and wherever.
THEOREM RecordsAreCommitted == Spec => []RecordedIsCommitted
<1>1. Inv => RecordedIsCommitted
  BY DEF Inv, Filed, Told, RecordedIsCommitted, Says
<1> QED
  BY <1>1, Always, PTL

\* A region that had an extract from the start, and whose levels are recorded as done, has
\* a level on every way that was in its extract at every date up to the one loaded last,
\* if nobody scores by --only what was not loaded (step_layers, lts.compute).
THEOREM NoCoverageGap == Spec => []LevelsCoverTheRegion
<1>1. Inv => LevelsCoverTheRegion
  BY DEF Inv, Filed, Told, LevelsCoverTheRegion, Says, Covered
<1> QED
  BY <1>1, Always, PTL

-----------------------------------------------------------------------------
(***************************************************************************)
(* That the levels follow the surveys.  A level that was scored with       *)
(* another speed than its way has is owed by somebody: the records of some *)
(* region, in its manifest or, for the one that is being built, in memory, *)
(* do not say that way_lts is done.                                        *)
(***************************************************************************)
Open(r) ==
  IF build.region = r THEN build.records["way_lts"] # "done"
                      ELSE Loads(manifest[r]) /\ manifest[r]["way_lts"] # "done"
Outdated(w) == level[w] # None /\ level[w].kph # Speed(w)
Owed == crashes = 0 /\ (\E w \in Ways : Outdated(w)) => \E r \in Regions : Open(r)

ScoredIsLoaded == \A w \in Ways : level[w] # None => ways[w] # 0

\* A step that changes no speed and no level owes what was owed.
LEMMA StillOwed ==
  ASSUME Owed, UNCHANGED <<speed, level, crashes>>, \A r \in Regions : Open(r) => Open(r)'
  PROVE  Owed'
BY DEF Owed, Outdated, Speed

\* What a step that returns or raises leaves open: all that was, unless it says that
\* way_lts is done.
LEMMA ReturnedOpens ==
  ASSUME Inv, build.at = "step", UNCHANGED manifest,
         NEW records \in Records, NEW status \in Statuses, Returned(records, status)
  PROVE  /\ build'.region = build.region
         /\ \A r \in Regions \ {build.region} : Open(r)' <=> Open(r)
         /\ \A r \in Regions : r = build.region =>
              IF Steps[build.step] = "way_lts" THEN Open(r)' <=> status # "done"
              ELSE Open(r)' <=> records["way_lts"] # "done"
PROOF
<1>1. Steps[build.step] \in Names /\ "way_lts" \in Names
  BY FourSteps DEF Inv, TypeOK, Builds
<1> DEFINE new == [records EXCEPT ![Steps[build.step]] = status]
<1>2. /\ new \in Records /\ new[Steps[build.step]] = status
      /\ \A n \in Names \ {Steps[build.step]} : new[n] = records[n]
  BY <1>1, Replaced
<1>3. build' = [build EXCEPT !.at = "ran", !.records = new]
  BY DEF Returned
<1> HIDE DEF new
<1>4. build'.region = build.region /\ build'.records = new
  BY <1>3 DEF Inv, TypeOK, Builds
<1> QED
  BY <1>1, <1>2, <1>4 DEF Open

\* So a step that is not way_lts, and clears no record, leaves open what was.
LEMMA ReturnedOwes ==
  ASSUME Inv, Owed, build.at = "step", UNCHANGED <<manifest, speed, level, crashes>>,
         NEW status \in Statuses, Returned(build.records, status),
         Steps[build.step] = "way_lts" => status # "done"
  PROVE  Owed'
PROOF
<1>1. build.records \in Records
  BY DEF Inv, TypeOK, Builds
<1>2. \A r \in Regions : Open(r) => Open(r)'
  BY <1>1, ReturnedOpens DEF Open
<1> QED
  BY <1>2, StillOwed

\* SpeedSurveys: either no speed changed, or the region's way_lts is to be done again.
LEMMA SurveysOwe == ASSUME Inv, Owed, SpeedSurveys PROVE Owed'
PROOF
<1> DEFINE r == build.region
<1>1. r \in Regions /\ build.at = "step" /\ Steps[build.step] = "speed_surveys"
  BY DEF Inv, Running, Goes, Idle, Ahead, SpeedSurveys, At
<1>2. UNCHANGED <<level, manifest, crashes>>
  BY DEF SpeedSurveys
<1>3. PICK answer \in Surveys :
        /\ speed' = Merged(r, Matched(answer))
        /\ Returned(Popped(build.records, r, Matched(answer)), "done")
  BY DEF SpeedSurveys
<1>4. build.records \in Records
  BY DEF Inv, TypeOK, Builds
<1>5. CASE RowsOf(r) = Matched(answer)
  <2>1. speed' = speed
    <3>1. \A w \in Ways : speed[w] \in Rows \cup {None}
      BY DEF Inv, TypeOK
    <3>2. ASSUME NEW w \in Ways
          PROVE  speed[w] = IF RowsOf(r)[w] # None THEN [kph |-> RowsOf(r)[w], region |-> r]
                            ELSE speed[w]
      BY <3>1 DEF RowsOf, Rows
    <3>3. ASSUME NEW w \in Ways  PROVE speed'[w] = speed[w]
      BY <1>3, <1>5, <3>2 DEF Merged
    <3>4. speed' = [w \in Ways |-> speed'[w]] /\ speed = [w \in Ways |-> speed[w]]
      BY <1>3 DEF Merged, Inv, TypeOK
    <3> QED
      BY <3>3, <3>4
  <2>2. Returned(build.records, "done")
    BY <1>3, <1>5 DEF Popped
  <2> QED
    BY <1>1, <1>2, <2>1, <2>2, ReturnedOwes DEF Statuses
<1>6. CASE RowsOf(r) # Matched(answer)
  <2> DEFINE cleared == [build.records EXCEPT !["way_lts"] = "none"]
  <2>1. cleared \in Records /\ cleared["way_lts"] = "none"
    BY <1>4, FourSteps DEF Records, Statuses
  <2>2. Returned(cleared, "done")
    BY <1>3, <1>6 DEF Popped
  <2> HIDE DEF cleared
  <2>3. \A q \in Regions : q = r => Open(q)'
    BY <1>1, <1>2, <2>1, <2>2, ReturnedOpens DEF Statuses
  <2> QED
    BY <1>1, <2>3 DEF Owed
<1> QED
  BY <1>5, <1>6

\* WayLts: either it says that it is not done, or every level has its way's speed.
LEMMA WayLtsOwes == ASSUME Inv, ScoredIsLoaded, Owed, WayLts PROVE Owed'
PROOF
<1> DEFINE r == build.region  force == build.command.force
<1>1. build.at = "step" /\ Steps[build.step] = "way_lts" /\ UNCHANGED <<manifest, speed, crashes>>
  BY DEF WayLts, At
<1>2. CASE extract[r] = 0
  BY <1>1, <1>2, ReturnedOwes DEF WayLts, Returns, Statuses
<1>3. CASE extract[r] # 0
  <2>1. level' = [w \in Ways |-> IF Due(w, force) THEN [tags |-> ways[w], kph |-> Speed(w)]
                                 ELSE level[w]]
    BY <1>3 DEF WayLts
  <2>2. ASSUME NEW w \in Ways  PROVE ~Outdated(w)'
    <3>1. Speed(w)' = Speed(w)
      BY <1>1 DEF Speed
    <3>2. CASE Due(w, force)
      BY <2>1, <3>1, <3>2 DEF Outdated
    <3>3. CASE ~Due(w, force)
      BY <2>1, <3>1, <3>3 DEF Outdated, Due, ScoredIsLoaded
    <3> QED
      BY <3>2, <3>3
  <2> QED
    BY <2>2 DEF Owed
<1> QED
  BY <1>2, <1>3

\* Invoke: the records in memory are those of the manifest, which nobody touches.
LEMMA InvokeOwes ==
  ASSUME Inv, Owed, NEW q \in Regions, NEW command \in Commands, Invoke(q, command)
  PROVE  Owed'
PROOF
<1> DEFINE records == IF Loads(manifest[q]) THEN manifest[q] ELSE NoRecords
           b == [Idle EXCEPT !.region = q, !.command = command, !.records = records]
<1>1. /\ build = Idle /\ build' = Onward(b, 1)
      /\ UNCHANGED <<extract, tables, manifest, crashes>>
  BY DEF Invoke
<1>2. records \in Records
  BY IdleIsABuild DEF Inv, TypeOK, Loads
<1>3. b \in Builds /\ b.region = q /\ b.records = records
  BY <1>2, IdleIsABuild, BuildAssumption DEF Builds, Idle
<1> HIDE DEF b
<1>4. build' = Idle \/ (build'.region = q /\ build'.records = records)
  <2>1. build' = Idle \/ \E j \in 1 .. 4 : build' = [b EXCEPT !.at = "step", !.step = j]
    <3>1. 1 \in 1 .. 5
      OBVIOUS
    <3> QED
      BY <1>1, <1>3, <3>1, OnwardGoes
  <2>2. ASSUME NEW j, build' = [b EXCEPT !.at = "step", !.step = j]
        PROVE  build'.region = q /\ build'.records = records
    BY <1>3, <2>2 DEF Builds
  <2> QED
    BY <2>1, <2>2
<1>5. Idle.region \notin Regions
  BY BuildAssumption DEF Idle
<1>6. ASSUME NEW r \in Regions, Open(r)  PROVE Open(r)'
  <2>1. Loads(manifest[r]) /\ manifest[r]["way_lts"] # "done"
    BY <1>1, <1>5, <1>6 DEF Open
  <2> QED
    BY <1>1, <1>4, <1>5, <2>1 DEF Open
<1> QED
  BY <1>1, <1>6, StillOwed DEF tables

\* Truncate: what is in memory stands for the file that is cut short.
LEMMA TruncateOwes == ASSUME Inv, Owed, Truncate PROVE Owed'
PROOF
<1>1. /\ build.at = "ran" /\ build' = [build EXCEPT !.at = "saving"]
      /\ manifest' = [manifest EXCEPT ![build.region] = Unread]
      /\ UNCHANGED <<extract, tables, builds, crashes>>
  BY DEF Truncate
<1>2. build'.region = build.region /\ build'.records = build.records
  BY <1>1 DEF Inv, TypeOK, Builds
<1>3. \A r \in Regions : Open(r) => Open(r)'
  BY <1>1, <1>2 DEF Open, Inv, TypeOK
<1> QED
  BY <1>1, <1>3, StillOwed DEF tables

\* Write: and becomes the file.
LEMMA WriteOwes == ASSUME Inv, Owed, Write PROVE Owed'
PROOF
<1>1. /\ build.at = "saving"
      /\ manifest' = [manifest EXCEPT ![build.region] = build.records]
      /\ build' = IF build.records[Steps[build.step]] = "failed" THEN Idle
                  ELSE Onward(build, build.step + 1)
      /\ UNCHANGED <<extract, tables, builds, crashes>>
  BY DEF Write
<1>2. build.region \in Regions /\ build \in Builds /\ build.records \in Records
  BY <1>1 DEF Inv, TypeOK, Builds, Running, Goes, Idle, Ahead
<1>3. build' = Idle \/ (build'.region = build.region /\ build'.records = build.records)
  <2>1. build.step + 1 \in 1 .. 5
    BY <1>2, FourSteps DEF Builds
  <2>2. ASSUME NEW j, build' = [build EXCEPT !.at = "step", !.step = j]
        PROVE  build'.region = build.region /\ build'.records = build.records
    BY <1>2, <2>2 DEF Builds
  <2> QED
    BY <1>1, <1>2, <2>1, <2>2, OnwardGoes
<1>4. Idle.region \notin Regions /\ Loads(build.records)
  BY <1>2, BuildAssumption DEF Idle, Loads
<1>5. ASSUME NEW r \in Regions, Open(r)  PROVE Open(r)'
  <2>1. CASE r = build.region
    <3>1. manifest'[r] = build.records /\ build.records["way_lts"] # "done"
      BY <1>1, <1>2, <1>5, <2>1 DEF Open, Inv, TypeOK
    <3> QED
      BY <1>3, <1>4, <2>1, <3>1 DEF Open
  <2>2. CASE r # build.region
    <3>1. manifest'[r] = manifest[r] /\ build'.region # r
      BY <1>1, <1>2, <1>3, <1>4, <2>2 DEF Inv, TypeOK
    <3> QED
      BY <1>5, <2>2, <3>1 DEF Open
  <2> QED
    BY <2>1, <2>2
<1> QED
  BY <1>1, <1>5, StillOwed DEF tables

\* No way is scored before it is loaded.
LEMMA ScoredStaysLoaded == ASSUME Inv, ScoredIsLoaded, [Next]_vars PROVE ScoredIsLoaded'
PROOF
<1>1. CASE UNCHANGED <<ways, level>>
  BY <1>1 DEF ScoredIsLoaded
<1>2. CASE Layers
  <2>1. ways' = Upserted(build.region) /\ UNCHANGED level
    BY <1>2 DEF Layers
  <2> QED
    BY <2>1 DEF ScoredIsLoaded, Upserted
<1>3. CASE WayLts
  <2>1. \A w \in Ways : level'[w] # None => level[w] # None \/ ways[w] # 0
    BY <1>3 DEF WayLts, Due
  <2>2. UNCHANGED ways
    BY <1>3 DEF WayLts
  <2> QED
    BY <2>1, <2>2 DEF ScoredIsLoaded
<1> QED
  BY <1>1, <1>2, <1>3 DEF Next, NewExtract, Invoke, Report, Fails, Unclaimed, SpeedSurveys,
     Truncate, Write, Crash, vars, tables

\* Every step owes what it leaves undone.
LEMMA StepOwes == ASSUME Inv, ScoredIsLoaded, Owed, [Next]_vars PROVE Owed'
PROOF
<1>1. ASSUME NEW r \in Regions, NewExtract(r)  PROVE Owed'
  BY <1>1, StillOwed DEF NewExtract, tables, Open
<1>2. ASSUME NEW r \in Regions, NEW c \in Commands, Invoke(r, c)  PROVE Owed'
  BY <1>2, InvokeOwes
<1>3. CASE Report
  BY <1>3, ReturnedOwes DEF Report, Returns, At, Statuses, tables
<1>4. CASE Fails
  BY <1>4, ReturnedOwes DEF Fails, Returns, At, Statuses, tables
<1>5. CASE Unclaimed
  BY <1>5, ReturnedOwes DEF Unclaimed, Returns, At, Statuses, tables
<1>6. CASE Layers
  <2>1. PICK status \in {"done", "failed"} : Returned(build.records, status)
    BY <1>6 DEF Layers, Returns
  <2>2. /\ build.at = "step" /\ Steps[build.step] = "layers"
        /\ UNCHANGED <<speed, level, manifest, crashes>>
    BY <1>6 DEF Layers, At
  <2> QED
    BY <2>1, <2>2, ReturnedOwes DEF Statuses
<1>7. CASE SpeedSurveys \/ WayLts \/ Truncate \/ Write
  BY <1>7, SurveysOwe, WayLtsOwes, TruncateOwes, WriteOwes
<1>8. CASE Crash
  BY <1>8 DEF Crash, Owed, Inv, TypeOK
<1>9. CASE UNCHANGED vars
  BY <1>9, StillOwed DEF vars, Open
<1> QED
  BY <1>1, <1>2, <1>3, <1>4, <1>5, <1>6, <1>7, <1>8, <1>9 DEF Next

\* When every region that was built has its levels done, every level was computed with the
\* speed its way has, whichever region's survey that is and however builds failed, were
\* called with --only and called again, if none of them died.
THEOREM LevelsFollowTheSurveys == Spec => []SurveysAreScored
<1>1. Init => ScoredIsLoaded /\ Owed
  BY DEF Init, ScoredIsLoaded, Owed, Outdated
<1>2. Inv /\ ScoredIsLoaded /\ Owed /\ [Next]_vars => (ScoredIsLoaded /\ Owed)'
  BY ScoredStaysLoaded, StepOwes
<1>3. ScoredIsLoaded /\ Owed => SurveysAreScored
  <2>1. Idle.region \notin Regions
    BY BuildAssumption DEF Idle
  <2> QED
    BY <2>1 DEF Owed, Outdated, SurveysAreScored, Settled, Open
<1> QED
  BY <1>1, <1>2, <1>3, Always, PTL DEF Spec

=============================================================================
