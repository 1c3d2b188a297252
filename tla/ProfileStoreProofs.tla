-------------------------- MODULE ProfileStoreProofs -------------------------
(***************************************************************************)
(* What stays in the profile file, for any runner, edits and processes,    *)
(* and any networks.                                                       *)
(*                                                                         *)
(* A saver's text is a copy of the file, taken a step or two before it is  *)
(* written.  The invariant says that one process saves at a time, that     *)
(* what it holds keeps every entry the runner wrote, and that so does the  *)
(* file, unless it stands empty.                                           *)
(***************************************************************************)
EXTENDS ProfileStore, FiniteSetTheorems, WellFoundedInduction, TLAPS

\* No file is not a text, and no block is not an entry.
MarkersMarkNothing ==
  /\ \A S : NoFile \notin [Axes -> S]
  /\ \A value, provenance : Absent # Entry(value, provenance)

Text(t) == t = [a \in Axes |-> t[a]]
\* What the runner wrote is in a text, or a fit is where they wrote a routing vector.
Keeps(t) == \A a \in Axes : said[a] # Absent => t[a] = said[a] \/ (a = "routing" /\ IsFit(t[a]))

Fitting == {"fitted", "passed", "staged"}
Shapes ==
  /\ said = [a \in Axes |-> said[a]]
  /\ \A a \in Axes : said[a] # Absent => said[a].provenance = "stated"
  /\ Exists => Text(file)
  /\ process = [p \in Processes |-> process[p]]
  /\ \A p \in Processes :
       /\ process[p] = [at |-> process[p].at, text |-> process[p].text, entry |-> process[p].entry]
       /\ process[p].at \in Saving => Text(process[p].text)
       /\ process[p].at \in Fitting => \E fit : process[p].entry = Entry(fit, "inferred")
OneSaver == \A p, q \in Processes : process[p].at \in Saving /\ process[q].at \in Saving => p = q
TextsKeep == ~cut => \A p \in Processes : process[p].at \in Saving => Keeps(process[p].text)
FileKeeps ==
  ~cut /\ ~Emptied =>
    /\ (\E a \in Axes : said[a] # Absent) => Exists
    /\ Exists => Keeps(file)
ProfileInv == Shapes /\ OneSaver /\ TextsKeep /\ FileKeeps

LEMMA TextIsAFile == ASSUME MarkersMarkNothing, NEW t, Text(t) PROVE t # NoFile
<1>1. t \in [Axes -> {t[a] : a \in Axes}]
  BY DEF Text
<1> QED  BY <1>1 DEF MarkersMarkNothing

\* A process's record with two of its fields changed.
WithText(r, at, value) == [r EXCEPT !.at = at, !.text = value]
LEMMA TextPlaced ==
  ASSUME NEW r, r = [at |-> r.at, text |-> r.text, entry |-> r.entry], NEW at, NEW value
  PROVE  WithText(r, at, value) = [at |-> at, text |-> value, entry |-> r.entry]
<1> DEFINE moved == [r EXCEPT !.at = at]
<1>1. moved = [at |-> at, text |-> r.text, entry |-> r.entry]
  OBVIOUS
<1>2. WithText(r, at, value) = [moved EXCEPT !.text = value]
  BY DEF WithText
<1> HIDE DEF moved
<1>3. [moved EXCEPT !.text = value] = [at |-> at, text |-> value, entry |-> r.entry]
  BY <1>1
<1> QED  BY <1>2, <1>3

WithEntry(r, at, value) == [r EXCEPT !.at = at, !.entry = value]
LEMMA EntryPlaced ==
  ASSUME NEW r, r = [at |-> r.at, text |-> r.text, entry |-> r.entry], NEW at, NEW value
  PROVE  WithEntry(r, at, value) = [at |-> at, text |-> r.text, entry |-> value]
<1> DEFINE moved == [r EXCEPT !.at = at]
<1>1. moved = [at |-> at, text |-> r.text, entry |-> r.entry]
  OBVIOUS
<1>2. WithEntry(r, at, value) = [moved EXCEPT !.entry = value]
  BY DEF WithEntry
<1> HIDE DEF moved
<1>3. [moved EXCEPT !.entry = value] = [at |-> at, text |-> r.text, entry |-> value]
  BY <1>1
<1> QED  BY <1>2, <1>3

LEMMA IdleIsARecord == Idle = [at |-> Idle.at, text |-> Idle.text, entry |-> Idle.entry]
  BY DEF Idle

LEMMA ProfileInitially == Init => ProfileInv
<1> SUFFICES ASSUME Init PROVE ProfileInv
  OBVIOUS
<1>1. Shapes
  BY DEF Init, Shapes, Empty, Exists, Idle, Saving, Fitting, Axes
<1>2. OneSaver /\ TextsKeep /\ FileKeeps
  BY DEF Init, OneSaver, TextsKeep, FileKeeps, Saving, Idle, Empty, Exists
<1> QED  BY <1>1, <1>2 DEF ProfileInv

LEMMA EditKeeps ==
  ASSUME MarkersMarkNothing, Alone, ProfileInv, NEW axis \in DOMAIN Edits, NEW value, Edit(axis, value)
  PROVE  ProfileInv'
<1> DEFINE entry == IF value = Absent THEN Absent ELSE Entry(value, "stated")
           text == IF Exists THEN file ELSE Empty
<1>1. axis \in Axes
  BY ProfileAssumption
<1>2. /\ file' = [text EXCEPT ![axis] = entry] /\ said' = [said EXCEPT ![axis] = entry]
      /\ process' = process /\ cut' = cut
      /\ \A p \in Processes : process[p].at \notin Saving
  BY DEF Edit
<1>3. Text(text)
  BY DEF ProfileInv, Shapes, Text, Empty
<1>4. /\ Text(file') /\ said' = [a \in Axes |-> said'[a]]
      /\ \A a \in Axes : file'[a] = (IF a = axis THEN entry ELSE text[a])
      /\ \A a \in Axes : said'[a] = (IF a = axis THEN entry ELSE said[a])
  BY <1>1, <1>2, <1>3 DEF Text, ProfileInv, Shapes
<1> HIDE DEF text
<1>5. \A a \in Axes : said'[a] # Absent => said'[a].provenance = "stated"
  BY <1>4 DEF ProfileInv, Shapes, Entry
<1>6. Shapes'
  BY <1>2, <1>4, <1>5 DEF ProfileInv, Shapes
<1>7. OneSaver' /\ TextsKeep'
  BY <1>2 DEF OneSaver, TextsKeep
<1>8. ASSUME ~cut PROVE Keeps(file)' /\ Exists'
  <2>1. ~Emptied
    BY <1>2 DEF Emptied, At, Saving
  <2>2. ASSUME NEW a \in Axes, said[a] # Absent PROVE text[a] = said[a] \/ (a = "routing" /\ IsFit(text[a]))
    BY <1>8, <2>1, <2>2 DEF ProfileInv, FileKeeps, Keeps, text
  <2>3. Keeps(file)'
    BY <1>4, <2>2 DEF Keeps
  <2> QED  BY <1>4, <2>3, TextIsAFile DEF Exists
<1>9. FileKeeps'
  BY <1>2, <1>8 DEF FileKeeps
<1> QED  BY <1>6, <1>7, <1>9 DEF ProfileInv

\* A step of one process that leaves the file as it is, and what was said.
LEMMA ProcessMoves ==
  ASSUME ProfileInv, NEW p \in Processes, NEW record, Goes(p, record), UNCHANGED <<said, file>>,
         record = [at |-> record.at, text |-> record.text, entry |-> record.entry],
         record.at \in Saving => Text(record.text) /\ \A q \in Processes \ {p} : process[q].at \notin Saving,
         record.at \in Fitting => \E fit : record.entry = Entry(fit, "inferred"),
         cut => cut', ~cut' /\ record.at \in Saving => Keeps(record.text),
         ~cut' => (process[p].at = "emptied" <=> record.at = "emptied")
  PROVE  ProfileInv'
<1>1. /\ process' = [q \in Processes |-> process'[q]] /\ process'[p] = record
      /\ \A q \in Processes \ {p} : process'[q] = process[q]
  BY DEF Goes, ProfileInv, Shapes
<1>2. Shapes'
  BY <1>1 DEF ProfileInv, Shapes, Exists
<1>3. OneSaver'
  BY <1>1 DEF ProfileInv, OneSaver
<1>4. TextsKeep'
  BY <1>1 DEF ProfileInv, TextsKeep, Keeps
<1>5. ~cut' => Emptied' = Emptied
  BY <1>1 DEF Emptied, At
<1>6. FileKeeps'
  BY <1>5 DEF ProfileInv, FileKeeps, Keeps, Exists
<1> QED  BY <1>2, <1>3, <1>4, <1>6 DEF ProfileInv

\* A process that writes its text into the file, which keeps what was said.
LEMMA TextIsWritten ==
  ASSUME MarkersMarkNothing, ProfileInv, NEW p \in Processes, process[p].at \in Saving,
         file' = process[p].text, Goes(p, Idle), UNCHANGED <<said, cut>>
  PROVE  ProfileInv'
<1>1. /\ process' = [q \in Processes |-> process'[q]] /\ process'[p] = Idle
      /\ \A q \in Processes \ {p} : process'[q] = process[q] /\ process[q].at \notin Saving
  BY DEF Goes, ProfileInv, Shapes, OneSaver
<1>2. Text(file')
  BY DEF ProfileInv, Shapes
<1>3. Idle = [at |-> Idle.at, text |-> Idle.text, entry |-> Idle.entry] /\ Idle.at \notin Saving \cup Fitting
  BY DEF Idle, Saving, Fitting
<1>4. Shapes'
  BY <1>1, <1>2, <1>3 DEF ProfileInv, Shapes
<1>5. OneSaver' /\ TextsKeep'
  BY <1>1, <1>3 DEF OneSaver, TextsKeep
<1>6. FileKeeps'
  <2>1. Exists'
    BY <1>2, TextIsAFile DEF Exists
  <2>2. ~cut => Keeps(file)'
    BY DEF ProfileInv, TextsKeep, Keeps
  <2> QED  BY <2>1, <2>2 DEF FileKeeps
<1> QED  BY <1>4, <1>5, <1>6 DEF ProfileInv

\* What load_profile makes of a file, and merge of that, keeps what was said.
LEMMA MergeKeeps ==
  ASSUME MarkersMarkNothing, Shapes, (\E a \in Axes : said[a] # Absent) => Exists, Exists => Keeps(file), NEW history
  PROVE  Keeps(Merge(Loaded, [Loaded EXCEPT !["pacing"] = Entry(history, "inferred")]))
<1> DEFINE incoming == [Loaded EXCEPT !["pacing"] = Entry(history, "inferred")]
           text == Merge(Loaded, incoming)
<1> SUFFICES ASSUME NEW a \in Axes, said[a] # Absent
             PROVE  text[a] = said[a] \/ (a = "routing" /\ IsFit(text[a]))
  BY DEF Keeps
<1>1. Exists /\ Loaded = [x \in Axes |-> IF file[x] = Absent THEN Defaults[x] ELSE file[x]]
  BY DEF Loaded, Merged
<1>2. Loaded[a] = said[a] \/ (a = "routing" /\ IsFit(Loaded[a]))
  BY <1>1 DEF Keeps, IsFit
<1>3. CASE a = "pacing"
  <2>1. incoming[a].provenance = "inferred" /\ Loaded[a].provenance = "stated"
    BY <1>1, <1>2, <1>3 DEF Entry, Shapes
  <2>2. ~Supersedes(incoming[a], Loaded[a])
    BY <2>1 DEF Supersedes, Provenance
  <2> QED  BY <1>2, <2>2 DEF Merge
<1>4. CASE a # "pacing"
  <2>1. incoming[a] = Loaded[a]
    BY <1>1, <1>4
  <2> QED  BY <1>2, <2>1 DEF Merge
<1> QED  BY <1>3, <1>4

LEMMA FileKeepsWhenQuiet ==
  ASSUME Alone, ProfileInv, NEW p \in Processes, process[p].at \notin Saving, Quiet(p), ~cut
  PROVE  /\ (\E a \in Axes : said[a] # Absent) => Exists
         /\ Exists => Keeps(file)
<1>1. ~Emptied
  BY DEF Emptied, At, Quiet, Saving
<1> QED  BY <1>1 DEF ProfileInv, FileKeeps

LEMMA IngestLoadsKeeps ==
  ASSUME MarkersMarkNothing, Alone, ProfileInv, NEW p \in Processes, IngestLoads(p)
  PROVE  ProfileInv'
<1> DEFINE text == Merge(Loaded, [Loaded EXCEPT !["pacing"] = Entry("history", "inferred")])
           record == [Idle EXCEPT !.at = "loaded", !.text = text]
<1>1. Goes(p, record) /\ UNCHANGED <<said, file, cut>> /\ At(p, "idle") /\ Quiet(p)
  BY DEF IngestLoads
<1>2. Text(text)
  BY DEF Text, Merge
<1>3. ~cut => Keeps(text)
  <2> SUFFICES ASSUME ~cut PROVE Keeps(text)
    OBVIOUS
  <2>1. process[p].at \notin Saving
    BY <1>1 DEF At, Saving
  <2> QED  BY <1>1, <2>1, FileKeepsWhenQuiet, MergeKeeps DEF ProfileInv
<1>4. record = [at |-> "loaded", text |-> text, entry |-> Idle.entry]
  <2>1. record = WithText(Idle, "loaded", text)
    BY DEF WithText
  <2> QED  BY <2>1, IdleIsARecord, TextPlaced
<1> HIDE DEF text, record
<1>5. /\ record = [at |-> record.at, text |-> record.text, entry |-> record.entry]
      /\ record.at \notin Fitting /\ Text(record.text)
      /\ \A q \in Processes \ {p} : process[q].at \notin Saving
      /\ ~cut' => Keeps(record.text)
      /\ process[p].at # "emptied" /\ record.at # "emptied"
  BY <1>1, <1>2, <1>3, <1>4 DEF Fitting, Quiet, At
<1> QED  BY <1>1, <1>5, ProcessMoves

LEMMA SaveEmptiesKeeps ==
  ASSUME MarkersMarkNothing, ProfileInv, NEW p \in Processes, SaveEmpties(p)
  PROVE  ProfileInv'
<1> DEFINE record == [process[p] EXCEPT !.at = "emptied"]
<1>1. /\ At(p, "loaded") /\ file' = Empty /\ Goes(p, record) /\ UNCHANGED <<said, cut>>
  BY DEF SaveEmpties
<1>2. /\ process' = [q \in Processes |-> process'[q]] /\ process'[p] = record
      /\ \A q \in Processes \ {p} : process'[q] = process[q] /\ process[q].at \notin Saving
  BY <1>1 DEF Goes, ProfileInv, Shapes, OneSaver, At, Saving
<1>3. record = [at |-> "emptied", text |-> process[p].text, entry |-> process[p].entry]
  BY DEF ProfileInv, Shapes
<1>4. Text(process[p].text) /\ (~cut => Keeps(process[p].text))
  BY <1>1 DEF ProfileInv, Shapes, TextsKeep, At, Saving
<1>5. Text(file')
  BY <1>1 DEF Text, Empty
<1> HIDE DEF record
<1>6. Shapes'
  BY <1>1, <1>2, <1>3, <1>4, <1>5 DEF ProfileInv, Shapes, Fitting
<1>7. OneSaver' /\ TextsKeep'
  BY <1>1, <1>2, <1>3, <1>4 DEF OneSaver, TextsKeep, Keeps
<1>8. FileKeeps'
  BY <1>2, <1>3 DEF FileKeeps, Emptied, At
<1> QED  BY <1>6, <1>7, <1>8 DEF ProfileInv

LEMMA TuneFitsKeeps ==
  ASSUME ProfileInv, NEW p \in Processes, NEW labeler, TuneFits(p, labeler)
  PROVE  ProfileInv'
<1>1. PICK fit : /\ Goes(p, [Idle EXCEPT !.at = "fitted", !.entry = Entry(fit, "inferred")])
                 /\ UNCHANGED <<said, file, cut>> /\ At(p, "idle")
  BY DEF TuneFits
<1> DEFINE record == [Idle EXCEPT !.at = "fitted", !.entry = Entry(fit, "inferred")]
<1>2. record = [at |-> "fitted", text |-> Idle.text, entry |-> Entry(fit, "inferred")]
  <2>1. record = WithEntry(Idle, "fitted", Entry(fit, "inferred"))
    BY DEF WithEntry
  <2> QED  BY <2>1, IdleIsARecord, EntryPlaced
<1>3. Goes(p, record)
  BY <1>1
<1> HIDE DEF record
<1>4. /\ record = [at |-> record.at, text |-> record.text, entry |-> record.entry]
      /\ record.entry = Entry(fit, "inferred")
      /\ record.at \notin Saving /\ process[p].at # "emptied" /\ record.at # "emptied"
  BY <1>1, <1>2 DEF Saving, At
<1> QED  BY <1>1, <1>2, <1>3, <1>4, ProcessMoves

\* To where a process holds no text, from where the file was not empty; or to idle, by a
\* death that marks an empty file.
LEMMA ProcessTurns ==
  ASSUME ProfileInv, NEW p \in Processes, UNCHANGED <<said, file>>, cut \/ At(p, "emptied") => cut',
         Goes(p, Idle) \/ (At(p, "fitted") /\ Goes(p, [process[p] EXCEPT !.at = "passed"]))
  PROVE  ProfileInv'
<1>1. CASE Goes(p, Idle)
  <2>1. /\ Idle = [at |-> Idle.at, text |-> Idle.text, entry |-> Idle.entry] /\ Idle.at \notin Saving \cup Fitting
        /\ Idle.at # "emptied"
    BY DEF Idle, Saving, Fitting
  <2> QED  BY <1>1, <2>1, ProcessMoves DEF At
<1>2. CASE At(p, "fitted") /\ Goes(p, [process[p] EXCEPT !.at = "passed"])
  <2> DEFINE record == [process[p] EXCEPT !.at = "passed"]
  <2>1. /\ record = [at |-> "passed", text |-> process[p].text, entry |-> process[p].entry]
        /\ record.at = "passed" /\ record.text = process[p].text /\ record.entry = process[p].entry
    BY DEF ProfileInv, Shapes
  <2>2. Goes(p, record)
    BY <1>2
  <2> HIDE DEF record
  <2>3. \E fit : record.entry = Entry(fit, "inferred")
    BY <1>2, <2>1 DEF ProfileInv, Shapes, At, Fitting
  <2>4. /\ record = [at |-> record.at, text |-> record.text, entry |-> record.entry]
        /\ record.at \notin Saving /\ record.at # "emptied" /\ process[p].at # "emptied"
    BY <1>2, <2>1 DEF Saving, At
  <2> QED  BY <1>2, <2>2, <2>3, <2>4, ProcessMoves DEF At
<1> QED  BY <1>1, <1>2

LEMMA TuneStagesKeeps ==
  ASSUME MarkersMarkNothing, Alone, ProfileInv, NEW p \in Processes, TuneStages(p)
  PROVE  ProfileInv'
<1> DEFINE text == IF Exists THEN file ELSE Empty
           written == [text EXCEPT !["routing"] = process[p].entry]
           record == [process[p] EXCEPT !.at = "staged", !.text = written]
<1>1. /\ At(p, "passed") /\ Quiet(p) /\ UNCHANGED <<said, file, cut>>
      /\ Goes(p, Idle) \/ Goes(p, record)
  BY DEF TuneStages
<1>2. CASE Goes(p, Idle)
  BY <1>1, <1>2, ProcessTurns DEF At
<1>3. CASE Goes(p, record)
  <2>1. PICK fit : process[p].entry = Entry(fit, "inferred")
    BY <1>1 DEF ProfileInv, Shapes, At, Fitting
  <2>2. Text(text)
    BY DEF ProfileInv, Shapes, Text, Empty
  <2>3. ~cut => \A a \in Axes : said[a] # Absent => text[a] = said[a] \/ (a = "routing" /\ IsFit(text[a]))
    <3> SUFFICES ASSUME ~cut, NEW a \in Axes, said[a] # Absent
                 PROVE  text[a] = said[a] \/ (a = "routing" /\ IsFit(text[a]))
      OBVIOUS
    <3>1. process[p].at \notin Saving
      BY <1>1 DEF At, Saving
    <3>2. Exists /\ Keeps(file)
      BY <1>1, <3>1, FileKeepsWhenQuiet
    <3> QED  BY <3>2 DEF Keeps
  <2>4. record = [at |-> "staged", text |-> written, entry |-> process[p].entry]
    <3>1. record = WithText(process[p], "staged", written)
      BY DEF WithText
    <3> QED  BY <3>1, TextPlaced DEF ProfileInv, Shapes
  <2> HIDE DEF record, text
  <2>5. /\ Text(written) /\ written["routing"] = Entry(fit, "inferred")
        /\ \A a \in Axes \ {"routing"} : written[a] = text[a]
    BY <2>1, <2>2 DEF Text, Axes
  <2> HIDE DEF written
  <2>6. IsFit(written["routing"])
    BY <2>5 DEF IsFit, Entry, MarkersMarkNothing
  <2>7. ~cut => Keeps(written)
    BY <2>3, <2>5, <2>6 DEF Keeps
  <2>8. /\ record = [at |-> record.at, text |-> record.text, entry |-> record.entry]
        /\ \A q \in Processes \ {p} : process[q].at \notin Saving
        /\ process[p].at # "emptied" /\ record.at # "emptied"
    BY <1>1, <2>4 DEF Quiet, At
  <2>9. ~cut' => Keeps(record.text)
    BY <1>1, <2>7, <2>4
  <2>10. Goes(p, record)
    BY <1>3 DEF record, written, text
  <2> QED  BY <1>1, <2>1, <2>5, <2>4, <2>8, <2>9, <2>10, ProcessMoves
<1> QED  BY <1>1, <1>2, <1>3

LEMMA ProfileStep == MarkersMarkNothing /\ Alone /\ ProfileInv /\ [Next]_vars => ProfileInv'
<1> SUFFICES ASSUME MarkersMarkNothing, Alone, ProfileInv, [Next]_vars PROVE ProfileInv'
  OBVIOUS
<1>1. ASSUME NEW axis \in DOMAIN Edits, NEW value \in Edits[axis], Edit(axis, value) PROVE ProfileInv'
  BY <1>1, EditKeeps
<1>2. ASSUME NEW p \in Processes, Saves(p) PROVE ProfileInv'
  <2>1. CASE IngestLoads(p)
    BY <2>1, IngestLoadsKeeps
  <2>2. CASE SaveEmpties(p)
    BY <2>2, SaveEmptiesKeeps
  <2>3. CASE SaveFills(p) \/ TuneReplaces(p)
    <3>1. process[p].at \in Saving
      BY <2>3 DEF SaveFills, TuneReplaces, At, Saving
    <3> QED  BY <2>3, <3>1, TextIsWritten DEF SaveFills, TuneReplaces
  <2>4. CASE TuneRedraws(p)
    <3>1. /\ At(p, "fitted") /\ UNCHANGED <<said, file, cut>>
          /\ Goes(p, Idle) \/ Goes(p, [process[p] EXCEPT !.at = "passed"])
      BY <2>4 DEF TuneRedraws
    <3>2. cut \/ At(p, "emptied") => cut'
      BY <3>1 DEF At
    <3> QED  BY <3>1, <3>2, ProcessTurns
  <2>5. CASE TuneStages(p)
    BY <2>5, TuneStagesKeeps
  <2> QED  BY <1>2, <2>1, <2>2, <2>3, <2>4, <2>5 DEF Saves
<1>3. ASSUME NEW p \in Processes, Crash(p) PROVE ProfileInv'
  BY <1>3, ProcessTurns DEF Crash
<1>4. ASSUME NEW p \in Processes, NEW who, TuneFits(p, who) PROVE ProfileInv'
  BY <1>4, TuneFitsKeeps
<1>5. CASE UNCHANGED vars
  BY <1>5 DEF vars, ProfileInv, Shapes, OneSaver, TextsKeep, FileKeeps, Keeps, Exists, Emptied, At
<1> QED  BY <1>1, <1>2, <1>3, <1>4, <1>5 DEF Next

\* As long as no saver overlaps another or the editor (Alone, which nothing in the code sees
\* to), what the runner wrote of an axis is what the file says of it, through every merge and
\* every death but one on the emptied file; only of a routing vector that they stated may a
\* fit take the place (save_profile, save_entry, merge).
THEOREM WhatTheRunnerWroteStands == ASSUME MarkersMarkNothing, Alone PROVE Spec => []StatedStands
<1>1. ProfileInv => StatedStands
  BY DEF ProfileInv, FileKeeps, Keeps, StatedStands
<1>2. ProfileInv /\ [Next]_vars => ProfileInv'
  BY ProfileStep
<1> QED  BY <1>1, <1>2, ProfileInitially, PTL DEF Spec
-----------------------------------------------------------------------------
\* ---- a fit that is in the file
\* A fit that no gate refused, of the answers of the one it is for.
Fitted(fit) ==
  LET own == PairsBy(answers, fit.labeler)
  IN  /\ fit.params = Fit(own, fit.under) /\ fit.pairs = Len(own)
      /\ ~Refused(own, fit.params, fit.under, fit.labeler)
PassedFit(fit) == Fitted(fit) /\ ~RerouteProblems(Rows(fit), fit.under.tolerance)
Passes(e) == IsFit(e) => PassedFit(e.value)
SavedFitPassed == Exists => Passes(file["routing"])

FitShapes ==
  /\ Exists => Text(file)
  /\ process = [p \in Processes |-> process[p]]
  /\ \A p \in Processes :
       /\ process[p] = [at |-> process[p].at, text |-> process[p].text, entry |-> process[p].entry]
       /\ process[p].at \in Saving => Text(process[p].text) /\ Passes(process[p].text["routing"])
       /\ process[p].at \in Fitting =>
            \E fit : process[p].entry = Entry(fit, "inferred") /\ Fitted(fit)
                      /\ (process[p].at # "fitted" => PassedFit(fit))
FitInv == FitShapes /\ SavedFitPassed

LEMMA AnswersStay ==
  ASSUME answers' = answers
  PROVE  /\ \A fit : Fitted(fit)' = Fitted(fit) /\ PassedFit(fit)' = PassedFit(fit)
         /\ \A e : Passes(e)' = Passes(e)
  BY DEF Fitted, PassedFit, Passes, Rows

\* One process moves, and the file is as it was, or empty, or the text of that process.
LEMMA FitMoves ==
  ASSUME FitInv, NEW p \in Processes, NEW record, Goes(p, record), UNCHANGED answers,
         file' = file \/ file' = Empty \/ (process[p].at \in Saving /\ file' = process[p].text),
         record = [at |-> record.at, text |-> record.text, entry |-> record.entry],
         record.at \in Saving => Text(record.text) /\ Passes(record.text["routing"]),
         record.at \in Fitting =>
           \E fit : record.entry = Entry(fit, "inferred") /\ Fitted(fit) /\ (record.at # "fitted" => PassedFit(fit))
  PROVE  FitInv'
<1>1. /\ process' = [q \in Processes |-> process'[q]] /\ process'[p] = record
      /\ \A q \in Processes \ {p} : process'[q] = process[q]
  BY DEF Goes, FitInv, FitShapes
<1>2. Exists' => Text(file') /\ Passes(file'["routing"])
  <2>1. CASE file' = file
    BY <2>1 DEF FitInv, FitShapes, SavedFitPassed, Exists
  <2>2. CASE file' = Empty
    BY <2>2 DEF Text, Empty, Passes, IsFit, Axes
  <2>3. CASE process[p].at \in Saving /\ file' = process[p].text
    BY <2>3 DEF FitInv, FitShapes
  <2> QED  BY <2>1, <2>2, <2>3
<1>3. SavedFitPassed'
  BY <1>2, AnswersStay DEF SavedFitPassed
<1>4. ASSUME NEW q \in Processes
      PROVE  /\ process'[q] = [at |-> process'[q].at, text |-> process'[q].text, entry |-> process'[q].entry]
             /\ process'[q].at \in Saving => Text(process'[q].text) /\ Passes(process'[q].text["routing"])
             /\ process'[q].at \in Fitting =>
                  \E fit : process'[q].entry = Entry(fit, "inferred") /\ Fitted(fit)
                           /\ (process'[q].at # "fitted" => PassedFit(fit))
  <2>1. CASE q = p
    BY <1>1, <2>1
  <2>2. CASE q # p
    BY <1>1, <2>2 DEF FitInv, FitShapes
  <2> QED  BY <2>1, <2>2
<1>5. ASSUME NEW q \in Processes
      PROVE  /\ process'[q] = [at |-> process'[q].at, text |-> process'[q].text, entry |-> process'[q].entry]
             /\ process'[q].at \in Saving => Text(process'[q].text) /\ Passes(process[q].text["routing"])'
             /\ process'[q].at \in Fitting =>
                  \E fit : process'[q].entry = Entry(fit, "inferred") /\ Fitted(fit)'
                           /\ (process'[q].at # "fitted" => PassedFit(fit)')
  BY <1>4, AnswersStay DEF Passes, IsFit
<1>6. FitShapes'
  BY <1>1, <1>2, <1>5 DEF FitShapes, Exists
<1> QED  BY <1>3, <1>6 DEF FitInv

LEMMA FitEdited ==
  ASSUME FitInv, NEW axis \in DOMAIN Edits, NEW value, Edit(axis, value)
  PROVE  FitInv'
<1> DEFINE entry == IF value = Absent THEN Absent ELSE Entry(value, "stated")
           text == IF Exists THEN file ELSE Empty
<1>1. /\ axis \in Axes /\ file' = [text EXCEPT ![axis] = entry] /\ process' = process /\ answers' = answers
  BY ProfileAssumption DEF Edit
<1>2. Text(text) /\ Passes(text["routing"])
  BY DEF FitInv, FitShapes, SavedFitPassed, Text, Empty, Passes, IsFit, Axes
<1> HIDE DEF text
<1>3. Text(file') /\ file'["routing"] = (IF axis = "routing" THEN entry ELSE text["routing"])
  BY <1>1, <1>2 DEF Text, Axes
<1>4. Passes(file'["routing"])
  BY <1>2, <1>3 DEF Passes, IsFit, Entry
<1>5. SavedFitPassed'
  BY <1>1, <1>4, AnswersStay DEF SavedFitPassed
<1>6. FitShapes'
  BY <1>1, <1>3, AnswersStay DEF FitInv, FitShapes, Exists
<1> QED  BY <1>5, <1>6 DEF FitInv

LEMMA FitRests ==
  ASSUME FitInv, NEW p \in Processes, Goes(p, Idle), UNCHANGED answers,
         file' = file \/ (process[p].at \in Saving /\ file' = process[p].text)
  PROVE  FitInv'
<1>1. Idle.at \notin Saving \cup Fitting
  BY DEF Idle, Saving, Fitting
<1> QED  BY <1>1, IdleIsARecord, FitMoves

LEMMA FitIngested == ASSUME FitInv, NEW p \in Processes, IngestLoads(p) PROVE FitInv'
<1> DEFINE incoming == [Loaded EXCEPT !["pacing"] = Entry("history", "inferred")]
           text == Merge(Loaded, incoming)
           record == [Idle EXCEPT !.at = "loaded", !.text = text]
<1>1. Goes(p, record) /\ UNCHANGED <<file, answers>>
  BY DEF IngestLoads
<1>2. Text(text) /\ Passes(text["routing"])
  <2>1. incoming["routing"] = Loaded["routing"]
    BY DEF Loaded, Merged, Defaults
  <2>2. text["routing"] = Loaded["routing"]
    BY <2>1 DEF Merge, Axes
  <2>3. Loaded["routing"] = Defaults["routing"] \/ (Exists /\ Loaded["routing"] = file["routing"])
    BY DEF Loaded, Merged, Axes
  <2>4. Passes(Defaults["routing"])
    BY DEF Passes, IsFit, Defaults, Entry
  <2>5. Text(text)
    BY DEF Text, Merge
  <2> QED  BY <2>2, <2>3, <2>4, <2>5 DEF FitInv, SavedFitPassed
<1>3. record = [at |-> "loaded", text |-> text, entry |-> Idle.entry]
  <2>1. record = WithText(Idle, "loaded", text)
    BY DEF WithText
  <2> QED  BY <2>1, IdleIsARecord, TextPlaced
<1> HIDE DEF text, record
<1>4. /\ record = [at |-> record.at, text |-> record.text, entry |-> record.entry]
      /\ record.at \notin Fitting /\ Text(record.text) /\ Passes(record.text["routing"])
  BY <1>2, <1>3 DEF Fitting
<1> QED  BY <1>1, <1>4, FitMoves

LEMMA FitEmptied == ASSUME FitInv, NEW p \in Processes, SaveEmpties(p) PROVE FitInv'
<1> DEFINE record == [process[p] EXCEPT !.at = "emptied"]
<1>1. Goes(p, record) /\ file' = Empty /\ UNCHANGED answers /\ process[p].at = "loaded"
  BY DEF SaveEmpties, At
<1>2. record = [at |-> "emptied", text |-> process[p].text, entry |-> process[p].entry]
  BY DEF FitInv, FitShapes
<1> HIDE DEF record
<1>3. /\ record = [at |-> record.at, text |-> record.text, entry |-> record.entry]
      /\ record.at \notin Fitting /\ Text(record.text) /\ Passes(record.text["routing"])
  BY <1>1, <1>2 DEF Fitting, Saving, FitInv, FitShapes
<1> QED  BY <1>1, <1>3, FitMoves

LEMMA FitFitted == ASSUME FitInv, NEW p \in Processes, NEW labeler, TuneFits(p, labeler) PROVE FitInv'
<1> DEFINE prefs == Prefs(Loaded)
           pairs == PairsBy(answers, labeler)
           fit == [params |-> Fit(pairs, prefs), labeler |-> labeler, pairs |-> Len(pairs), under |-> prefs]
           record == [Idle EXCEPT !.at = "fitted", !.entry = Entry(fit, "inferred")]
<1>1. /\ Goes(p, record) /\ UNCHANGED <<file, answers>>
      /\ ~Refused(pairs, Fit(pairs, prefs), prefs, labeler)
  BY DEF TuneFits
<1>2. record = [at |-> "fitted", text |-> Idle.text, entry |-> Entry(fit, "inferred")]
  <2>1. record = WithEntry(Idle, "fitted", Entry(fit, "inferred"))
    BY DEF WithEntry
  <2> QED  BY <2>1, IdleIsARecord, EntryPlaced
<1>3. Fitted(fit)
  <2>1. /\ fit.params = Fit(pairs, prefs) /\ fit.labeler = labeler /\ fit.pairs = Len(pairs) /\ fit.under = prefs
    OBVIOUS
  <2> HIDE DEF fit
  <2> QED  BY <1>1, <2>1 DEF Fitted
<1> HIDE DEF fit, record
<1>4. /\ record = [at |-> record.at, text |-> record.text, entry |-> record.entry]
      /\ record.at = "fitted" /\ record.at \notin Saving /\ record.entry = Entry(fit, "inferred")
  BY <1>2 DEF Saving
<1> QED  BY <1>1, <1>3, <1>4, FitMoves

LEMMA FitRedrawn == ASSUME FitInv, NEW p \in Processes, TuneRedraws(p) PROVE FitInv'
<1> DEFINE record == [process[p] EXCEPT !.at = "passed"]
<1>1. PICK fit : process[p].entry = Entry(fit, "inferred") /\ Fitted(fit)
  BY DEF FitInv, FitShapes, TuneRedraws, At, Fitting
<1>2. process[p].entry.value = fit
  BY <1>1 DEF Entry
<1>3. /\ UNCHANGED <<file, answers>>
      /\ \/ Goes(p, Idle)
         \/ Goes(p, record) /\ ~RerouteProblems(Rows(fit), fit.under.tolerance)
  BY <1>2 DEF TuneRedraws
<1>4. CASE Goes(p, Idle)
  BY <1>3, <1>4, FitRests
<1>5. CASE Goes(p, record) /\ ~RerouteProblems(Rows(fit), fit.under.tolerance)
  <2>1. record = [at |-> "passed", text |-> process[p].text, entry |-> process[p].entry]
    BY DEF FitInv, FitShapes
  <2> HIDE DEF record
  <2>2. /\ record = [at |-> record.at, text |-> record.text, entry |-> record.entry]
        /\ record.at \notin Saving /\ record.entry = Entry(fit, "inferred")
    BY <1>1, <2>1 DEF Saving
  <2>3. PassedFit(fit)
    BY <1>1, <1>5 DEF PassedFit
  <2> QED  BY <1>1, <1>3, <1>5, <2>2, <2>3, FitMoves
<1> QED  BY <1>3, <1>4, <1>5

LEMMA FitStaged == ASSUME FitInv, NEW p \in Processes, TuneStages(p) PROVE FitInv'
<1> DEFINE text == IF Exists THEN file ELSE Empty
           written == [text EXCEPT !["routing"] = process[p].entry]
           record == [process[p] EXCEPT !.at = "staged", !.text = written]
<1>1. /\ At(p, "passed") /\ UNCHANGED <<file, answers>>
      /\ Goes(p, Idle) \/ Goes(p, record)
  BY DEF TuneStages
<1>2. PICK fit : process[p].entry = Entry(fit, "inferred") /\ Fitted(fit) /\ PassedFit(fit)
  BY <1>1 DEF FitInv, FitShapes, At, Fitting
<1>3. CASE Goes(p, Idle)
  BY <1>1, <1>3, FitRests
<1>4. CASE Goes(p, record)
  <2>1. Text(text)
    BY DEF FitInv, FitShapes, Text, Empty
  <2>2. record = [at |-> "staged", text |-> written, entry |-> process[p].entry]
    <3>1. record = WithText(process[p], "staged", written)
      BY DEF WithText
    <3> QED  BY <3>1, TextPlaced DEF FitInv, FitShapes
  <2>3. Goes(p, record)
    BY <1>4
  <2> HIDE DEF record, text
  <2>4. Text(written) /\ written["routing"] = Entry(fit, "inferred")
    BY <1>2, <2>1 DEF Text, Axes
  <2>5. Passes(written["routing"])
    BY <1>2, <2>4 DEF Passes, Entry
  <2> HIDE DEF written
  <2>6. /\ record = [at |-> record.at, text |-> record.text, entry |-> record.entry]
        /\ Text(record.text) /\ Passes(record.text["routing"]) /\ record.entry = Entry(fit, "inferred")
    BY <1>2, <2>2, <2>4, <2>5
  <2> QED  BY <1>1, <1>2, <2>3, <2>6, FitMoves
<1> QED  BY <1>1, <1>3, <1>4

LEMMA FitStep == FitInv /\ [Next]_vars => FitInv'
<1> SUFFICES ASSUME FitInv, [Next]_vars PROVE FitInv'
  OBVIOUS
<1>1. ASSUME NEW axis \in DOMAIN Edits, NEW value \in Edits[axis], Edit(axis, value) PROVE FitInv'
  BY <1>1, FitEdited
<1>2. ASSUME NEW p \in Processes, Saves(p) PROVE FitInv'
  <2>1. CASE SaveFills(p) \/ TuneReplaces(p)
    BY <2>1, FitRests DEF SaveFills, TuneReplaces, At, Saving
  <2> QED  BY <1>2, <2>1, FitIngested, FitEmptied, FitRedrawn, FitStaged DEF Saves
<1>3. ASSUME NEW p \in Processes, Crash(p) PROVE FitInv'
  BY <1>3, FitRests DEF Crash
<1>4. ASSUME NEW p \in Processes, NEW who, TuneFits(p, who) PROVE FitInv'
  BY <1>4, FitFitted
<1>5. CASE UNCHANGED vars
  BY <1>5, AnswersStay DEF vars, FitInv, FitShapes, SavedFitPassed, Exists
<1> QED  BY <1>1, <1>2, <1>3, <1>4, <1>5 DEF Next

\* Whatever else is written and whoever dies, a fit in the profile is one that no refusal
\* and no redrawn pair spoke against, of as many answers as it says, of the labeler it
\* names (refusals, RerouteReport.problems, save_entry, merge).
THEOREM OnlyPassedFitsAreSaved == Spec => []SavedFitPassed
<1>1. Init => FitInv
  BY DEF Init, FitInv, FitShapes, SavedFitPassed, Exists, Idle, Saving, Fitting
<1>2. FitInv => SavedFitPassed
  BY DEF FitInv
<1>3. FitInv /\ [Next]_vars => FitInv'
  BY FitStep
<1> QED  BY <1>1, <1>2, <1>3, PTL DEF Spec
-----------------------------------------------------------------------------
\* ---- sums of finitely many numbers
LEMMA LeastOne == ASSUME NEW T, T \subseteq Nat, T # {} PROVE \E x \in T : \A y \in T : x <= y
<1> DEFINE R == {ss \in Nat \X Nat : ss[1] < ss[2]}
<1>1. IsWellFoundedOn(R, Nat)
  BY NatLessThanWellFounded DEF OpToRel
<1> HIDE DEF R
<1>2. PICK x \in T : \A y \in T : <<y, x>> \notin R
  BY <1>1, WFMin
<1>3. ASSUME NEW y \in T PROVE x <= y
  <2>1. <<y, x>> \notin R /\ x \in Nat /\ y \in Nat
    BY <1>2
  <2> QED  BY <2>1 DEF R
<1> QED  BY <1>3

\* What holds of a set when it holds of the set without any one of its elements, holds of
\* every finite set.
LEMMA ByRemoval ==
  ASSUME NEW S, IsFiniteSet(S), NEW T, \A s \in SUBSET S : (\A y \in s : s \ {y} \in T) => s \in T
  PROVE  \A s \in SUBSET S : s \in T
<1> DEFINE sizes == {Cardinality(s) : s \in {r \in SUBSET S : r \notin T}}
<1> SUFFICES ASSUME NEW r \in SUBSET S, r \notin T PROVE FALSE
  OBVIOUS
<1>1. \A s \in SUBSET S : IsFiniteSet(s) /\ Cardinality(s) \in Nat
  BY FS_Subset, FS_CardinalityType
<1>2. sizes \subseteq Nat /\ sizes # {}
  BY <1>1
<1>3. PICK n \in sizes : \A m \in sizes : n <= m
  BY <1>2, LeastOne
<1>4. PICK s \in SUBSET S : s \notin T /\ Cardinality(s) = n
  BY <1>3
<1>5. ASSUME NEW y \in s PROVE s \ {y} \in T
  <2> DEFINE r0 == s \ {y}
  <2>1. Cardinality(r0) = n - 1 /\ n \in Nat
    BY <1>1, <1>2, <1>4, <1>5, FS_RemoveElement
  <2>2. r0 \in SUBSET S /\ Cardinality(r0) \notin sizes
    <3>1. r0 \in SUBSET S
      OBVIOUS
    <3> HIDE DEF r0, sizes
    <3> QED  BY <1>3, <2>1, <3>1
  <2> HIDE DEF r0
  <2>3. r0 \in T
    BY <2>2
  <2> QED  BY <2>3 DEF r0
<1> QED  BY <1>4, <1>5

\* What a sum of the community module Functions is, to be reasoned about.
Numbers(f, S) == IsFiniteSet(S) /\ \A x \in S : f[x] \in Int
First1(s) == CHOOSE x \in s : TRUE
Adds(f, S, g) == \A s \in SUBSET S : g[s] = IF s = {} THEN 0 ELSE f[First1(s)] + g[s \ {First1(s)}]

LEMMA AdderExists ==
  ASSUME NEW f, NEW S, Numbers(f, S)
  PROVE  \E g \in [SUBSET S -> Int] : Adds(f, S, g)
<1> DEFINE Adder(g, n) ==
             \A s \in SUBSET S : Cardinality(s) <= n => g[s] = IF s = {} THEN 0 ELSE f[First1(s)] + g[s \ {First1(s)}]
           lacks == {n \in Nat : ~\E g \in [SUBSET S -> Int] : Adder(g, n)}
<1>1. \A s \in SUBSET S : IsFiniteSet(s) /\ Cardinality(s) \in Nat /\ (s # {} => First1(s) \in s)
  BY FS_Subset, FS_CardinalityType DEF Numbers, First1
<1>2. \A s \in SUBSET S : s # {} =>
        /\ Cardinality(s \ {First1(s)}) = Cardinality(s) - 1 /\ s \ {First1(s)} \in SUBSET S
        /\ f[First1(s)] \in Int
  BY <1>1, FS_RemoveElement DEF Numbers
<1>3. lacks = {}
  <2> SUFFICES ASSUME lacks # {} PROVE FALSE
    OBVIOUS
  <2>1. PICK n \in lacks : \A m \in lacks : n <= m
    BY LeastOne
  <2>2. n # 0
    <3> DEFINE g == [s \in SUBSET S |-> 0]
    <3>1. \A s \in SUBSET S : Cardinality(s) <= 0 => s = {}
      BY <1>1, FS_EmptySet
    <3>2. g \in [SUBSET S -> Int] /\ Adder(g, 0)
      BY <3>1
    <3> QED  BY <3>2
  <2>3. n - 1 \in Nat /\ n - 1 \notin lacks
    <3> HIDE DEF lacks
    <3>1. n \in Nat
      BY DEF lacks
    <3> QED  BY <2>1, <2>2, <3>1
  <2>4. PICK g \in [SUBSET S -> Int] : Adder(g, n - 1)
    BY <2>3
  <2> DEFINE h == [s \in SUBSET S |-> IF Cardinality(s) = n THEN f[First1(s)] + g[s \ {First1(s)}] ELSE g[s]]
  <2>5. \A s \in SUBSET S : Cardinality(s) = n => s # {}
    BY <2>1, <2>2, FS_EmptySet
  <2>6. h \in [SUBSET S -> Int]
    <3> SUFFICES ASSUME NEW s \in SUBSET S
                 PROVE  (IF Cardinality(s) = n THEN f[First1(s)] + g[s \ {First1(s)}] ELSE g[s]) \in Int
      OBVIOUS
    <3>1. CASE Cardinality(s) = n
      <4>1. f[First1(s)] \in Int /\ g[s \ {First1(s)}] \in Int
        BY <1>2, <2>4, <2>5, <3>1
      <4> QED  BY <3>1, <4>1
    <3>2. CASE Cardinality(s) # n
      BY <2>4, <3>2
    <3> QED  BY <3>1, <3>2
  <2>7. ASSUME NEW s \in SUBSET S, Cardinality(s) <= n
        PROVE  h[s] = IF s = {} THEN 0 ELSE f[First1(s)] + h[s \ {First1(s)}]
    <3>1. s # {} => h[s \ {First1(s)}] = g[s \ {First1(s)}]
      BY <1>1, <1>2, <2>1, <2>7
    <3>2. CASE Cardinality(s) = n
      BY <2>5, <3>1, <3>2
    <3>3. CASE Cardinality(s) # n
      <4>1. Cardinality(s) <= n - 1
        BY <1>1, <2>1, <2>7, <3>3
      <4> QED  BY <2>4, <3>1, <3>3, <4>1
    <3> QED  BY <3>2, <3>3
  <2>8. Adder(h, n)
    BY <2>7
  <2> QED  BY <2>1, <2>6, <2>8
<1>4. Cardinality(S) \in Nat /\ \A s \in SUBSET S : Cardinality(s) <= Cardinality(S)
  BY FS_Subset, FS_CardinalityType DEF Numbers
<1>5. PICK g \in [SUBSET S -> Int] : Adder(g, Cardinality(S))
  BY <1>3, <1>4
<1>6. Adds(f, S, g)
  BY <1>4, <1>5 DEF Adds
<1> QED  BY <1>6

LEMMA SumIsAdded ==
  ASSUME NEW f, NEW S, Numbers(f, S)
  PROVE  \E g : Adds(f, S, g) /\ SumFunctionOnSet(f, S) = g[S]
<1> DEFINE Body(g) == [s \in SUBSET S |-> IF s = {} THEN 0 ELSE LET x == CHOOSE x \in s : TRUE IN f[x] + g[s \ {x}]]
           iter[s \in SUBSET S] == IF s = {} THEN 0 ELSE LET x == CHOOSE x \in s : TRUE IN f[x] + iter[s \ {x}]
<1>1. PICK h \in [SUBSET S -> Int] : Adds(f, S, h)
  BY AdderExists
<1>2. h = Body(h)
  BY <1>1 DEF Adds, First1
<1>3. iter = Body(iter)
  BY <1>2
<1>4. SumFunctionOnSet(f, S) = iter[S]
  BY DEF SumFunctionOnSet, FoldFunctionOnSet, MapThenFoldSet
<1> HIDE DEF iter
<1>5. Adds(f, S, iter)
  BY <1>3 DEF Adds, First1
<1> QED  BY <1>4, <1>5

LEMMA SumOfEach ==
  ASSUME NEW f, NEW S, Numbers(f, S)
  PROVE  \A s \in SUBSET S : \A R, g : s \subseteq R /\ Adds(f, R, g) => g[s] = SumFunctionOnSet(f, s)
<1> DEFINE T == {s \in SUBSET S : \A R, g : s \subseteq R /\ Adds(f, R, g) => g[s] = SumFunctionOnSet(f, s)}
<1>1. ASSUME NEW s \in SUBSET S, \A y \in s : s \ {y} \in T PROVE s \in T
  <2> SUFFICES ASSUME NEW R, NEW g, s \subseteq R, Adds(f, R, g) PROVE g[s] = SumFunctionOnSet(f, s)
    OBVIOUS
  <2>1. Numbers(f, s)
    BY FS_Subset DEF Numbers
  <2>2. PICK h : Adds(f, s, h) /\ SumFunctionOnSet(f, s) = h[s]
    BY <2>1, SumIsAdded
  <2>3. CASE s = {}
    BY <2>2, <2>3 DEF Adds
  <2>4. CASE s # {}
    <3> DEFINE x == First1(s)
    <3>1. x \in s
      BY <2>4 DEF First1
    <3>2. g[s \ {x}] = SumFunctionOnSet(f, s \ {x}) /\ h[s \ {x}] = SumFunctionOnSet(f, s \ {x})
      <4>1. s \ {x} \subseteq R /\ s \ {x} \subseteq s
        OBVIOUS
      <4> QED  BY <1>1, <2>2, <3>1, <4>1
    <3>3. g[s] = f[x] + g[s \ {x}] /\ h[s] = f[x] + h[s \ {x}]
      BY <2>2, <2>4 DEF Adds
    <3> QED  BY <2>2, <3>2, <3>3
  <2> QED  BY <2>3, <2>4
<1> HIDE DEF T
<1>2. \A s \in SUBSET S : s \in T
  BY <1>1, ByRemoval DEF Numbers
<1> QED  BY <1>2 DEF T

LEMMA SumOfNothing == ASSUME NEW f PROVE SumFunctionOnSet(f, {}) = 0
<1>1. Numbers(f, {})
  BY FS_EmptySet DEF Numbers
<1>2. PICK g : Adds(f, {}, g) /\ SumFunctionOnSet(f, {}) = g[{}]
  BY <1>1, SumIsAdded
<1> QED  BY <1>2 DEF Adds

LEMMA SumTakesFirst ==
  ASSUME NEW f, NEW S, Numbers(f, S), S # {}
  PROVE  LET x == First1(S) IN x \in S /\ SumFunctionOnSet(f, S) = f[x] + SumFunctionOnSet(f, S \ {x})
<1> DEFINE x == First1(S)
<1>1. x \in S
  BY DEF First1
<1>2. PICK g : Adds(f, S, g) /\ SumFunctionOnSet(f, S) = g[S]
  BY SumIsAdded
<1>3. g[S] = f[x] + g[S \ {x}]
  BY <1>2 DEF Adds
<1>4. S \ {x} \in SUBSET S /\ S \ {x} \subseteq S
  OBVIOUS
<1>5. g[S \ {x}] = SumFunctionOnSet(f, S \ {x})
  BY <1>2, <1>4, SumOfEach
<1> QED  BY <1>1, <1>2, <1>3, <1>5

LEMMA SumIsANumber ==
  ASSUME NEW f, NEW S, Numbers(f, S)
  PROVE  \A s \in SUBSET S : SumFunctionOnSet(f, s) \in Int
<1> DEFINE Sum(s) == SumFunctionOnSet(f, s)
           T == {s \in SUBSET S : Sum(s) \in Int}
<1>1. ASSUME NEW s \in SUBSET S, \A y \in s : s \ {y} \in T PROVE s \in T
  <2>1. Numbers(f, s)
    BY FS_Subset DEF Numbers
  <2>2. CASE s = {}
    BY <2>2, SumOfNothing
  <2>3. CASE s # {}
    <3> DEFINE x == First1(s)
    <3>1. x \in s /\ Sum(s) = f[x] + Sum(s \ {x})
      BY <2>1, <2>3, SumTakesFirst
    <3>2. Sum(s \ {x}) \in Int /\ f[x] \in Int
      BY <1>1, <2>1, <3>1 DEF Numbers
    <3> HIDE DEF x, Sum
    <3>3. Sum(s) \in Int
      BY <3>1, <3>2
    <3> QED  BY <3>3 DEF Sum
  <2> QED  BY <2>2, <2>3
<1> HIDE DEF T
<1>2. \A s \in SUBSET S : s \in T
  BY <1>1, ByRemoval DEF Numbers
<1> QED  BY <1>2 DEF T

\* Any one of its terms may be taken out of a sum.
LEMMA SumTakesAny ==
  ASSUME NEW f, NEW S, Numbers(f, S)
  PROVE  \A s \in SUBSET S : \A y \in s : SumFunctionOnSet(f, s) = f[y] + SumFunctionOnSet(f, s \ {y})
<1> DEFINE Sum(s) == SumFunctionOnSet(f, s)
           T == {s \in SUBSET S : \A y \in s : Sum(s) = f[y] + Sum(s \ {y})}
<1>1. ASSUME NEW s \in SUBSET S, \A y \in s : s \ {y} \in T PROVE s \in T
  <2> SUFFICES ASSUME NEW y \in s PROVE Sum(s) = f[y] + Sum(s \ {y})
    OBVIOUS
  <2>1. Numbers(f, s) /\ \A r \in SUBSET s : Sum(r) \in Int
    BY FS_Subset, SumIsANumber DEF Numbers
  <2> DEFINE x == First1(s)
  <2>2. x \in s /\ Sum(s) = f[x] + Sum(s \ {x})
    BY <2>1, SumTakesFirst
  <2> HIDE DEF x, Sum
  <2>3. CASE y # x
    <3>1. Sum(s \ {x}) = f[y] + Sum((s \ {x}) \ {y}) /\ Sum(s \ {y}) = f[x] + Sum((s \ {y}) \ {x})
      BY <1>1, <2>2, <2>3
    <3>2. (s \ {y}) \ {x} = (s \ {x}) \ {y}
      OBVIOUS
    <3>3. f[x] \in Int /\ f[y] \in Int /\ Sum((s \ {x}) \ {y}) \in Int
      BY <2>1, <2>2 DEF Numbers
    <3>4. \A a, b, c \in Int : a + (b + c) = b + (a + c)
      OBVIOUS
    <3>5. Sum(s) = f[x] + (f[y] + Sum((s \ {x}) \ {y}))
      BY <2>2, <3>1
    <3>6. Sum(s \ {y}) = f[x] + Sum((s \ {x}) \ {y})
      BY <3>1, <3>2
    <3> QED  BY <3>3, <3>4, <3>5, <3>6
  <2>4. CASE y = x
    BY <2>2, <2>4
  <2> QED  BY <2>3, <2>4
<1> HIDE DEF T
<1>2. \A s \in SUBSET S : s \in T
  BY <1>1, ByRemoval DEF Numbers
<1> QED  BY <1>2 DEF T

LEMMA SumIsNatural ==
  ASSUME NEW f, NEW S, IsFiniteSet(S), \A x \in S : f[x] \in Nat
  PROVE  SumFunctionOnSet(f, S) \in Nat /\ \A x \in S : f[x] <= SumFunctionOnSet(f, S)
<1> DEFINE Sum(s) == SumFunctionOnSet(f, s)
           T == {s \in SUBSET S : Sum(s) \in Nat}
<1>1. Numbers(f, S)
  BY DEF Numbers
<1>2. \A s \in SUBSET S : \A y \in s : Sum(s) = f[y] + Sum(s \ {y})
  BY <1>1, SumTakesAny, ZenonT(30)
<1>3. Sum({}) = 0
  BY SumOfNothing
<1> HIDE DEF Sum
<1>4. ASSUME NEW s \in SUBSET S, \A y \in s : s \ {y} \in T PROVE s \in T
  <2>1. CASE s = {}
    BY <1>3, <2>1
  <2>2. CASE s # {}
    <3>1. PICK y \in s : TRUE
      BY <2>2
    <3>2. Sum(s) = f[y] + Sum(s \ {y}) /\ Sum(s \ {y}) \in Nat /\ f[y] \in Nat
      BY <1>2, <1>4, <3>1
    <3>3. Sum(s) \in Nat
      BY <3>2
    <3> QED  BY <3>3
  <2> QED  BY <2>1, <2>2
<1> HIDE DEF T
<1>5. \A s \in SUBSET S : s \in T
  BY <1>4, ByRemoval
<1>6. \A s \in SUBSET S : Sum(s) \in Nat
  BY <1>5 DEF T
<1>7. ASSUME NEW x \in S PROVE f[x] <= Sum(S)
  <2>1. Sum(S) = f[x] + Sum(S \ {x})
    BY <1>2
  <2>2. Sum(S \ {x}) \in Nat /\ f[x] \in Nat
    BY <1>6
  <2> QED  BY <2>1, <2>2
<1> QED  BY <1>6, <1>7 DEF Sum

LEMMA SumsCompare ==
  ASSUME NEW f, NEW g, NEW S, Numbers(f, S), Numbers(g, S), \A x \in S : f[x] <= g[x]
  PROVE  SumFunctionOnSet(f, S) <= SumFunctionOnSet(g, S)
<1> DEFINE F(s) == SumFunctionOnSet(f, s)
           G(s) == SumFunctionOnSet(g, s)
           T == {s \in SUBSET S : F(s) <= G(s)}
<1>1. \A s \in SUBSET S : \A y \in s : F(s) = f[y] + F(s \ {y}) /\ G(s) = g[y] + G(s \ {y})
  <2>1. \A s \in SUBSET S : \A y \in s : F(s) = f[y] + F(s \ {y})
    BY SumTakesAny, ZenonT(30)
  <2>2. \A s \in SUBSET S : \A y \in s : G(s) = g[y] + G(s \ {y})
    BY SumTakesAny, ZenonT(30)
  <2> QED  BY <2>1, <2>2
<1>2. \A s \in SUBSET S : F(s) \in Int /\ G(s) \in Int
  <2>1. \A s \in SUBSET S : F(s) \in Int
    BY SumIsANumber
  <2>2. \A s \in SUBSET S : G(s) \in Int
    BY SumIsANumber
  <2> QED  BY <2>1, <2>2
<1>3. F({}) = 0 /\ G({}) = 0
  BY SumOfNothing
<1> HIDE DEF F, G
<1>4. ASSUME NEW s \in SUBSET S, \A y \in s : s \ {y} \in T PROVE s \in T
  <2>1. CASE s = {}
    BY <1>3, <2>1
  <2>2. CASE s # {}
    <3>1. PICK y \in s : TRUE
      BY <2>2
    <3> DEFINE r == s \ {y}
    <3>2. F(r) <= G(r) /\ r \in SUBSET S /\ F(s) = f[y] + F(r) /\ G(s) = g[y] + G(r)
      BY <1>1, <1>4, <3>1
    <3> HIDE DEF r
    <3>3. f[y] \in Int /\ g[y] \in Int /\ f[y] <= g[y] /\ F(r) \in Int /\ G(r) \in Int
      BY <1>2, <3>1, <3>2 DEF Numbers
    <3>4. F(s) <= G(s)
      BY <3>2, <3>3
    <3> QED  BY <3>4
  <2> QED  BY <2>1, <2>2
<1> HIDE DEF T
<1>5. S \in T
  <2>1. \A s \in SUBSET S : s \in T
    BY <1>4, ByRemoval DEF Numbers
  <2> QED  BY <2>1
<1> QED  BY <1>5 DEF T, F, G

\* Sums of terms that are so many of one and so many of another.
LEMMA SumsCombine ==
  ASSUME NEW h, NEW f, NEW g, NEW S, Numbers(h, S), Numbers(f, S), Numbers(g, S),
         NEW u \in Int, NEW i \in Int, NEW j \in Int, \A x \in S : h[x] * u = i * f[x] + j * g[x]
  PROVE  SumFunctionOnSet(h, S) * u = i * SumFunctionOnSet(f, S) + j * SumFunctionOnSet(g, S)
<1> DEFINE H(s) == SumFunctionOnSet(h, s)
           F(s) == SumFunctionOnSet(f, s)
           G(s) == SumFunctionOnSet(g, s)
           T == {s \in SUBSET S : H(s) * u = i * F(s) + j * G(s)}
<1>1. \A s \in SUBSET S : \A y \in s : H(s) = h[y] + H(s \ {y})
  BY SumTakesAny, ZenonT(30)
<1>2. \A s \in SUBSET S : \A y \in s : F(s) = f[y] + F(s \ {y})
  BY SumTakesAny, ZenonT(30)
<1>3. \A s \in SUBSET S : \A y \in s : G(s) = g[y] + G(s \ {y})
  BY SumTakesAny, ZenonT(30)
<1>4. \A s \in SUBSET S : H(s) \in Int
  BY SumIsANumber
<1>5. \A s \in SUBSET S : F(s) \in Int
  BY SumIsANumber
<1>6. \A s \in SUBSET S : G(s) \in Int
  BY SumIsANumber
<1>7. H({}) = 0 /\ F({}) = 0 /\ G({}) = 0
  BY SumOfNothing
<1> HIDE DEF H, F, G
<1>8. ASSUME NEW s \in SUBSET S, \A y \in s : s \ {y} \in T PROVE s \in T
  <2>1. CASE s = {}
    BY <1>7, <2>1
  <2>2. CASE s # {}
    <3>1. PICK y \in s : TRUE
      BY <2>2
    <3> DEFINE r == s \ {y}
    <3>2. H(r) * u = i * F(r) + j * G(r) /\ r \in SUBSET S
      BY <1>8, <3>1
    <3>3. H(s) = h[y] + H(r) /\ F(s) = f[y] + F(r) /\ G(s) = g[y] + G(r)
      BY <1>1, <1>2, <1>3, <3>1
    <3> HIDE DEF r
    <3>4. h[y] \in Int /\ f[y] \in Int /\ g[y] \in Int /\ H(r) \in Int /\ F(r) \in Int /\ G(r) \in Int
      BY <1>4, <1>5, <1>6, <3>1, <3>2 DEF Numbers
    <3>5. h[y] * u = i * f[y] + j * g[y]
      BY <3>1
    <3>6. \A a, b, c \in Int : (a + b) * c = a * c + b * c /\ c * (a + b) = c * a + c * b
      OBVIOUS
    <3>7. H(s) * u = h[y] * u + H(r) * u /\ i * F(s) = i * f[y] + i * F(r) /\ j * G(s) = j * g[y] + j * G(r)
      BY <3>3, <3>4, <3>6
    <3>8. \A a, b \in Int : a * b \in Int
      OBVIOUS
    <3>9. /\ i * f[y] \in Int /\ i * F(r) \in Int /\ j * g[y] \in Int /\ j * G(r) \in Int
      BY <3>4, <3>8
    <3>10. H(s) * u = i * F(s) + j * G(s)
      BY <3>2, <3>5, <3>7, <3>9
    <3> QED  BY <3>10
  <2> QED  BY <2>1, <2>2
<1> HIDE DEF T
<1>9. S \in T
  <2>1. \A s \in SUBSET S : s \in T
    BY <1>8, ByRemoval DEF Numbers
  <2> QED  BY <2>1
<1> QED  BY <1>9 DEF T, H, F, G

LEMMA SumsScale ==
  ASSUME NEW f, NEW g, NEW S, Numbers(f, S), Numbers(g, S), NEW p \in Int, NEW q \in Int,
         \A x \in S : f[x] * p = g[x] * q
  PROVE  SumFunctionOnSet(f, S) * p = SumFunctionOnSet(g, S) * q
<1>1. \A x \in S : f[x] * p = q * g[x] + 0 * g[x]
  BY DEF Numbers
<1>2. SumFunctionOnSet(f, S) * p = q * SumFunctionOnSet(g, S) + 0 * SumFunctionOnSet(g, S)
  BY <1>1, SumsCombine
<1>3. SumFunctionOnSet(g, S) \in Int
  BY SumIsANumber
<1> QED  BY <1>2, <1>3

LEMMA SumsAgree ==
  ASSUME NEW f, NEW g, NEW S, Numbers(f, S), \A x \in S : f[x] = g[x]
  PROVE  SumFunctionOnSet(f, S) = SumFunctionOnSet(g, S)
<1>1. Numbers(g, S) /\ \A x \in S : f[x] * 1 = g[x] * 1
  BY DEF Numbers
<1>2. SumFunctionOnSet(f, S) * 1 = SumFunctionOnSet(g, S) * 1
  BY <1>1, SumsScale
<1>3. SumFunctionOnSet(f, S) \in Int
  BY SumIsANumber
<1>4. SumFunctionOnSet(g, S) \in Int
  BY <1>1, SumIsANumber
<1> QED  BY <1>2, <1>3, <1>4

\* The sum over two sets with nothing in common.
LEMMA SumsJoin ==
  ASSUME NEW f, NEW S, Numbers(f, S)
  PROVE  \A X, Y \in SUBSET S : X \cap Y = {} =>
           SumFunctionOnSet(f, X \cup Y) = SumFunctionOnSet(f, X) + SumFunctionOnSet(f, Y)
<1> DEFINE Sum(s) == SumFunctionOnSet(f, s)
           T == {X \in SUBSET S : \A Y \in SUBSET S : X \cap Y = {} => Sum(X \cup Y) = Sum(X) + Sum(Y)}
<1>1. \A s \in SUBSET S : \A y \in s : Sum(s) = f[y] + Sum(s \ {y})
  BY SumTakesAny, ZenonT(30)
<1>2. \A s \in SUBSET S : Sum(s) \in Int
  BY SumIsANumber
<1>3. Sum({}) = 0
  BY SumOfNothing
<1> HIDE DEF Sum
<1>4. ASSUME NEW X \in SUBSET S, \A y \in X : X \ {y} \in T PROVE X \in T
  <2> SUFFICES ASSUME NEW Y \in SUBSET S, X \cap Y = {} PROVE Sum(X \cup Y) = Sum(X) + Sum(Y)
    OBVIOUS
  <2>1. CASE X = {}
    <3>1. X \cup Y = Y
      BY <2>1
    <3> QED  BY <1>2, <1>3, <2>1, <3>1
  <2>2. CASE X # {}
    <3>1. PICK y \in X : TRUE
      BY <2>2
    <3> DEFINE r == X \ {y}
    <3>2. r \in T /\ r \in SUBSET S /\ r \cap Y = {} /\ (X \cup Y) \ {y} = r \cup Y /\ X \cup Y \in SUBSET S
      BY <1>4, <3>1
    <3>3. Sum(X) = f[y] + Sum(r) /\ Sum(X \cup Y) = f[y] + Sum((X \cup Y) \ {y})
      BY <1>1, <3>1, <3>2
    <3> HIDE DEF r
    <3>4. Sum(r \cup Y) = Sum(r) + Sum(Y)
      BY <3>2
    <3>5. Sum(X \cup Y) = f[y] + (Sum(r) + Sum(Y))
      BY <3>2, <3>3, <3>4
    <3>6. f[y] \in Int /\ Sum(r) \in Int /\ Sum(Y) \in Int
      BY <1>2, <3>1, <3>2 DEF Numbers
    <3> QED  BY <3>3, <3>5, <3>6
  <2> QED  BY <2>1, <2>2
<1> HIDE DEF T
<1>5. \A X \in SUBSET S : X \in T
  BY <1>4, ByRemoval DEF Numbers
<1> QED  BY <1>5 DEF T, Sum

LEMMA FiniteRange ==
  ASSUME NEW f, IsFiniteSet(DOMAIN f)
  PROVE  IsFiniteSet(Range(f))
<1> DEFINE g == [x \in DOMAIN f |-> f[x]]
<1>1. g \in Surjection(DOMAIN f, Range(f))
  BY DEF Surjection, Range
<1> QED  BY <1>1, FS_Surjection

\* A sum over things is the sum over their classes.
ByClass(S, m, class, C, of, h, f, g) ==
  /\ Numbers(m, S) /\ C = {class[s] : s \in S} /\ \A c \in C : h[c] \in Int
  /\ \A s \in S : f[s] = m[s] * h[class[s]]
  /\ \A c \in C : of[c] = {s \in S : class[s] = c} /\ g[c] = SumFunctionOnSet(m, of[c]) * h[c]

LEMMA SumsByClass ==
  ASSUME NEW S, NEW m, NEW class, NEW C, NEW of, NEW h, NEW f, NEW g, ByClass(S, m, class, C, of, h, f, g)
  PROVE  IsFiniteSet(C) /\ SumFunctionOnSet(f, S) = SumFunctionOnSet(g, C)
<1> DEFINE Of(c) == {s \in S : class[s] = c}
           Within(B) == {s \in S : class[s] \in B}
           T == {B \in SUBSET C : SumFunctionOnSet(f, Within(B)) = SumFunctionOnSet(g, B)}
<1> USE DEF ByClass
<1>1. IsFiniteSet(C)
  <2> DEFINE classes == [s \in S |-> class[s]]
  <2>1. C = Range(classes) /\ DOMAIN classes = S
    BY DEF Range
  <2>2. IsFiniteSet(S)
    BY DEF Numbers
  <2> HIDE DEF classes
  <2> QED  BY <2>1, <2>2, FiniteRange
<1>2. Numbers(f, S)
  BY DEF Numbers
<1>3. \A c \in C : g[c] = SumFunctionOnSet(m, Of(c)) * h[c]
  OBVIOUS
<1>4. \A c \in C : SumFunctionOnSet(m, Of(c)) \in Int
  <2>1. \A c \in C : Of(c) \in SUBSET S
    OBVIOUS
  <2> HIDE DEF Of
  <2> QED  BY <2>1, SumIsANumber
<1>5. Numbers(g, C)
  <2> HIDE DEF Of
  <2>1. \A c \in C : g[c] \in Int
    BY <1>3, <1>4
  <2> QED  BY <1>1, <2>1 DEF Numbers
<1>6. \A c \in C : SumFunctionOnSet(f, Of(c)) = g[c]
  <2> SUFFICES ASSUME NEW c \in C PROVE SumFunctionOnSet(f, Of(c)) = g[c]
    OBVIOUS
  <2>1. Of(c) \in SUBSET S /\ h[c] \in Int /\ \A s \in Of(c) : f[s] = m[s] * h[c]
    OBVIOUS
  <2>2. g[c] = SumFunctionOnSet(m, Of(c)) * h[c] /\ SumFunctionOnSet(m, Of(c)) \in Int
    BY <1>3, <1>4
  <2> HIDE DEF Of
  <2>3. Numbers(f, Of(c)) /\ Numbers(m, Of(c)) /\ \A s \in Of(c) : f[s] * 1 = m[s] * h[c]
    BY <1>2, <2>1, FS_Subset DEF Numbers
  <2>4. SumFunctionOnSet(f, Of(c)) * 1 = SumFunctionOnSet(m, Of(c)) * h[c]
    BY <2>1, <2>3, SumsScale
  <2>5. Of(c) \in SUBSET Of(c)
    OBVIOUS
  <2>6. SumFunctionOnSet(f, Of(c)) \in Int
    BY <2>3, <2>5, SumIsANumber
  <2> QED  BY <2>2, <2>4, <2>6
<1>7. \A X, Y \in SUBSET S : X \cap Y = {} =>
        SumFunctionOnSet(f, X \cup Y) = SumFunctionOnSet(f, X) + SumFunctionOnSet(f, Y)
  BY ONLY <1>2, SumsJoin
<1>8. \A B \in SUBSET C : \A c \in B : SumFunctionOnSet(g, B) = g[c] + SumFunctionOnSet(g, B \ {c})
  BY ONLY <1>5, SumTakesAny, ZenonT(30)
<1>9. ASSUME NEW B \in SUBSET C, \A c \in B : B \ {c} \in T PROVE B \in T
  <2>1. CASE B = {}
    <3>1. Within(B) = {}
      BY <2>1
    <3> HIDE DEF Within
    <3> QED  BY <2>1, <3>1, SumOfNothing
  <2>2. CASE B # {}
    <3>1. PICK c \in B : TRUE
      BY <2>2
    <3> DEFINE r == B \ {c}
    <3>2. /\ Within(B) = Of(c) \cup Within(r) /\ Of(c) \cap Within(r) = {}
          /\ Of(c) \in SUBSET S /\ Within(r) \in SUBSET S
      BY <3>1
    <3>3. r \in T /\ c \in C
      BY <1>9, <3>1
    <3>4. SumFunctionOnSet(g, B) = g[c] + SumFunctionOnSet(g, r)
      BY <1>8, <3>1
    <3> HIDE DEF r, Within, Of
    <3>5. SumFunctionOnSet(f, Within(B)) = SumFunctionOnSet(f, Of(c)) + SumFunctionOnSet(f, Within(r))
      BY <1>7, <3>2
    <3>6. SumFunctionOnSet(f, Within(r)) = SumFunctionOnSet(g, r)
      BY <3>3
    <3>7. SumFunctionOnSet(f, Within(B)) = SumFunctionOnSet(g, B)
      BY <1>6, <3>3, <3>4, <3>5, <3>6
    <3> QED  BY <3>7
  <2> QED  BY <2>1, <2>2
<1>10. C \in T
  <2> HIDE DEF T
  <2>1. \A B \in SUBSET C : B \in T
    BY <1>1, <1>9, ByRemoval
  <2> QED  BY <2>1
<1>11. Within(C) = S
  OBVIOUS
<1>12. SumFunctionOnSet(f, S) = SumFunctionOnSet(g, C)
  BY <1>10, <1>11
<1> QED  BY <1>1, <1>12

-----------------------------------------------------------------------------
\* ---- powers of two
Doubles(f, n) == f \in [0 .. n -> Nat \ {0}] /\ \A i \in 0 .. n : f[i] = IF i = 0 THEN 1 ELSE 2 * f[i - 1]

LEMMA DoublerExists == \A n \in Nat : \E f : Doubles(f, n)
<1> DEFINE lacks == {n \in Nat : ~\E f : Doubles(f, n)}
<1> SUFFICES ASSUME lacks # {} PROVE FALSE
  OBVIOUS
<1>1. PICK n \in lacks : \A m \in lacks : n <= m
  BY LeastOne
<1>2. n # 0
  <2> DEFINE f == [i \in 0 .. 0 |-> 1]
  <2>1. Doubles(f, 0)
    BY DEF Doubles
  <2> QED  BY <2>1
<1>3. n - 1 \in Nat /\ n - 1 \notin lacks
  <2> HIDE DEF lacks
  <2>1. n \in Nat
    BY DEF lacks
  <2> QED  BY <1>1, <1>2, <2>1
<1>4. PICK f : Doubles(f, n - 1)
  BY <1>3
<1> DEFINE g == [i \in 0 .. n |-> IF i = n THEN 2 * f[n - 1] ELSE f[i]]
<1>5. g \in [0 .. n -> Nat \ {0}]
  <2> SUFFICES ASSUME NEW i \in 0 .. n PROVE (IF i = n THEN 2 * f[n - 1] ELSE f[i]) \in Nat \ {0}
    OBVIOUS
  <2>1. f[n - 1] \in Nat \ {0}
    BY <1>3, <1>4 DEF Doubles
  <2>2. i # n => f[i] \in Nat \ {0}
    BY <1>1, <1>4 DEF Doubles
  <2> QED  BY <2>1, <2>2
<1>6. ASSUME NEW i \in 0 .. n PROVE g[i] = IF i = 0 THEN 1 ELSE 2 * g[i - 1]
  <2>1. CASE i = n
    BY <1>2, <1>3, <2>1
  <2>2. CASE i # n
    BY <1>1, <1>4, <2>2 DEF Doubles
  <2> QED  BY <2>1, <2>2
<1>7. Doubles(g, n)
  BY <1>5, <1>6 DEF Doubles
<1> QED  BY <1>1, <1>7

LEMMA DoublersAgree ==
  ASSUME NEW f, NEW g, NEW m \in Nat, NEW n \in Nat, Doubles(f, m), Doubles(g, n)
  PROVE  \A i \in Nat : i <= m /\ i <= n => f[i] = g[i]
<1> DEFINE apart == {i \in Nat : i <= m /\ i <= n /\ f[i] # g[i]}
<1> SUFFICES ASSUME apart # {} PROVE FALSE
  OBVIOUS
<1>1. PICK i \in apart : \A j \in apart : i <= j
  BY LeastOne
<1>2. i \in Nat /\ i \in 0 .. m /\ i \in 0 .. n
  OBVIOUS
<1>3. i # 0
  BY <1>1, <1>2 DEF Doubles
<1>4. i - 1 \in Nat /\ i - 1 <= m /\ i - 1 <= n /\ i - 1 \notin apart
  <2> HIDE DEF apart
  <2> QED  BY <1>1, <1>2, <1>3
<1>5. f[i - 1] = g[i - 1]
  BY <1>4
<1>6. f[i] = 2 * f[i - 1] /\ g[i] = 2 * g[i - 1]
  BY <1>2, <1>3 DEF Doubles
<1> QED  BY <1>1, <1>5, <1>6

LEMMA TwoToIs == ASSUME NEW n \in Nat PROVE \E f : Doubles(f, n) /\ TwoTo(n) = f[n]
<1> DEFINE Body(f) == [i \in 0 .. n |-> IF i = 0 THEN 1 ELSE 2 * f[i - 1]]
           power[i \in 0 .. n] == IF i = 0 THEN 1 ELSE 2 * power[i - 1]
<1>1. PICK g : Doubles(g, n)
  BY DoublerExists
<1>2. g = Body(g)
  BY <1>1 DEF Doubles
<1>3. power = Body(power)
  BY <1>2
<1>4. TwoTo(n) = power[n]
  BY DEF TwoTo
<1> HIDE DEF power
<1>5. power = [i \in 0 .. n |-> power[i]] /\ \A i \in 0 .. n : power[i] = IF i = 0 THEN 1 ELSE 2 * power[i - 1]
  BY <1>3
<1> DEFINE apart == {i \in 0 .. n : power[i] # g[i]}
<1>6. apart = {}
  <2> SUFFICES ASSUME apart # {} PROVE FALSE
    OBVIOUS
  <2>1. apart \subseteq Nat
    OBVIOUS
  <2>2. PICK i \in apart : \A j \in apart : i <= j
    BY <2>1, LeastOne
  <2>3. i \in 0 .. n /\ i # 0
    BY <1>1, <1>5 DEF Doubles
  <2>4. i - 1 \in 0 .. n /\ i - 1 \notin apart
    <3> HIDE DEF apart
    <3> QED  BY <2>2, <2>3
  <2>5. power[i - 1] = g[i - 1]
    BY <2>4
  <2>6. power[i] = 2 * power[i - 1] /\ g[i] = 2 * g[i - 1]
    BY <1>1, <1>5, <2>3 DEF Doubles
  <2> QED  BY <2>5, <2>6
<1>7. power[n] = g[n]
  BY <1>6
<1> QED  BY <1>1, <1>4, <1>7

LEMMA TwoToDoubles ==
  /\ TwoTo(0) = 1
  /\ \A n \in Nat : TwoTo(n) \in Nat \ {0} /\ TwoTo(n + 1) = 2 * TwoTo(n)
<1>1. TwoTo(0) = 1
  <2>1. PICK f : Doubles(f, 0) /\ TwoTo(0) = f[0]
    BY TwoToIs
  <2> QED  BY <2>1 DEF Doubles
<1>2. ASSUME NEW n \in Nat PROVE TwoTo(n) \in Nat \ {0} /\ TwoTo(n + 1) = 2 * TwoTo(n)
  <2>1. PICK f : Doubles(f, n) /\ TwoTo(n) = f[n]
    BY TwoToIs
  <2>2. PICK g : Doubles(g, n + 1) /\ TwoTo(n + 1) = g[n + 1]
    BY TwoToIs
  <2>3. f[n] = g[n]
    BY <2>1, <2>2, DoublersAgree
  <2>4. g[n + 1] = 2 * g[n] /\ f[n] \in Nat \ {0}
    BY <2>1, <2>2 DEF Doubles
  <2> QED  BY <2>1, <2>2, <2>3, <2>4
<1> QED  BY <1>1, <1>2

LEMMA TwoToAdds == \A m, n \in Nat : TwoTo(m + n) = TwoTo(m) * TwoTo(n)
<1> SUFFICES ASSUME NEW m \in Nat PROVE \A n \in Nat : TwoTo(m + n) = TwoTo(m) * TwoTo(n)
  OBVIOUS
<1> DEFINE apart == {n \in Nat : TwoTo(m + n) # TwoTo(m) * TwoTo(n)}
<1> SUFFICES ASSUME apart # {} PROVE FALSE
  OBVIOUS
<1>1. PICK n \in apart : \A k \in apart : n <= k
  BY LeastOne
<1>2. n \in Nat /\ n # 0
  BY TwoToDoubles
<1>3. n - 1 \in Nat /\ n - 1 \notin apart
  <2> HIDE DEF apart
  <2> QED  BY <1>1, <1>2
<1> DEFINE k == n - 1
<1>4. TwoTo(m + k) = TwoTo(m) * TwoTo(k)
  BY <1>3
<1>5. k \in Nat /\ n = k + 1 /\ m + n = (m + k) + 1 /\ m + k \in Nat
  BY <1>2, <1>3
<1> HIDE DEF k
<1>6. TwoTo(m + n) = 2 * (TwoTo(m) * TwoTo(k)) /\ TwoTo(n) = 2 * TwoTo(k)
  BY <1>4, <1>5, TwoToDoubles
<1>7. \A a, b \in Int : 2 * (a * b) = a * (2 * b)
  OBVIOUS
<1>8. TwoTo(m) \in Int /\ TwoTo(k) \in Int
  BY <1>5, TwoToDoubles
<1>9. TwoTo(m + n) = TwoTo(m) * TwoTo(n)
  BY <1>6, <1>7, <1>8
<1> QED  BY <1>1, <1>9

-----------------------------------------------------------------------------
\* ---- lines and what they cost
\* A line's summary: so many metres of each of finitely many classes.
Summed(summary) ==
  /\ summary = [c \in DOMAIN summary |-> summary[c]]
  /\ IsFiniteSet(DOMAIN summary) /\ DOMAIN summary # {} /\ DOMAIN summary \subseteq SUBSET ParameterNames
  /\ \A c \in DOMAIN summary : summary[c] \in Nat \ {0}
Laid(line) ==
  /\ IsFiniteSet(line) /\ line # {}
  /\ \A stretch \in line : stretch.m \in Nat \ {0} /\ stretch.effort \in Nat \ {0}

LEMMA MetresAreSome == ASSUME NEW line, Laid(line) PROVE Metres(line) \in Nat \ {0}
<1> DEFINE m == [s \in line |-> s.m]
<1>1. Metres(line) = SumFunctionOnSet(m, line) /\ IsFiniteSet(line) /\ \A s \in line : m[s] \in Nat /\ m[s] >= 1
  BY DEF Metres, SumFunction, Laid
<1>2. PICK s \in line : TRUE
  BY DEF Laid
<1> HIDE DEF m
<1>3. SumFunctionOnSet(m, line) \in Nat /\ m[s] <= SumFunctionOnSet(m, line)
  BY <1>1, SumIsNatural
<1>4. m[s] \in Nat /\ m[s] >= 1
  BY <1>1
<1> HIDE DEF Laid
<1> DEFINE sum == SumFunctionOnSet(m, line)
<1>5. Metres(line) = sum /\ sum \in Nat /\ m[s] <= sum
  BY <1>1, <1>3
<1> HIDE DEF sum
<1> QED  BY <1>4, <1>5

LEMMA SummaryIsSummed == ASSUME NEW line, Laid(line) PROVE Summed(Summary(line))
<1> DEFINE classOf == [s \in line |-> WayClass(s.tags)]
           of(c) == {s \in line : classOf[s] = c}
           classes == {classOf[s] : s \in line}
<1>1. Summary(line) = [c \in classes |-> Metres(of(c))]
  BY DEF Summary
<1>2. IsFiniteSet(classes) /\ classes # {}
  <2>1. classes = Range(classOf) /\ DOMAIN classOf = line
    BY DEF Range
  <2> HIDE DEF classOf, classes
  <2>2. IsFiniteSet(classes)
    BY <2>1, FiniteRange DEF Laid
  <2> QED  BY <2>1, <2>2 DEF Laid, Range
<1>3. classes \subseteq SUBSET ParameterNames
  BY DEF WayClass
<1>4. ASSUME NEW c \in classes PROVE Metres(of(c)) \in Nat \ {0}
  <2> HIDE DEF classOf
  <2>1. IsFiniteSet(of(c)) /\ of(c) # {}
    BY FS_Subset DEF Laid
  <2>2. Laid(of(c))
    BY <2>1 DEF Laid
  <2> QED  BY <2>2, MetresAreSome
<1> HIDE DEF classOf, classes, of
<1>5. DOMAIN Summary(line) = classes /\ \A c \in classes : Summary(line)[c] = Metres(of(c))
  BY <1>1
<1> QED  BY <1>1, <1>2, <1>3, <1>4, <1>5 DEF Summed

LEMMA LengthIsSome == ASSUME NEW summary, Summed(summary) PROVE LengthOf(summary) \in Nat \ {0}
<1>1. LengthOf(summary) = SumFunctionOnSet(summary, DOMAIN summary)
  BY DEF LengthOf, SumFunction
<1>2. PICK c \in DOMAIN summary : summary[c] \in Nat \ {0}
  BY DEF Summed
<1> DEFINE sum == SumFunctionOnSet(summary, DOMAIN summary)
<1>3. sum \in Nat /\ summary[c] <= sum
  BY SumIsNatural DEF Summed
<1> HIDE DEF sum
<1>4. sum \in Nat \ {0}
  BY <1>2, <1>3
<1> QED  BY <1>1, <1>4 DEF sum

-----------------------------------------------------------------------------
\* ---- exponents
\* What a vector does to a way: its multipliers, where they bound nothing but the fit.
Leanings == {v \in [ParameterNames -> Int] : \A p \in ParameterNames : v[p] <= Most}
Part(f, set, p) == IF p \in set THEN f[p] ELSE 0
Total(f, set) ==
  Part(f, set, "lts2") + Part(f, set, "lts3") + Part(f, set, "lts4") + Part(f, set, "unpaved")
    + Part(f, set, "path_bonus") + Part(f, set, "missing_sidewalk")

LEMMA ParametersAreFinite == IsFiniteSet(ParameterNames)
<1> DEFINE p1 == {} \cup {"lts2"}
           p2 == p1 \cup {"lts3"}
           p3 == p2 \cup {"lts4"}
           p4 == p3 \cup {"unpaved"}
           p5 == p4 \cup {"path_bonus"}
           p6 == p5 \cup {"missing_sidewalk"}
<1>1. ParameterNames = p6
  BY DEF ParameterNames
<1>2. IsFiniteSet({})
  BY FS_EmptySet
<1>3. \A S, x : IsFiniteSet(S) => IsFiniteSet(S \cup {x})
  BY FS_AddElement
<1>4. IsFiniteSet(p3)
  BY <1>2, <1>3
<1> HIDE DEF p3
<1>5. IsFiniteSet(p6)
  BY <1>3, <1>4
<1> QED  BY <1>1, <1>5

\* A sum over some of the parameters, term by term.
LEMMA SumOfParts ==
  ASSUME NEW f, \A p \in ParameterNames : f[p] \in Int, NEW set \in SUBSET ParameterNames
  PROVE  SumFunctionOnSet(f, set) = Total(f, set)
<1> DEFINE Sum(s) == SumFunctionOnSet(f, s)
<1>1. Numbers(f, ParameterNames)
  BY ParametersAreFinite DEF Numbers
<1>2. \A s \in SUBSET ParameterNames : \A y \in s : Sum(s) = f[y] + Sum(s \ {y})
  BY <1>1, SumTakesAny, ZenonT(30)
<1>3. \A s \in SUBSET ParameterNames : Sum(s) \in Int
  BY <1>1, SumIsANumber
<1>4. Sum({}) = 0
  BY SumOfNothing
<1> HIDE DEF Sum
<1>5. \A s \in SUBSET ParameterNames : \A p \in ParameterNames : Sum(s) = Part(f, s, p) + Sum(s \ {p})
  <2> SUFFICES ASSUME NEW s \in SUBSET ParameterNames, NEW p \in ParameterNames
               PROVE  Sum(s) = Part(f, s, p) + Sum(s \ {p})
    OBVIOUS
  <2>1. CASE p \in s
    BY <1>2, <2>1 DEF Part
  <2>2. CASE p \notin s
    <3> DEFINE r == s \ {p}
    <3>1. r = s /\ Part(f, s, p) = 0 /\ Sum(s) \in Int
      BY <1>3, <2>2 DEF Part
    <3> HIDE DEF r
    <3>2. Sum(s) = Part(f, s, p) + Sum(r)
      BY <3>1
    <3> QED  BY <3>2 DEF r
  <2> QED  BY <2>1, <2>2
<1> DEFINE s1 == set \ {"lts2"}
           s2 == s1 \ {"lts3"}
           s3 == s2 \ {"lts4"}
           s4 == s3 \ {"unpaved"}
           s5 == s4 \ {"path_bonus"}
           s6 == s5 \ {"missing_sidewalk"}
<1>6. /\ s1 \in SUBSET ParameterNames /\ s2 \in SUBSET ParameterNames /\ s3 \in SUBSET ParameterNames
      /\ s4 \in SUBSET ParameterNames /\ s5 \in SUBSET ParameterNames /\ s6 = {}
  BY DEF ParameterNames
<1>7. /\ Part(f, s1, "lts3") = Part(f, set, "lts3") /\ Part(f, s2, "lts4") = Part(f, set, "lts4")
      /\ Part(f, s3, "unpaved") = Part(f, set, "unpaved") /\ Part(f, s4, "path_bonus") = Part(f, set, "path_bonus")
      /\ Part(f, s5, "missing_sidewalk") = Part(f, set, "missing_sidewalk")
  BY DEF Part
<1>8. /\ "lts2" \in ParameterNames /\ "lts3" \in ParameterNames /\ "lts4" \in ParameterNames
      /\ "unpaved" \in ParameterNames /\ "path_bonus" \in ParameterNames /\ "missing_sidewalk" \in ParameterNames
  BY DEF ParameterNames
<1> HIDE DEF s1, s2, s3, s4, s5, s6
<1>9. /\ Sum(set) = Part(f, set, "lts2") + Sum(s1) /\ Sum(s1) = Part(f, s1, "lts3") + Sum(s2)
      /\ Sum(s2) = Part(f, s2, "lts4") + Sum(s3) /\ Sum(s3) = Part(f, s3, "unpaved") + Sum(s4)
      /\ Sum(s4) = Part(f, s4, "path_bonus") + Sum(s5) /\ Sum(s5) = Part(f, s5, "missing_sidewalk") + Sum(s6)
  BY <1>5, <1>6, <1>8 DEF s1, s2, s3, s4, s5, s6
<1>10. \A p \in ParameterNames : Part(f, set, p) \in Int
  BY DEF Part
<1>11. Sum(s6) = 0
  BY <1>4, <1>6
<1>12. \A a, b, c, d, e, g \in Int : a + (b + (c + (d + (e + (g + 0))))) = a + b + c + d + e + g
  OBVIOUS
<1>13. Sum(set) = Part(f, set, "lts2") + (Part(f, set, "lts3") + (Part(f, set, "lts4") + (Part(f, set, "unpaved")
         + (Part(f, set, "path_bonus") + (Part(f, set, "missing_sidewalk") + 0)))))
  BY <1>7, <1>9, <1>11
<1>14. Sum(set) = Total(f, set)
  BY <1>8, <1>10, <1>12, <1>13 DEF Total
<1> QED  BY <1>14 DEF Sum

LEMMA EffectiveLeans ==
  ASSUME NEW v \in Leanings, NEW surface \in Surfaces
  PROVE  Effective(v, surface) \in Leanings
<1> DEFINE unpaved == Bounded(v["unpaved"] + SurfaceLean[surface])
           path == Bounded(v["path_bonus"] + (IF surface = "dirt" THEN SurfaceLean[surface] ELSE 0))
           one == [v EXCEPT !["unpaved"] = unpaved]
<1>1. \A n \in Int : Bounded(n) \in Int /\ Bounded(n) <= Most
  BY CostingAssumption DEF Bounded, AtMost, AtLeast
<1>2. SurfaceLean[surface] \in Int
  BY DEF SurfaceLean, Surfaces
<1>3. v \in [ParameterNames -> Int] /\ "unpaved" \in ParameterNames /\ "path_bonus" \in ParameterNames
  BY DEF Leanings, ParameterNames
<1>4. unpaved \in Int /\ unpaved <= Most /\ path \in Int /\ path <= Most
  BY <1>1, <1>2, <1>3
<1> HIDE DEF unpaved, path
<1>5. one \in Leanings
  BY <1>3, <1>4 DEF Leanings
<1>6. one["path_bonus"] = v["path_bonus"]
  BY <1>3
<1>7. Effective(v, surface) = [one EXCEPT !["path_bonus"] = path]
  <2>1. Effective(v, surface) = [v EXCEPT !["unpaved"] = unpaved, !["path_bonus"] = path]
    BY DEF Effective, unpaved, path
  <2> QED  BY <2>1
<1> HIDE DEF one
<1>8. [one EXCEPT !["path_bonus"] = path] \in Leanings
  BY <1>4, <1>5 DEF Leanings
<1> QED  BY <1>7, <1>8

\* ---- what a model makes of a class
Applying(model, class) == {t \in model : (t.on \in class) # t.unless}
ModelOf(eff) == UNION {Term(p, eff[p]) : p \in ParameterNames}
\* What one parameter adds to a class's exponent, and what the router's misses of all bonuses.
Gain(eff, class, p) ==
  IF eff[p] < 0 /\ p \in class THEN eff[p] ELSE IF eff[p] > 0 /\ p \notin class THEN -eff[p] ELSE 0
Bonus(eff) == [p \in ParameterNames |-> IF eff[p] > 0 THEN eff[p] ELSE 0]
Lift(eff) == Total(Bonus(eff), ParameterNames)

LEMMA TermsAre ==
  ASSUME NEW eff \in [ParameterNames -> Int], NEW class
  PROVE  /\ \A t \in ModelOf(eff) : t.on \in ParameterNames /\ t.by \in Int /\ t.by < 0
         /\ \A p \in ParameterNames :
              \/ Gain(eff, class, p) = 0 /\ {t \in Applying(ModelOf(eff), class) : t.on = p} = {}
              \/ \E t \in Applying(ModelOf(eff), class) :
                    t.by = Gain(eff, class, p) /\ {u \in Applying(ModelOf(eff), class) : u.on = p} = {t}
<1> DEFINE term(p) == IF eff[p] < 0 THEN [on |-> p, unless |-> FALSE, by |-> eff[p]]
                      ELSE [on |-> p, unless |-> TRUE, by |-> -eff[p]]
<1>1. \A p \in ParameterNames : /\ eff[p] = 0 => Term(p, eff[p]) = {}
                                /\ eff[p] # 0 => Term(p, eff[p]) = {term(p)}
  BY DEF Term
<1>2. \A p \in ParameterNames :
        /\ term(p).on = p /\ term(p).unless = ~(eff[p] < 0)
        /\ term(p).by = IF eff[p] < 0 THEN eff[p] ELSE -eff[p]
  OBVIOUS
<1> HIDE DEF term
<1>3. ASSUME NEW t PROVE t \in ModelOf(eff) <=> \E p \in ParameterNames : eff[p] # 0 /\ t = term(p)
  BY <1>1 DEF ModelOf
<1>4. \A t \in ModelOf(eff) : t.on \in ParameterNames /\ t.by \in Int /\ t.by < 0
  <2> SUFFICES ASSUME NEW t \in ModelOf(eff) PROVE t.on \in ParameterNames /\ t.by \in Int /\ t.by < 0
    OBVIOUS
  <2>1. PICK p \in ParameterNames : eff[p] # 0 /\ t = term(p)
    BY <1>3
  <2>2. t.on = p /\ t.by = IF eff[p] < 0 THEN eff[p] ELSE -eff[p]
    BY <1>2, <2>1
  <2>3. eff[p] \in Int
    OBVIOUS
  <2> QED  BY <2>1, <2>2, <2>3
<1>5. ASSUME NEW p \in ParameterNames
      PROVE  \/ Gain(eff, class, p) = 0 /\ {t \in Applying(ModelOf(eff), class) : t.on = p} = {}
             \/ \E t \in Applying(ModelOf(eff), class) :
                   t.by = Gain(eff, class, p) /\ {u \in Applying(ModelOf(eff), class) : u.on = p} = {t}
  <2>1. \A t : t \in ModelOf(eff) /\ t.on = p <=> eff[p] # 0 /\ t = term(p)
    BY <1>2, <1>3
  <2>2. \A t : t \in Applying(ModelOf(eff), class) /\ t.on = p
                 <=> eff[p] # 0 /\ t = term(p) /\ (p \in class) # ~(eff[p] < 0)
    BY <1>2, <2>1 DEF Applying
  <2>3. eff[p] \in Int
    OBVIOUS
  <2>4. CASE eff[p] # 0 /\ (p \in class) # ~(eff[p] < 0)
    <3>1. term(p) \in Applying(ModelOf(eff), class) /\ {u \in Applying(ModelOf(eff), class) : u.on = p} = {term(p)}
      BY <2>2, <2>4
    <3>2. term(p).by = Gain(eff, class, p)
      BY <1>2, <2>3, <2>4 DEF Gain
    <3> QED  BY <3>1, <3>2
  <2>5. CASE ~(eff[p] # 0 /\ (p \in class) # ~(eff[p] < 0))
    <3>1. {t \in Applying(ModelOf(eff), class) : t.on = p} = {}
      BY <2>2, <2>5
    <3>2. Gain(eff, class, p) = 0
      BY <2>3, <2>5 DEF Gain
    <3> QED  BY <3>1, <3>2
  <2> QED  BY <2>4, <2>5
<1> QED  BY <1>4, <1>5

\* The router's exponent of a class, parameter by parameter.
LEMMA RouterGains ==
  ASSUME NEW eff \in [ParameterNames -> Int], NEW class
  PROVE  RouterExponent(ModelOf(eff), class)
           = SumFunctionOnSet([p \in ParameterNames |-> Gain(eff, class, p)], ParameterNames)
<1> DEFINE A == Applying(ModelOf(eff), class)
           by == [t \in A |-> t.by]
           gain == [p \in ParameterNames |-> Gain(eff, class, p)]
           Terms(P) == {t \in A : t.on \in P}
           T == {P \in SUBSET ParameterNames : IsFiniteSet(Terms(P)) /\ SumFunctionOnSet(by, Terms(P)) = SumFunctionOnSet(gain, P)}
<1>1. Numbers(gain, ParameterNames)
  BY ParametersAreFinite DEF Numbers, Gain
<1>2. \A t \in A : t.on \in ParameterNames /\ by[t] = t.by /\ by[t] \in Int
  BY TermsAre DEF Applying
<1>3. \A p \in ParameterNames :
        \/ gain[p] = 0 /\ {t \in A : t.on = p} = {}
        \/ \E t \in A : t.by = gain[p] /\ {u \in A : u.on = p} = {t}
  BY TermsAre
<1> HIDE DEF A, by, gain
<1>4. \A P \in SUBSET ParameterNames : \A p \in P :
        SumFunctionOnSet(gain, P) = gain[p] + SumFunctionOnSet(gain, P \ {p})
  BY ONLY <1>1, SumTakesAny, ZenonT(30)
<1>5. \A P \in SUBSET ParameterNames : SumFunctionOnSet(gain, P) \in Int
  BY ONLY <1>1, SumIsANumber
<1>6. ASSUME NEW P \in SUBSET ParameterNames, \A p \in P : P \ {p} \in T PROVE P \in T
  <2>1. CASE P = {}
    <3>1. Terms(P) = {}
      BY <2>1
    <3> QED  BY <2>1, <3>1, SumOfNothing, FS_EmptySet
  <2>2. CASE P # {}
    <3>1. PICK p \in P : TRUE
      BY <2>2
    <3> DEFINE R == P \ {p}
    <3>2. IsFiniteSet(Terms(R)) /\ SumFunctionOnSet(by, Terms(R)) = SumFunctionOnSet(gain, R) /\ R \in SUBSET ParameterNames
      BY <1>6, <3>1
    <3>3. SumFunctionOnSet(gain, P) = gain[p] + SumFunctionOnSet(gain, R) /\ SumFunctionOnSet(gain, R) \in Int
      BY <1>4, <1>5, <3>1
    <3>4. CASE gain[p] = 0 /\ {t \in A : t.on = p} = {}
      <4>1. Terms(P) = Terms(R)
        BY <3>4
      <4> HIDE DEF R, Terms
      <4>2. SumFunctionOnSet(gain, P) = SumFunctionOnSet(gain, R)
        BY <3>3, <3>4
      <4>3. IsFiniteSet(Terms(P)) /\ SumFunctionOnSet(by, Terms(P)) = SumFunctionOnSet(gain, P)
        BY <3>2, <4>1, <4>2
      <4> QED  BY <4>3
    <3>5. ASSUME NEW t \in A, t.by = gain[p], {u \in A : u.on = p} = {t} PROVE P \in T
      <4>1. Terms(P) = Terms(R) \cup {t} /\ Terms(R) = Terms(P) \ {t} /\ t \in Terms(P) /\ Terms(P) \subseteq A
        BY <3>1, <3>5
      <4>2. IsFiniteSet(Terms(P))
        BY <3>2, <4>1, FS_AddElement
      <4> HIDE DEF R, Terms
      <4>3. Numbers(by, Terms(P))
        BY <1>2, <4>1, <4>2 DEF Numbers
      <4>4. SumFunctionOnSet(by, Terms(P)) = by[t] + SumFunctionOnSet(by, Terms(P) \ {t})
        <5>1. \A s \in SUBSET Terms(P) : \A y \in s : SumFunctionOnSet(by, s) = by[y] + SumFunctionOnSet(by, s \ {y})
          BY <4>3, SumTakesAny, ZenonT(30)
        <5> QED  BY <4>1, <5>1
      <4>5. SumFunctionOnSet(by, Terms(P)) = SumFunctionOnSet(gain, P)
        BY <1>2, <3>2, <3>3, <3>5, <4>1, <4>4
      <4> QED  BY <4>2, <4>5
    <3> QED  BY <1>3, <3>1, <3>4, <3>5
  <2> QED  BY <2>1, <2>2
<1>7. ParameterNames \in T
  <2> HIDE DEF T
  <2>1. \A P \in SUBSET ParameterNames : P \in T
    BY <1>6, ByRemoval, ParametersAreFinite
  <2> QED  BY <2>1
<1>8. Terms(ParameterNames) = A
  BY <1>2
<1>9. RouterExponent(ModelOf(eff), class) = SumFunctionOnSet(by, A)
  <2>1. RouterExponent(ModelOf(eff), class) = SumFunction(by)
    BY DEF RouterExponent, by, A, Applying
  <2>2. DOMAIN by = A
    BY DEF by
  <2> QED  BY <2>1, <2>2 DEF SumFunction
<1> QED  BY <1>7, <1>8, <1>9 DEF gain

\* The router's exponent is the fitter's, short of all the bonuses, whatever the class.
LEMMA RouterFallsShort ==
  ASSUME NEW eff \in Leanings, NEW class \in SUBSET ParameterNames
  PROVE  /\ Exponent(eff, class) \in Int /\ Exponent(eff, class) <= Unit /\ Lift(eff) \in Nat
         /\ RouterExponent(ModelOf(eff), class) = Exponent(eff, class) - Lift(eff)
         /\ RouterExponent(ModelOf(eff), class) <= 0
<1> DEFINE gain == [p \in ParameterNames |-> Gain(eff, class, p)]
           bonus == Bonus(eff)
<1>1. /\ "lts2" \in ParameterNames /\ "lts3" \in ParameterNames /\ "lts4" \in ParameterNames
      /\ "unpaved" \in ParameterNames /\ "path_bonus" \in ParameterNames /\ "missing_sidewalk" \in ParameterNames
  BY DEF ParameterNames
<1>2. \A p \in ParameterNames :
        /\ eff[p] \in Int /\ eff[p] <= Most /\ gain[p] \in Int /\ bonus[p] \in Nat
        /\ gain[p] = Part(eff, class, p) - Part(bonus, ParameterNames, p) /\ gain[p] <= 0
        /\ Part(gain, ParameterNames, p) = gain[p]
        /\ Part(bonus, ParameterNames, p) \in Nat
        /\ Part(eff, class, p) \in Int /\ Part(eff, class, p) <= Most
  BY CostingAssumption DEF Leanings, Gain, Bonus, Part
<1>3. eff \in [ParameterNames -> Int]
  BY DEF Leanings
<1>4. RouterExponent(ModelOf(eff), class) = SumFunctionOnSet(gain, ParameterNames)
  BY <1>3, RouterGains
<1> HIDE DEF gain, bonus
<1>5. SumFunctionOnSet(gain, ParameterNames) = Total(gain, ParameterNames)
  BY <1>2, SumOfParts
<1>6. SumFunctionOnSet(eff, class) = Total(eff, class)
  BY <1>2, SumOfParts
<1>7. Total(gain, ParameterNames) = Total(eff, class) - Total(bonus, ParameterNames)
  BY <1>1, <1>2 DEF Total
<1>8. Total(gain, ParameterNames) <= 0 /\ Total(bonus, ParameterNames) \in Nat
  BY <1>1, <1>2 DEF Total
<1>9. Total(eff, class) \in Int /\ Total(eff, class) <= Unit
  BY <1>1, <1>2, CostingAssumption DEF Total, Unit
<1> QED  BY <1>4, <1>5, <1>6, <1>7, <1>8, <1>9 DEF Exponent, Lift, bonus

\* What a model says of the parameters it has terms for.
Told(v, surface, hasLts) ==
  [p \in ParameterNames |-> IF hasLts \/ p \notin Levels THEN Effective(v, surface)[p] ELSE 0]

LEMMA ModelsAre ==
  ASSUME NEW v, NEW surface, NEW hasLts \in BOOLEAN
  PROVE  CustomModel(v, surface, hasLts) = ModelOf(Told(v, surface, hasLts))
<1> DEFINE eff == Effective(v, surface)
           told == Told(v, surface, hasLts)
           has == {p \in ParameterNames : hasLts \/ p \notin Levels}
<1>1. \A p \in has : told[p] = eff[p]
  BY DEF Told
<1>2. \A p \in ParameterNames : p \notin has => Term(p, told[p]) = {}
  BY DEF Told, Term
<1> HIDE DEF eff, told
<1>3. UNION {Term(p, eff[p]) : p \in has} = UNION {Term(p, told[p]) : p \in ParameterNames}
  BY <1>1, <1>2
<1> QED  BY <1>3 DEF CustomModel, ModelOf, eff, told

LEMMA ToldLeans ==
  ASSUME NEW v \in Leanings, NEW surface \in Surfaces, NEW hasLts \in BOOLEAN
  PROVE  /\ Told(v, surface, hasLts) \in Leanings
         /\ \A class \in SUBSET ParameterNames : hasLts \/ class \cap Levels = {} =>
              Exponent(Told(v, surface, hasLts), class) = Exponent(Effective(v, surface), class)
<1> DEFINE eff == Effective(v, surface)
           told == Told(v, surface, hasLts)
<1>1. eff \in Leanings
  BY EffectiveLeans
<1>2. /\ told = [p \in ParameterNames |-> told[p]]
      /\ \A p \in ParameterNames : told[p] = IF hasLts \/ p \notin Levels THEN eff[p] ELSE 0
  BY DEF Told
<1> HIDE DEF eff, told
<1>3. \A p \in ParameterNames : eff[p] \in Int /\ told[p] \in Int /\ told[p] <= Most
  BY <1>1, <1>2, CostingAssumption DEF Leanings
<1>4. told \in Leanings
  BY <1>2, <1>3 DEF Leanings
<1>5. ASSUME NEW class \in SUBSET ParameterNames, hasLts \/ class \cap Levels = {}
      PROVE  Exponent(told, class) = Exponent(eff, class)
  <2>1. Numbers(told, class) /\ \A p \in class : told[p] = eff[p]
    BY <1>2, <1>3, <1>5, ParametersAreFinite, FS_Subset DEF Numbers
  <2> QED  BY <2>1, SumsAgree DEF Exponent
<1> QED  BY <1>4, <1>5 DEF eff, told

\* A way whose priority the router is told as the fitter costs it.
Alike(eff, told, class) ==
  class \in SUBSET ParameterNames /\ Exponent(eff, class) >= Least /\ Exponent(told, class) = Exponent(eff, class)

LEMMA WaysAreTold ==
  ASSUME NEW eff, NEW told \in Leanings, NEW class, Alike(eff, told, class)
  PROVE  LET a == Unit - Priority(eff, class)
             b == -RouterExponent(ModelOf(told), class)
         IN  /\ Unit \in Nat /\ Lift(told) \in Nat /\ a \in Nat /\ b \in Nat /\ a + Lift(told) = b + Unit
             /\ TwoTo(a) \in Nat /\ TwoTo(b) \in Nat
             /\ TwoTo(a) * TwoTo(Lift(told)) = TwoTo(b) * TwoTo(Unit)
             /\ Exponent(eff, class) \in Int
             /\ RouterExponent(ModelOf(told), class) = Exponent(eff, class) - Lift(told)
<1> DEFINE e == Exponent(eff, class)
           r == RouterExponent(ModelOf(told), class)
           a == Unit - Priority(eff, class)
           b == -r
<1>1. e \in Int /\ e <= Unit /\ Lift(told) \in Nat /\ r = e - Lift(told) /\ r <= 0 /\ e >= Least
  BY RouterFallsShort DEF Alike
<1>2. Unit \in Nat
  BY CostingAssumption DEF Unit
<1>3. Priority(eff, class) = e
  BY <1>1, CostingAssumption DEF Priority, AtLeast
<1> HIDE DEF e, r
<1>4. a \in Nat /\ b \in Nat /\ a + Lift(told) = b + Unit
  BY <1>1, <1>2, <1>3
<1> HIDE DEF a, b
<1>5. TwoTo(a) \in Nat /\ TwoTo(b) \in Nat
  BY <1>4, TwoToDoubles
<1>6. TwoTo(a) * TwoTo(Lift(told)) = TwoTo(b) * TwoTo(Unit)
  BY <1>1, <1>2, <1>4, TwoToAdds
<1> QED  BY <1>1, <1>2, <1>4, <1>5, <1>6 DEF a, b, e, r

\* The fitter's cost of a line, stretch by stretch.
Strain(eff, s) == TwoTo(Unit - Priority(eff, WayClass(s.tags)))
LEMMA CostByStretch ==
  ASSUME NEW eff, NEW line, Laid(line), \A s \in line : Strain(eff, s) \in Nat
  PROVE  Cost(eff, Summary(line)) = SumFunctionOnSet([s \in line |-> s.m * Strain(eff, s)], line)
<1> DEFINE classOf == [s \in line |-> WayClass(s.tags)]
           C == {classOf[s] : s \in line}
           m == [s \in line |-> s.m]
           h == [c \in C |-> TwoTo(Unit - Priority(eff, c))]
           Of(c) == {s \in line : classOf[s] = c}
           f == [s \in line |-> s.m * Strain(eff, s)]
           of == [c \in C |-> Of(c)]
           cost == [c \in C |-> Summary(line)[c] * TwoTo(Unit - Priority(eff, c))]
<1>1. Summary(line) = [c \in C |-> Metres(Of(c))]
  BY DEF Summary
<1>2. Numbers(m, line) /\ \A c \in C : h[c] \in Int
  BY DEF Numbers, Laid, Strain
<1>3. \A c \in C : Metres(Of(c)) = SumFunctionOnSet(m, Of(c))
  <2> SUFFICES ASSUME NEW c \in C PROVE Metres(Of(c)) = SumFunctionOnSet(m, Of(c))
    OBVIOUS
  <2> DEFINE some == [s \in Of(c) |-> s.m]
  <2>1. Metres(Of(c)) = SumFunctionOnSet(some, Of(c)) /\ \A s \in Of(c) : some[s] = m[s]
    BY DEF Metres, SumFunction
  <2>2. Of(c) \in SUBSET line
    OBVIOUS
  <2> HIDE DEF Of, m, some
  <2>3. Numbers(some, Of(c))
    BY <1>2, <2>1, <2>2, FS_Subset DEF Numbers
  <2> QED  BY <2>1, <2>3, SumsAgree
<1>4. DOMAIN Summary(line) = C /\ \A c \in C : Summary(line)[c] = Metres(Of(c))
  <2> HIDE DEF C, Of
  <2> QED  BY <1>1
<1>5. Cost(eff, Summary(line)) = SumFunctionOnSet(cost, C)
  BY <1>4 DEF Cost, SumFunction
<1>6. \A c \in C : cost[c] = SumFunctionOnSet(m, Of(c)) * h[c]
  <2> HIDE DEF C, Of, m
  <2> QED  BY <1>3, <1>4
<1>7. \A s \in line : f[s] = m[s] * h[classOf[s]]
  BY DEF Strain
<1>8. SumFunctionOnSet(f, line) = SumFunctionOnSet(cost, C)
  <2>1. C = {classOf[s] : s \in line} /\ \A c \in C : of[c] = {s \in line : classOf[s] = c}
    OBVIOUS
  <2>2. \A c \in C : cost[c] = SumFunctionOnSet(m, of[c]) * h[c]
    <3>1. \A c \in C : of[c] = Of(c)
      OBVIOUS
    <3> HIDE DEF C, f, m, h, cost, classOf, of, Of
    <3> QED  BY <1>6, <3>1
  <2> HIDE DEF C, f, m, h, cost, classOf, of
  <2>3. ByClass(line, m, classOf, C, of, h, f, cost)
    BY <1>2, <1>7, <2>1, <2>2 DEF ByClass
  <2> QED  BY <2>3, SumsByClass
<1> QED  BY <1>5, <1>8

\* Of a line of ways that are told as they are costed, and that the router rates alike: what
\* the two weights are made of.
LEMMA WeightsAre ==
  ASSUME NEW eff, NEW told \in Leanings, NEW line, Laid(line), NEW effort \in Nat,
         \A s \in line : s.effort = effort /\ Alike(eff, told, WayClass(s.tags))
  PROVE  LET cost == Cost(eff, Summary(line))
             router == RouterCost(ModelOf(told), line)
             far == DistanceInfluence * TwoTo(Unit)
         IN  /\ cost \in Int /\ Wished(eff, line) \in Int /\ router \in Int /\ Metres(line) \in Int
             /\ Wished(eff, line) = effort * cost + far * Metres(line)
             /\ router * TwoTo(Unit) = (effort * TwoTo(Lift(told))) * cost + far * Metres(line)
<1> DEFINE m == [s \in line |-> s.m]
           f == [s \in line |-> s.m * Strain(eff, s)]
           Rest(s) == TwoTo(-RouterExponent(ModelOf(told), WayClass(s.tags)))
           w == [s \in line |-> s.m * (s.effort * Strain(eff, s) + DistanceInfluence * TwoTo(Unit))]
           r == [s \in line |-> s.m * (s.effort * Rest(s) + DistanceInfluence)]
           u == TwoTo(Unit)
           p == TwoTo(Lift(told))
           far == DistanceInfluence * u
<1>1. IsFiniteSet(line) /\ \A s \in line : s.m \in Nat /\ s.effort = effort
  BY DEF Laid
<1>2. \A s \in line : /\ Strain(eff, s) \in Nat /\ Rest(s) \in Nat /\ Strain(eff, s) * p = Rest(s) * u
                      /\ Unit \in Nat /\ Lift(told) \in Nat
  BY WaysAreTold DEF Strain
<1>3. u \in Nat /\ p \in Nat /\ far \in Nat
  <2>1. Unit \in Nat /\ Lift(told) \in Nat
    BY <1>2 DEF Laid
  <2>2. u \in Nat /\ p \in Nat
    BY <2>1, TwoToDoubles
  <2> HIDE DEF u, p
  <2> QED  BY <2>2, CostingAssumption
<1>4. Cost(eff, Summary(line)) = SumFunctionOnSet(f, line)
  BY <1>2, CostByStretch
<1>5. /\ Wished(eff, line) = SumFunctionOnSet(w, line) /\ Metres(line) = SumFunctionOnSet(m, line)
      /\ RouterCost(ModelOf(told), line) = SumFunctionOnSet(r, line)
  BY DEF Wished, Metres, RouterCost, SumFunction, Strain
<1>6. ASSUME NEW s \in line
      PROVE  /\ m[s] \in Int /\ f[s] \in Int /\ w[s] \in Int /\ r[s] \in Int
             /\ w[s] * 1 = effort * f[s] + far * m[s]
             /\ r[s] * u = (effort * p) * f[s] + far * m[s]
  <2> DEFINE a == s.m
             k == Strain(eff, s)
             l == Rest(s)
             D == DistanceInfluence
  <2>1. a \in Nat /\ k \in Nat /\ l \in Nat /\ D \in Nat /\ u \in Nat /\ p \in Nat /\ k * p = l * u
    BY <1>1, <1>2, <1>3, CostingAssumption
  <2>2. m[s] = a /\ f[s] = a * k /\ w[s] = a * (effort * k + D * u) /\ r[s] = a * (effort * l + D) /\ far = D * u
    BY <1>1
  <2> HIDE DEF a, k, l, D, u, p, m, f, w, r, far
  <2>3. \A x, y \in Nat : x * y \in Nat /\ x + y \in Nat
    OBVIOUS
  <2>4. \A x, y, z \in Nat : x * (y * z) = (x * y) * z /\ x * y = y * x /\ x * (y + z) = x * y + x * z
    OBVIOUS
  <2>5. m[s] \in Int /\ f[s] \in Int /\ w[s] \in Int /\ r[s] \in Int
    BY <2>1, <2>2, <2>3
  <2>6. w[s] = effort * f[s] + far * m[s]
    <3>1. a * (effort * k + D * u) = a * (effort * k) + a * (D * u)
      BY <2>1, <2>3, <2>4
    <3>2. a * (effort * k) = effort * (a * k)
      BY <2>1, <2>3, <2>4
    <3>3. a * (D * u) = (D * u) * a
      BY <2>1, <2>3, <2>4
    <3> QED  BY <2>2, <3>1, <3>2, <3>3
  <2>7. r[s] * u = (effort * p) * f[s] + far * m[s]
    <3> DEFINE x == a * (effort * l)
               y == a * D
    <3>1. a * (effort * l + D) = x + y /\ x \in Nat /\ y \in Nat
      BY <2>1, <2>3, <2>4
    <3>2. (x + y) * u = x * u + y * u
      <4> HIDE DEF x, y
      <4> QED  BY <2>1, <2>3, <2>4, <3>1
    <3>3. x * u = (a * effort) * (l * u)
      BY <2>1, <2>3, <2>4
    <3>4. (a * effort) * (k * p) = (effort * p) * (a * k)
      <4>1. (a * effort) * (k * p) = ((a * effort) * k) * p
        BY <2>1, <2>3, <2>4
      <4>2. (a * effort) * k = effort * (a * k)
        BY <2>1, <2>3, <2>4
      <4>3. (effort * (a * k)) * p = (effort * p) * (a * k)
        <5> DEFINE ak == a * k
        <5>1. ak \in Nat
          BY <2>1, <2>3
        <5> HIDE DEF ak
        <5>2. (effort * ak) * p = p * (effort * ak) /\ p * (effort * ak) = (p * effort) * ak /\ p * effort = effort * p
          BY <2>1, <2>3, <2>4, <5>1
        <5> QED  BY <5>2 DEF ak
      <4> QED  BY <4>1, <4>2, <4>3
    <3>5. y * u = (D * u) * a
      <4>1. (a * D) * u = a * (D * u) /\ D * u \in Nat
        BY <2>1, <2>3, <2>4
      <4> QED  BY <2>1, <2>4, <4>1
    <3> HIDE DEF x, y
    <3> QED  BY <2>1, <2>2, <3>1, <3>2, <3>3, <3>4, <3>5
  <2> QED  BY <2>5, <2>6, <2>7
<1> DEFINE F == SumFunctionOnSet(f, line)
           M == SumFunctionOnSet(m, line)
           W == SumFunctionOnSet(w, line)
           R == SumFunctionOnSet(r, line)
           ep == effort * p
<1>7. ep \in Int
  BY <1>3
<1> HIDE DEF m, f, w, r, u, p, far, ep
<1>8. Numbers(m, line) /\ Numbers(f, line) /\ Numbers(w, line) /\ Numbers(r, line)
  BY <1>1, <1>6 DEF Numbers
<1>9. W * 1 = effort * F + far * M
  BY <1>3, <1>6, <1>8, SumsCombine
<1>10. \A s \in line : r[s] * u = ep * f[s] + far * m[s]
  BY <1>6 DEF ep
<1>11. R * u = ep * F + far * M
  BY <1>3, <1>7, <1>8, <1>10, SumsCombine
<1>12. line \in SUBSET line
  OBVIOUS
<1>13. F \in Int
  BY <1>8, <1>12, SumIsANumber
<1>14. M \in Int
  BY <1>8, <1>12, SumIsANumber
<1>15. W \in Int
  BY <1>8, <1>12, SumIsANumber
<1>16. R \in Int
  BY <1>8, <1>12, SumIsANumber
<1> HIDE DEF F, M, W, R
<1>17. W = effort * F + far * M
  BY <1>9, <1>15
<1> QED  BY <1>4, <1>5, <1>11, <1>13, <1>14, <1>15, <1>16, <1>17 DEF F, M, W, R, u, p, far, ep

\* What is preferred before the penalties are scaled up is preferred after.
LEMMA ScalingKeepsOrder ==
  ASSUME NEW a \in Int, NEW b \in Int, NEW c \in Int, NEW d \in Int, NEW e \in Nat, NEW p \in Nat \ {0},
         a < b, e * a + c < e * b + d
  PROVE  (e * p) * a + c < (e * p) * b + d
<1> DEFINE x == e * a
           y == e * b
<1>1. x \in Int /\ y \in Int /\ x <= y /\ x + c < y + d
  <2>1. \A i \in Nat : \A j, k \in Int : j < k => i * j <= i * k /\ i * j \in Int /\ i * k \in Int
    OBVIOUS
  <2> QED  BY <2>1
<1>2. (e * p) * a = p * x /\ (e * p) * b = p * y
  <2>1. \A i, j, k \in Int : (i * j) * k = j * (i * k)
    OBVIOUS
  <2>2. e \in Int /\ p \in Int
    OBVIOUS
  <2> QED  BY <2>1, <2>2
<1> HIDE DEF x, y
<1> DEFINE z == y - x
<1>3. z \in Nat /\ y = x + z /\ c < z + d
  BY <1>1
<1> HIDE DEF z
<1>4. p * y = p * x + p * z /\ p * x \in Int /\ p * z \in Int
  BY <1>1, <1>3
<1>5. z <= p * z
  BY <1>3
<1>6. p * x + c < p * y + d
  BY <1>3, <1>4, <1>5
<1> QED  BY <1>2, <1>6

LEMMA DrawnAsWished ==
  ASSUME NEW eff, NEW told \in Leanings, NEW x, NEW y, Laid(x), Laid(y), RatedAlike(x, y),
         \A s \in x \cup y : Alike(eff, told, WayClass(s.tags)),
         Cost(eff, Summary(x)) < Cost(eff, Summary(y)), Wished(eff, x) < Wished(eff, y)
  PROVE  RouterCost(ModelOf(told), x) < RouterCost(ModelOf(told), y)
<1>1. PICK effort \in Nat : \A s \in x \cup y : s.effort = effort
  BY DEF RatedAlike, Laid
<1> DEFINE u == TwoTo(Unit)
           p == TwoTo(Lift(told))
           far == DistanceInfluence * u
           a == Cost(eff, Summary(x))
           b == Cost(eff, Summary(y))
           c == far * Metres(x)
           d == far * Metres(y)
           i == RouterCost(ModelOf(told), x)
           j == RouterCost(ModelOf(told), y)
           e == effort
<1>2. /\ a \in Int /\ i \in Int /\ Metres(x) \in Int
      /\ Wished(eff, x) = e * a + c /\ i * u = (e * p) * a + c
  BY <1>1, WeightsAre
<1>3. /\ b \in Int /\ j \in Int /\ Metres(y) \in Int
      /\ Wished(eff, y) = e * b + d /\ j * u = (e * p) * b + d
  BY <1>1, WeightsAre
<1>4. u \in Nat \ {0} /\ p \in Nat \ {0}
  <2>1. Unit \in Nat /\ Lift(told) \in Nat
    BY WaysAreTold DEF Laid
  <2> QED  BY <2>1, TwoToDoubles
<1>5. far \in Int
  <2> HIDE DEF u
  <2> QED  BY <1>4, CostingAssumption
<1>6. c \in Int /\ d \in Int
  <2> HIDE DEF far
  <2> QED  BY <1>2, <1>3, <1>5
<1>7. a < b /\ e * a + c < e * b + d
  BY <1>2, <1>3
<1> HIDE DEF a, b, c, d, i, j, u, p, far
<1>8. (e * p) * a + c < (e * p) * b + d
  BY <1>2, <1>3, <1>4, <1>6, <1>7, ScalingKeepsOrder
<1>9. i * u < j * u
  BY <1>2, <1>3, <1>8
<1>10. i < j
  <2>1. j <= i => j * u <= i * u
    BY <1>2, <1>3, <1>4
  <2>2. i * u \in Int /\ j * u \in Int
    BY <1>2, <1>3, <1>4
  <2> QED  BY <1>2, <1>3, <1>9, <2>1, <2>2
<1> QED  BY <1>10 DEF i, j

-----------------------------------------------------------------------------
\* ---- the answers of one runner, in their order
LEMMA RankedIsKept ==
  ASSUME NEW n \in Nat, NEW kept \in SUBSET (1 .. n)
  PROVE  /\ Cardinality(kept) \in Nat /\ Cardinality(kept) <= n
         /\ \A k \in 1 .. Cardinality(kept) : Ranked(kept, k) \in kept
<1> DEFINE m == Cardinality(kept)
           upTo(i) == {j \in kept : j <= i}
           rank == [i \in kept |-> Cardinality(upTo(i))]
<1>1. IsFiniteSet(1 .. n) /\ Cardinality(1 .. n) = n
  BY FS_Interval
<1>2. IsFiniteSet(kept) /\ m \in Nat /\ m <= n
  BY <1>1, FS_Subset, FS_CardinalityType
<1>3. ASSUME NEW i \in kept PROVE rank[i] \in 1 .. m /\ IsFiniteSet(upTo(i))
  <2>1. upTo(i) \in SUBSET kept /\ i \in upTo(i)
    OBVIOUS
  <2>2. IsFiniteSet(upTo(i)) /\ Cardinality(upTo(i)) <= m /\ Cardinality(upTo(i)) \in Nat
    BY <1>2, <2>1, FS_Subset, FS_CardinalityType
  <2>3. Cardinality(upTo(i)) # 0
    BY <2>1, <2>2, FS_EmptySet
  <2> QED  BY <1>2, <2>2, <2>3
<1>4. ASSUME NEW i \in kept, NEW j \in kept, i < j PROVE rank[i] # rank[j]
  <2>0. kept \subseteq Int
    OBVIOUS
  <2>1. upTo(i) \in SUBSET upTo(j) /\ j \in upTo(j) /\ j \notin upTo(i)
    <3>1. i \in Int /\ j \in Int
      BY <2>0
    <3>2. \A k \in Int : k <= i => k <= j
      BY <1>4, <3>1
    <3>3. j <= j /\ ~(j <= i)
      BY <1>4, <3>1
    <3> QED  BY <2>0, <3>2, <3>3
  <2>2. Cardinality(upTo(j)) = Cardinality(upTo(i)) => upTo(j) = upTo(i)
    BY <1>3, <2>1, FS_Subset
  <2> QED  BY <2>1, <2>2
<1>5. rank \in Injection(kept, 1 .. m)
  <2> HIDE DEF rank
  <2>1. \A i, j \in kept : rank[i] = rank[j] => i = j
    BY <1>4
  <2>2. rank = [i \in kept |-> rank[i]]
    BY DEF rank
  <2> HIDE DEF m
  <2>3. rank \in [kept -> 1 .. m]
    BY <1>3, <2>2
  <2>4. DOMAIN rank = kept
    BY <2>2
  <2> QED  BY <2>1, <2>3, <2>4 DEF Injection, IsInjective
<1>6. IsFiniteSet(1 .. m) /\ Cardinality(1 .. m) = m
  BY <1>2, FS_Interval
<1>7. rank \in Surjection(kept, 1 .. m)
  BY <1>5, <1>6, FS_Injection
<1>8. ASSUME NEW k \in 1 .. m PROVE Ranked(kept, k) \in kept
  <2>1. \E i \in kept : rank[i] = k
    BY <1>7, <1>8 DEF Surjection
  <2>2. \E i \in kept : Cardinality({j \in kept : j <= i}) = k
    BY <2>1
  <2> QED  BY <2>2 DEF Ranked
<1> QED  BY <1>2, <1>8

LEMMA ThoseAreOf ==
  ASSUME NEW S, NEW s \in Seq(S), NEW kept \in SUBSET (DOMAIN s)
  PROVE  /\ Those(s, kept) \in Seq(S) /\ Len(Those(s, kept)) = Cardinality(kept)
         /\ Len(Those(s, kept)) <= Len(s)
<1>1. Len(s) \in Nat /\ DOMAIN s = 1 .. Len(s) /\ \A i \in DOMAIN s : s[i] \in S
  OBVIOUS
<1> DEFINE m == Cardinality(kept)
           those == [k \in 1 .. m |-> s[Ranked(kept, k)]]
<1>2. m \in Nat /\ m <= Len(s) /\ \A k \in 1 .. m : Ranked(kept, k) \in kept
  BY <1>1, RankedIsKept
<1>3. Those(s, kept) = <<>> \o those
  BY DEF Those
<1> HIDE DEF m
<1>4. \A k \in 1 .. m : s[Ranked(kept, k)] \in S
  BY <1>1, <1>2
<1>5. those \in Seq(S) /\ Len(those) = m
  BY <1>2, <1>4
<1> HIDE DEF those
<1>6. Those(s, kept) \in Seq(S) /\ Len(Those(s, kept)) = m
  BY <1>3, <1>5
<1> QED  BY <1>2, <1>6 DEF m

LEMMA SetInSequence == ASSUME NEW S, IsFiniteSet(S) PROVE SetToSeq(S) \in Seq(S)
<1> DEFINE n == Cardinality(S)
<1>1. n \in Nat /\ ExistsBijection(1 .. n, S)
  BY FS_CardinalityType
<1>2. PICK f : f \in Bijection(1 .. n, S)
  BY <1>1 DEF ExistsBijection
<1>3. f \in [1 .. n -> S] /\ IsInjective(f)
  BY <1>2 DEF Bijection, Injection
<1>4. SetToSeq(S) = CHOOSE g \in [1 .. n -> S] : IsInjective(g)
  BY DEF SetToSeq
<1>5. SetToSeq(S) \in [1 .. n -> S]
  BY <1>3, <1>4
<1> HIDE DEF n
<1> QED  BY <1>1, <1>5

LEMMA RouterPenalises ==
  ASSUME NEW eff \in [ParameterNames -> Int], NEW class
  PROVE  RouterExponent(ModelOf(eff), class) \in Int /\ RouterExponent(ModelOf(eff), class) <= 0
<1> DEFINE gain == [p \in ParameterNames |-> Gain(eff, class, p)]
<1>1. RouterExponent(ModelOf(eff), class) = SumFunctionOnSet(gain, ParameterNames)
  BY RouterGains
<1>2. \A p \in ParameterNames : gain[p] \in Int /\ gain[p] <= 0 /\ Part(gain, ParameterNames, p) = gain[p]
  BY DEF Gain, Part
<1> HIDE DEF gain
<1>3. SumFunctionOnSet(gain, ParameterNames) = Total(gain, ParameterNames)
  BY <1>2, SumOfParts
<1>4. Total(gain, ParameterNames) \in Int /\ Total(gain, ParameterNames) <= 0
  BY <1>2 DEF Total, ParameterNames
<1> QED  BY <1>1, <1>3, <1>4

LEMMA RouterCostIs ==
  ASSUME NEW eff \in [ParameterNames -> Int], NEW line, Laid(line)
  PROVE  RouterCost(ModelOf(eff), line) \in Nat
<1> DEFINE Rest(s) == TwoTo(-RouterExponent(ModelOf(eff), WayClass(s.tags)))
           cost == [s \in line |-> s.m * (s.effort * Rest(s) + DistanceInfluence)]
<1>1. ASSUME NEW s \in line PROVE cost[s] \in Nat
  <2> DEFINE e == RouterExponent(ModelOf(eff), WayClass(s.tags))
  <2>1. e \in Int /\ e <= 0
    BY RouterPenalises
  <2> HIDE DEF e
  <2>2. -e \in Nat
    BY <2>1
  <2>3. TwoTo(-e) \in Nat /\ s.m \in Nat /\ s.effort \in Nat
    BY <2>2, TwoToDoubles DEF Laid
  <2>4. cost[s] = s.m * (s.effort * TwoTo(-e) + DistanceInfluence)
    BY DEF e
  <2> QED  BY <2>3, <2>4, CostingAssumption
<1>2. IsFiniteSet(DOMAIN cost) /\ DOMAIN cost = line /\ RouterCost(ModelOf(eff), line) = SumFunction(cost)
  BY DEF Laid, RouterCost
<1> HIDE DEF cost
<1> QED  BY <1>1, <1>2, SumIsNatural DEF SumFunction

\* Whatever the router is asked to draw between two ends, it draws one of the lines there.
LEMMA DrawsALine ==
  ASSUME NEW network, DOMAIN network # {}, \A n \in DOMAIN network : Laid(network[n]),
         NEW v \in [ParameterNames -> Int], NEW surface \in Surfaces
  PROVE  Draws(network, CustomModel(v, surface, TRUE)) \in DOMAIN network
<1> DEFINE eff == Effective(v, surface)
           told == Told(v, surface, TRUE)
           model == CustomModel(v, surface, TRUE)
           costs == [n \in DOMAIN network |-> RouterCost(model, network[n])]
           T == {costs[n] : n \in DOMAIN network}
<1>1. eff \in [ParameterNames -> Int]
  <2>1. \A n \in Int : Bounded(n) \in Int
    BY CostingAssumption DEF Bounded, AtMost, AtLeast
  <2>2. SurfaceLean[surface] \in Int
    BY DEF SurfaceLean, Surfaces
  <2>3. "unpaved" \in ParameterNames /\ "path_bonus" \in ParameterNames
    BY DEF ParameterNames
  <2> DEFINE unpaved == Bounded(v["unpaved"] + SurfaceLean[surface])
             path == Bounded(v["path_bonus"] + (IF surface = "dirt" THEN SurfaceLean[surface] ELSE 0))
  <2>4. unpaved \in Int /\ path \in Int
    BY <2>1, <2>2, <2>3
  <2> HIDE DEF unpaved, path
  <2>5. eff = [v EXCEPT !["unpaved"] = unpaved, !["path_bonus"] = path]
    BY DEF Effective, unpaved, path
  <2> QED  BY <2>4, <2>5
<1>2. model = ModelOf(told) /\ told \in [ParameterNames -> Int]
  BY <1>1, ModelsAre DEF Told
<1> HIDE DEF eff, told, model
<1>3. \A n \in DOMAIN network : costs[n] \in Nat
  BY <1>2, RouterCostIs
<1> HIDE DEF costs
<1>4. PICK least \in T : \A c \in T : least <= c
  <2>1. T \subseteq Nat /\ T # {}
    BY <1>3
  <2> HIDE DEF T
  <2> QED  BY <2>1, LeastOne
<1>5. \E n \in DOMAIN network : \A o \in DOMAIN network : costs[n] <= costs[o]
  BY <1>4
<1>6. Draws(network, model) = CHOOSE n \in DOMAIN network : \A o \in DOMAIN network : costs[n] <= costs[o]
  BY DEF Draws, costs
<1> QED  BY <1>5, <1>6 DEF model

\* seed_request: a few questions, each about two of the lines between the ends.
LEMMA SeedsAsk ==
  ASSUME NEW network, DOMAIN network # {}, \A n \in DOMAIN network : Laid(network[n])
  PROVE  IsFiniteSet(SeedRequest(network)) /\ SeedRequest(network) \subseteq (DOMAIN network) \X (DOMAIN network)
<1> DEFINE drawn == Drawn(network)
           kept == Kept(network, drawn)
           lines == {[vector |-> i, name |-> drawn[i], summary |-> Summary(network[drawn[i]])] : i \in kept}
           options == Options(lines)
           names == Range(drawn)
<1>1. \A i \in DOMAIN SeedVectors : SeedVectors[i] \in [ParameterNames -> Int]
  <2>1. Neutral \in [ParameterNames -> Int]
    BY DEF Neutral
  <2>2. \A f \in [ParameterNames -> Int] : \A p : \A n \in Int : [f EXCEPT ![p] = n] \in [ParameterNames -> Int]
    OBVIOUS
  <2>3. -2 \in Int /\ 2 \in Int
    OBVIOUS
  <2> HIDE DEF Neutral
  <2>4. AvoidHighStress \in [ParameterNames -> Int]
    <3>1. AvoidHighStress = [p \in ParameterNames |-> IF p = "lts4" THEN -2 ELSE IF p = "lts3" THEN -2 ELSE 0]
      BY DEF AvoidHighStress, Neutral
    <3> QED  BY <2>3, <3>1
  <2>5. \A n \in {-2, 2} : \A p : [Neutral EXCEPT ![p] = n] \in [ParameterNames -> Int]
    BY <2>1, <2>2, <2>3
  <2> QED  BY <2>1, <2>4, <2>5 DEF SeedVectors
<1>2. "mixed" \in Surfaces
  BY DEF Surfaces, SurfaceLean
<1>3. DOMAIN drawn = 1 .. 6 /\ \A i \in 1 .. 6 : drawn[i] \in DOMAIN network
  <2>1. DOMAIN SeedVectors = 1 .. 6
    BY DEF SeedVectors
  <2>2. \A i \in DOMAIN SeedVectors : Draws(network, CustomModel(SeedVectors[i], "mixed", TRUE)) \in DOMAIN network
    BY <1>1, <1>2, DrawsALine
  <2> QED  BY <2>1, <2>2 DEF Drawn
<1>4. IsFiniteSet(names) /\ names \subseteq DOMAIN network
  <2> HIDE DEF drawn
  <2>1. IsFiniteSet(DOMAIN drawn)
    <3>1. \A n \in Nat : IsFiniteSet(1 .. n)
      BY FS_Interval
    <3>2. PICK n \in Nat : n = 6
      OBVIOUS
    <3> QED  BY <1>3, <3>1, <3>2
  <2> QED  BY <1>3, <2>1, FiniteRange DEF Range
<1>5. kept \subseteq DOMAIN drawn
  BY DEF Kept
<1> HIDE DEF drawn, kept
<1>6. \A line \in lines : line.name \in names
  BY <1>5 DEF Range
<1> HIDE DEF lines, names
<1>7. \A q \in options : q.ends \in names \X names
  BY <1>6 DEF Options, Question
<1> HIDE DEF options
<1>8. Asked(Firsts(options)) \subseteq options
  BY DEF Asked, Firsts
<1>9. SeedRequest(network) = {q.ends : q \in Asked(Firsts(options))}
  BY DEF SeedRequest, options, lines, kept, drawn
<1>10. SeedRequest(network) \subseteq names \X names
  BY <1>7, <1>8, <1>9
<1>11. IsFiniteSet(names \X names)
  BY <1>4, FS_Product
<1> QED  BY <1>4, <1>10, <1>11, FS_Subset

LEMMA TasksAre ==
  /\ IsFiniteSet(Tasks)
  /\ \A task \in Tasks : task[1] \in DOMAIN Networks /\ task[2] \in DOMAIN Networks[task[1]]
                           /\ task[3] \in DOMAIN Networks[task[1]]
<1> DEFINE asked(n) == SeedRequest(Networks[n])
           of(n) == {<<n, ends[1], ends[2]>> : ends \in asked(n)}
           all == [n \in DOMAIN Networks |-> of(n)]
<1>1. \A n \in DOMAIN Networks :
        IsFiniteSet(asked(n)) /\ asked(n) \subseteq (DOMAIN Networks[n]) \X (DOMAIN Networks[n])
  <2> SUFFICES ASSUME NEW n \in DOMAIN Networks
               PROVE  IsFiniteSet(asked(n)) /\ asked(n) \subseteq (DOMAIN Networks[n]) \X (DOMAIN Networks[n])
    OBVIOUS
  <2>1. DOMAIN Networks[n] # {} /\ \A name \in DOMAIN Networks[n] : Laid(Networks[n][name])
    BY NetworkAssumption DEF Laid, Range
  <2> QED  BY <2>1, SeedsAsk
<1> HIDE DEF asked
<1>2. ASSUME NEW n \in DOMAIN Networks PROVE IsFiniteSet(of(n))
  <2> DEFINE f == [ends \in asked(n) |-> <<n, ends[1], ends[2]>>]
  <2>1. of(n) = Range(f) /\ DOMAIN f = asked(n)
    BY DEF Range
  <2>2. IsFiniteSet(DOMAIN f)
    BY <1>1, <2>1
  <2> HIDE DEF f, of
  <2> QED  BY <2>1, <2>2, FiniteRange
<1>3. Tasks = UNION Range(all) /\ DOMAIN all = DOMAIN Networks
  BY DEF Tasks, Range, asked
<1>4. IsFiniteSet(Range(all))
  <2> HIDE DEF all
  <2> QED  BY <1>3, FiniteRange, NetworkAssumption
<1>5. \A T \in Range(all) : IsFiniteSet(T)
  <2> HIDE DEF of
  <2> QED  BY <1>2 DEF Range
<1>6. IsFiniteSet(Tasks)
  <2> HIDE DEF all
  <2> QED  BY <1>3, <1>4, <1>5, FS_UNION
<1>7. ASSUME NEW task \in Tasks
      PROVE  task[1] \in DOMAIN Networks /\ task[2] \in DOMAIN Networks[task[1]] /\ task[3] \in DOMAIN Networks[task[1]]
  <2>1. PICK n \in DOMAIN Networks : task \in of(n)
    BY <1>3 DEF Range
  <2>2. PICK ends \in asked(n) : task = <<n, ends[1], ends[2]>>
    BY <2>1
  <2>3. ends \in (DOMAIN Networks[n]) \X (DOMAIN Networks[n])
    BY <1>1, <2>2
  <2> QED  BY <2>2, <2>3
<1> QED  BY <1>6, <1>7

\* Pairs whose lines can be costed, and count as much as an answer does.
Evidence(pair) == Summed(pair.a.summary) /\ Summed(pair.b.summary) /\ pair.weight = 2
Telling(pairs) == \E S : pairs \in Seq(S) /\ \A pair \in S : Evidence(pair)

LEMMA ThoseTell ==
  ASSUME NEW pairs, Telling(pairs), NEW kept \in SUBSET (DOMAIN pairs)
  PROVE  Telling(Those(pairs, kept)) /\ Len(Those(pairs, kept)) <= Len(pairs)
<1>1. PICK S : pairs \in Seq(S) /\ \A pair \in S : Evidence(pair)
  BY DEF Telling
<1>2. Those(pairs, kept) \in Seq(S) /\ Len(Those(pairs, kept)) <= Len(pairs)
  BY <1>1, ThoseAreOf
<1> QED  BY <1>1, <1>2 DEF Telling

LEMMA TellingIs ==
  ASSUME NEW pairs, Telling(pairs)
  PROVE  /\ Len(pairs) \in Nat /\ DOMAIN pairs = 1 .. Len(pairs) /\ IsFiniteSet(DOMAIN pairs)
         /\ \A i \in DOMAIN pairs : Evidence(pairs[i])
<1>1. PICK S : pairs \in Seq(S) /\ \A pair \in S : Evidence(pair)
  BY DEF Telling
<1>2. Len(pairs) \in Nat /\ DOMAIN pairs = 1 .. Len(pairs) /\ \A i \in DOMAIN pairs : pairs[i] \in S
  BY <1>1
<1>3. IsFiniteSet(1 .. Len(pairs))
  BY <1>2, FS_Interval
<1> QED  BY <1>1, <1>2, <1>3

LEMMA CandidatesAreSummed ==
  \A n \in DOMAIN Networks : \A name \in DOMAIN Networks[n] : Summed(CandidateOf[n][name].summary)
<1> SUFFICES ASSUME NEW n \in DOMAIN Networks, NEW name \in DOMAIN Networks[n]
             PROVE  Summed(CandidateOf[n][name].summary)
  OBVIOUS
<1>1. CandidateOf[n][name].summary = Summary(Networks[n][name])
  BY DEF CandidateOf, Candidate
<1>2. Networks[n][name] \in Range(Networks[n])
  BY DEF Range
<1>3. Laid(Networks[n][name])
  BY <1>2, NetworkAssumption DEF Laid
<1> QED  BY <1>1, <1>3, SummaryIsSummed

LEMMA AnswersTell == ASSUME NEW given, DOMAIN given = Tasks PROVE Telling(Pairs(given))
<1> DEFINE tasks == SetToSeq(Tasks)
           kept == {i \in DOMAIN tasks : given[tasks[i]] \in {"a", "b"}}
           named == Those(tasks, kept)
           pairs == [i \in DOMAIN named |-> PairFrom(named[i], given[named[i]])]
           S == {pairs[i] : i \in DOMAIN named}
<1>1. named \in Seq(Tasks)
  <2>1. tasks \in Seq(Tasks)
    BY TasksAre, SetInSequence
  <2>2. kept \in SUBSET (DOMAIN tasks)
    OBVIOUS
  <2> HIDE DEF tasks, kept
  <2> QED  BY <2>1, <2>2, ThoseAreOf
<1> HIDE DEF named
<1>2. Len(named) \in Nat /\ DOMAIN named = 1 .. Len(named) /\ \A i \in DOMAIN named : named[i] \in Tasks
  BY <1>1
<1>3. ASSUME NEW i \in DOMAIN named PROVE Evidence(pairs[i])
  <2> DEFINE task == named[i]
  <2>1. /\ pairs[i].a = CandidateOf[task[1]][task[2]] /\ pairs[i].b = CandidateOf[task[1]][task[3]]
        /\ pairs[i].weight = 2
    BY <1>3 DEF PairFrom
  <2>2. task \in Tasks
    BY <1>2
  <2> HIDE DEF task, pairs
  <2>3. task[1] \in DOMAIN Networks /\ task[2] \in DOMAIN Networks[task[1]] /\ task[3] \in DOMAIN Networks[task[1]]
    BY <2>2, TasksAre
  <2> QED  BY <2>1, <2>3, CandidatesAreSummed DEF Evidence
<1>4. pairs \in Seq(S)
  <2>1. pairs \in [1 .. Len(named) -> S]
    BY <1>2
  <2> HIDE DEF pairs, S
  <2> QED  BY <1>2, <2>1
<1>5. Telling(pairs)
  <2>1. \A pair \in S : Evidence(pair)
    BY <1>3
  <2> HIDE DEF S
  <2> QED  BY <1>4, <2>1 DEF Telling
<1>6. Pairs(given) = pairs
  BY DEF Pairs, named
<1> QED  BY <1>5, <1>6

LEMMA OnesAnswersTell == ASSUME NEW pairs, Telling(pairs) PROVE \A labeler : Telling(PairsBy(pairs, labeler))
<1> SUFFICES ASSUME NEW labeler PROVE Telling(PairsBy(pairs, labeler))
  OBVIOUS
<1> DEFINE by == {i \in DOMAIN pairs : labeler = Nobody \/ pairs[i].by = labeler}
<1>1. PairsBy(pairs, labeler) = Those(pairs, by) /\ by \in SUBSET (DOMAIN pairs)
  BY DEF PairsBy
<1> HIDE DEF by
<1> QED  BY <1>1, ThoseTell

-----------------------------------------------------------------------------
\* ---- shares
LEMMA DivisionIs ==
  ASSUME NEW a \in Int, NEW b \in Nat \ {0}
  PROVE  a \div b \in Int /\ (a \div b) * b <= a /\ a < (a \div b) * b + b
  OBVIOUS

\* A quotient reaches so much where the number does.
LEMMA DivisionReaches ==
  ASSUME NEW a \in Int, NEW b \in Nat \ {0}, NEW k \in Int
  PROVE  k <= a \div b <=> k * b <= a
<1> DEFINE d == a \div b
<1>1. d \in Int /\ d * b <= a /\ a < d * b + b
  BY DivisionIs
<1> HIDE DEF d
<1>2. \A i, j \in Int : i <= j => i * b <= j * b
  OBVIOUS
<1>3. k <= d => k * b <= a
  <2>1. k * b \in Int /\ d * b \in Int
    BY <1>1
  <2> QED  BY <1>1, <1>2, <2>1
<1>4. ASSUME d < k PROVE a < k * b
  <2>1. (d + 1) * b <= k * b
    BY <1>1, <1>2, <1>4
  <2>2. (d + 1) * b = d * b + b
    BY <1>1
  <2>3. k * b \in Int /\ d * b \in Int
    BY <1>1
  <2> QED  BY <1>1, <2>1, <2>2, <2>3
<1>5. k <= d <=> k * b <= a
  <2>1. k * b \in Int
    OBVIOUS
  <2> QED  BY <1>1, <1>3, <1>4, <2>1
<1> QED  BY <1>5 DEF d

LEMMA PercentIs ==
  ASSUME NEW part \in Nat, NEW whole \in Nat
  PROVE  /\ Percent(part, whole) \in Int
         /\ part <= whole => Percent(part, whole) <= 100
         /\ \A less \in Nat : Percent(less, whole) < Percent(part, whole) => less < part
<1>1. CASE whole = 0
  BY <1>1 DEF Percent
<1>2. CASE whole # 0
  <2>1. \A n \in Nat : Percent(n, whole) = (100 * n) \div whole /\ Percent(n, whole) \in Int /\ 100 * n \in Int
    BY <1>2, DivisionIs DEF Percent
  <2>2. whole \in Nat \ {0}
    BY <1>2
  <2>3. \A n \in Nat : \A k \in Int : k <= Percent(n, whole) <=> k * whole <= 100 * n
    <3> SUFFICES ASSUME NEW n \in Nat, NEW k \in Int PROVE k <= Percent(n, whole) <=> k * whole <= 100 * n
      OBVIOUS
    <3> DEFINE m == 100 * n
    <3>1. m \in Int /\ Percent(n, whole) = m \div whole
      BY <2>1
    <3> HIDE DEF m
    <3>2. k <= m \div whole <=> k * whole <= m
      BY <2>2, <3>1, DivisionReaches
    <3>3. k <= Percent(n, whole) <=> k * whole <= m
      BY <3>1, <3>2
    <3> QED  BY <3>3 DEF m
  <2>4. part <= whole => Percent(part, whole) <= 100
    <3> SUFFICES ASSUME part <= whole, Percent(part, whole) > 100 PROVE FALSE
      BY <2>1
    <3>1. 101 <= Percent(part, whole)
      BY <2>1
    <3>2. 101 * whole <= 100 * part
      BY <2>3, <3>1
    <3> QED  BY <2>2, <3>2
  <2>5. ASSUME NEW less \in Nat, Percent(less, whole) < Percent(part, whole) PROVE less < part
    <3> DEFINE k == Percent(part, whole)
    <3>1. k \in Int /\ k * whole <= 100 * part /\ ~(k * whole <= 100 * less)
      BY <2>1, <2>3, <2>5
    <3> HIDE DEF k
    <3>2. k * whole \in Int
      BY <3>1
    <3> QED  BY <3>1, <3>2
  <2> QED  BY <2>1, <2>4, <2>5
<1> QED  BY <1>1, <1>2

LEMMA AgreementIs ==
  ASSUME NEW pairs, Telling(pairs), NEW v
  PROVE  /\ Agreement(pairs, v) \in Nat /\ Weights(pairs) \in Nat
         /\ Agreement(pairs, v) <= 2 * Weights(pairs)
<1> DEFINE D == DOMAIN pairs
           f == [i \in D |-> pairs[i].weight * Agrees(pairs[i], v)]
           g == [i \in D |-> pairs[i].weight]
           h == [i \in D |-> 4]
<1>1. IsFiniteSet(D) /\ \A i \in D : pairs[i].weight = 2
  BY TellingIs DEF Evidence
<1>2. \A i \in D : Agrees(pairs[i], v) \in {0, 1, 2}
  BY DEF Agrees
<1>3. \A i \in D : f[i] \in Nat /\ g[i] = 2 /\ h[i] = 4 /\ f[i] <= h[i]
  BY <1>1, <1>2
<1>4. Agreement(pairs, v) = SumFunctionOnSet(f, D) /\ Weights(pairs) = SumFunctionOnSet(g, D)
  BY DEF Agreement, Weights, SumFunction
<1> HIDE DEF D, f, g, h
<1>5. SumFunctionOnSet(f, D) \in Nat
  BY <1>1, <1>3, SumIsNatural
<1>6. \A i \in D : g[i] \in Nat
  BY <1>3
<1>7. SumFunctionOnSet(g, D) \in Nat
  BY <1>1, <1>6, SumIsNatural
<1>8. Numbers(f, D) /\ Numbers(g, D) /\ Numbers(h, D)
  BY <1>1, <1>3 DEF Numbers
<1>9. SumFunctionOnSet(f, D) <= SumFunctionOnSet(h, D)
  BY <1>3, <1>8, SumsCompare
<1>10. \A i \in D : h[i] * 1 = g[i] * 2
  BY <1>3
<1>11. SumFunctionOnSet(h, D) * 1 = SumFunctionOnSet(g, D) * 2
  BY <1>8, <1>10, SumsScale
<1>12. D \in SUBSET D
  OBVIOUS
<1>13. SumFunctionOnSet(h, D) \in Int
  BY <1>8, <1>12, SumIsANumber
<1> DEFINE F == SumFunctionOnSet(f, D)
           G == SumFunctionOnSet(g, D)
           H == SumFunctionOnSet(h, D)
<1>14. F \in Nat /\ G \in Nat /\ H \in Int /\ F <= H /\ H * 1 = G * 2
  BY <1>5, <1>7, <1>9, <1>11, <1>13
<1>15. Agreement(pairs, v) = F /\ Weights(pairs) = G
  BY <1>4
<1> HIDE DEF F, G, H
<1>16. F <= 2 * G
  BY <1>14
<1> QED  BY <1>14, <1>15, <1>16

LEMMA PairsHaveLengths ==
  ASSUME NEW pair, Evidence(pair), NEW v
  PROVE  LengthOf(Picked(pair, v).summary) \in Nat /\ Shorter(pair) \in Nat \ {0}
<1>1. LengthOf(pair.a.summary) \in Nat \ {0} /\ LengthOf(pair.b.summary) \in Nat \ {0}
  BY LengthIsSome DEF Evidence
<1>2. Picked(pair, v) = pair.a \/ Picked(pair, v) = pair.b
  BY DEF Picked
<1>3. Shorter(pair) \in Nat \ {0}
  BY <1>1 DEF Shorter, AtMost
<1> QED  BY <1>1, <1>2, <1>3

LEMMA DetoursAre ==
  ASSUME NEW pairs, Telling(pairs), NEW v, NEW tolerance \in Nat
  PROVE  /\ Detours(pairs, v, tolerance) \in Nat
         /\ Detours(pairs, v, tolerance) = 0 => \A i \in DOMAIN pairs :
              100 * LengthOf(Picked(pairs[i], v).summary) <= (100 + tolerance) * Shorter(pairs[i])
<1> DEFINE D == DOMAIN pairs
           f == [i \in D |-> Excess(pairs[i], Picked(pairs[i], v), tolerance)]
<1>1. IsFiniteSet(D) /\ \A i \in D : Evidence(pairs[i])
  BY TellingIs
<1>2. ASSUME NEW i \in D
      PROVE  /\ f[i] \in Nat
             /\ f[i] = 0 => 100 * LengthOf(Picked(pairs[i], v).summary) <= (100 + tolerance) * Shorter(pairs[i])
  <2> DEFINE l == LengthOf(Picked(pairs[i], v).summary)
             s == Shorter(pairs[i])
             m == 100 * l + s - 1
  <2>1. l \in Nat /\ s \in Nat \ {0}
    BY <1>1, PairsHaveLengths
  <2>2. f[i] = AtLeast(PercentUp(l, s) - 100 - tolerance, 0)
    BY DEF Excess
  <2> HIDE DEF l, s, f
  <2>3. m \in Int /\ PercentUp(l, s) = m \div s
    BY <2>1 DEF PercentUp
  <2> DEFINE d == m \div s
             k == 101 + tolerance
  <2>4. d \in Int /\ k \in Int
    <3> HIDE DEF m
    <3> QED  BY <2>1, <2>3, DivisionIs
  <2>5. k <= d <=> k * s <= m
    <3> HIDE DEF m, k
    <3> QED  BY <2>1, <2>3, <2>4, DivisionReaches
  <2>6. f[i] = AtLeast(d - 100 - tolerance, 0)
    BY <2>2, <2>3
  <2> HIDE DEF d
  <2>7. f[i] \in Nat /\ (f[i] = 0 => ~(k <= d))
    BY <2>4, <2>6 DEF AtLeast
  <2>8. k * s = (100 + tolerance) * s + s /\ (100 + tolerance) * s \in Int
    BY <2>1
  <2>9. ASSUME f[i] = 0 PROVE 100 * l <= (100 + tolerance) * s
    <3>1. m < (100 + tolerance) * s + s
      <4> HIDE DEF m, k
      <4> QED  BY <2>1, <2>3, <2>5, <2>7, <2>8, <2>9
    <3> QED  BY <2>1, <2>8, <3>1
  <2> QED  BY <2>7, <2>9 DEF l, s
<1>3. Detours(pairs, v, tolerance) = SumFunctionOnSet(f, D)
  BY DEF Detours, SumFunction
<1> HIDE DEF D, f
<1>4. SumFunctionOnSet(f, D) \in Nat /\ \A i \in D : f[i] <= SumFunctionOnSet(f, D)
  BY <1>1, <1>2, SumIsNatural
<1>5. ASSUME Detours(pairs, v, tolerance) = 0, NEW i \in DOMAIN pairs
      PROVE  100 * LengthOf(Picked(pairs[i], v).summary) <= (100 + tolerance) * Shorter(pairs[i])
  <2>1. i \in D
    BY DEF D
  <2>2. f[i] \in Nat /\ f[i] <= 0
    BY <1>2, <1>3, <1>4, <1>5, <2>1
  <2>3. f[i] = 0
    BY <2>2
  <2> QED  BY <1>2, <2>1, <2>3
<1> QED  BY <1>3, <1>4, <1>5

LEMMA PenaltyIs ==
  ASSUME NEW pairs, Telling(pairs), NEW v, NEW tolerance \in Nat
  PROVE  /\ Penalty(pairs, v, tolerance) \in Nat
         /\ Detours(pairs, v, tolerance) = 0 => Penalty(pairs, v, tolerance) = 0
<1> DEFINE a == 4 * Detours(pairs, v, tolerance)
           b == AtLeast(Len(pairs), 1)
           d == a \div b
<1>1. a \in Nat /\ (Detours(pairs, v, tolerance) = 0 => a = 0)
  BY DetoursAre
<1>2. b \in Nat \ {0}
  BY TellingIs DEF AtLeast
<1>3. Penalty(pairs, v, tolerance) = d
  BY DEF Penalty
<1> HIDE DEF a, b
<1>4. d \in Int /\ (0 <= d <=> 0 * b <= a) /\ (1 <= d <=> 1 * b <= a)
  BY <1>1, <1>2, DivisionIs, DivisionReaches
<1> HIDE DEF d
<1>5. d \in Nat /\ (a = 0 => d = 0)
  BY <1>1, <1>2, <1>4
<1> QED  BY <1>1, <1>3, <1>5

-----------------------------------------------------------------------------
\* ---- what the search finds
Score(pairs, v, tolerance) == Percent(Agreement(pairs, v), 2 * Weights(pairs)) - Penalty(pairs, v, tolerance)

LEMMA NeutralIsAVector == Neutral \in Vectors /\ Vectors \subseteq Multipliers /\ Neutral \in Multipliers
<1>1. Neutral = [p \in ParameterNames |-> IF p \in Parameters THEN [q \in Parameters |-> 0][p] ELSE 0]
  BY DEF Neutral
<1>2. [q \in Parameters |-> 0] \in [Parameters -> Grid]
  BY TuningAssumption
<1>3. Neutral \in Vectors
  <2> DEFINE g == [q \in Parameters |-> 0]
  <2>1. Neutral = [p \in ParameterNames |-> IF p \in Parameters THEN g[p] ELSE 0] /\ g \in [Parameters -> Grid]
    BY <1>1, <1>2
  <2> HIDE DEF g
  <2> QED  BY <2>1 DEF Vectors
<1>4. 0 \in Least .. Most
  BY CostingAssumption
<1>5. ASSUME NEW g \in [Parameters -> Grid]
      PROVE  [p \in ParameterNames |-> IF p \in Parameters THEN g[p] ELSE 0] \in Multipliers
  BY <1>4, TuningAssumption DEF Multipliers
<1>6. Neutral \in Multipliers
  BY <1>4 DEF Neutral, Multipliers
<1> QED  BY <1>3, <1>5, <1>6 DEF Vectors

LEMMA MultipliersLean == Multipliers \subseteq Leanings /\ AvoidHighStress \in Leanings
<1>1. Least .. Most \subseteq Int /\ \A n \in Least .. Most : n <= Most
  BY CostingAssumption
<1>2. Multipliers \subseteq Leanings
  BY <1>1 DEF Multipliers, Leanings
<1>3. AvoidHighStress \in Leanings
  <2>1. AvoidHighStress = [p \in ParameterNames |-> IF p = "lts4" THEN -2 ELSE IF p = "lts3" THEN -2 ELSE 0]
    BY DEF AvoidHighStress, Neutral
  <2>2. -2 <= Most /\ 0 <= Most
    BY CostingAssumption
  <2> QED  BY <2>1, <2>2 DEF Leanings
<1> QED  BY <1>2, <1>3

LEMMA DistanceIs ==
  ASSUME NEW v \in Multipliers
  PROVE  Distance(v) \in Nat /\ (v # Neutral => Distance(v) > 0) /\ Distance(Neutral) = 0
<1>1. Least .. Most \subseteq Int
  BY CostingAssumption
<1> DEFINE far(w) == [p \in ParameterNames |-> Apart(w[p])]
           sum(w) == SumFunctionOnSet(far(w), ParameterNames)
<1>2. \A w : Distance(w) = sum(w)
  BY DEF Distance, SumFunction
<1>3. \A p \in ParameterNames : far(v)[p] \in Nat /\ (far(v)[p] = 0 => v[p] = 0)
  BY <1>1 DEF Multipliers, Apart
<1>4. \A p \in ParameterNames : far(Neutral)[p] = 0
  BY DEF Apart, Neutral
<1> HIDE DEF far
<1>5. sum(v) \in Nat /\ \A p \in ParameterNames : far(v)[p] <= sum(v)
  BY <1>3, ParametersAreFinite, SumIsNatural
<1>6. sum(Neutral) = 0
  <2>1. sum(Neutral) = Total(far(Neutral), ParameterNames)
    BY <1>4, SumOfParts
  <2>2. /\ "lts2" \in ParameterNames /\ "lts3" \in ParameterNames /\ "lts4" \in ParameterNames
        /\ "unpaved" \in ParameterNames /\ "path_bonus" \in ParameterNames /\ "missing_sidewalk" \in ParameterNames
    BY DEF ParameterNames
  <2> QED  BY <1>4, <2>1, <2>2 DEF Total, Part
<1> HIDE DEF sum
<1>7. ASSUME sum(v) = 0 PROVE v = Neutral
  <2>1. \A p \in ParameterNames : v[p] = 0
    BY <1>3, <1>5, <1>7
  <2> QED  BY <2>1 DEF Multipliers, Neutral
<1> QED  BY <1>2, <1>5, <1>6, <1>7

LEMMA GreatestOne ==
  ASSUME NEW T, T \subseteq Int, T # {}, NEW bound \in Int, \A x \in T : x <= bound
  PROVE  \E x \in T : \A y \in T : x >= y
<1> DEFINE below == {bound - x : x \in T}
<1>1. below \subseteq Nat /\ below # {}
  OBVIOUS
<1> HIDE DEF below
<1>2. PICK d \in below : \A e \in below : d <= e
  BY <1>1, LeastOne
<1>3. PICK x \in T : d = bound - x
  BY <1>2 DEF below
<1>4. ASSUME NEW y \in T PROVE x >= y
  <2>1. bound - y \in below
    BY DEF below
  <2>2. d <= bound - y /\ x \in Int /\ y \in Int
    BY <1>2, <1>3, <2>1
  <2> QED  BY <1>3, <2>2
<1> QED  BY <1>4

LEMMA ScoreIs ==
  ASSUME NEW pairs, Telling(pairs), NEW v, NEW tolerance \in Nat
  PROVE  Score(pairs, v, tolerance) \in Int /\ Score(pairs, v, tolerance) <= 100
<1> DEFINE a == Agreement(pairs, v)
           w == 2 * Weights(pairs)
           share == Percent(a, w)
           penalty == Penalty(pairs, v, tolerance)
<1>1. a \in Nat /\ w \in Nat /\ a <= w
  BY AgreementIs
<1>2. penalty \in Nat
  BY PenaltyIs
<1>3. Score(pairs, v, tolerance) = share - penalty
  BY DEF Score
<1> HIDE DEF a, w, penalty
<1>4. share \in Int /\ share <= 100
  BY <1>1, PercentIs
<1> HIDE DEF share
<1> QED  BY <1>2, <1>3, <1>4

\* What the search returns is of the grid; where it is not neutral, nothing nearer to
\* neutral scores as well, neutral itself least of all.
LEMMA SearchFinds ==
  ASSUME NEW pairs, Telling(pairs), NEW prefs, prefs.tolerance \in Nat
  PROVE  LET v == Search(pairs, prefs)
         IN  /\ v \in Vectors
             /\ v # Neutral => Score(pairs, Effective(Neutral, prefs.surface), prefs.tolerance)
                                 < Score(pairs, Effective(v, prefs.surface), prefs.tolerance)
<1> DEFINE S(v) == Score(pairs, Effective(v, prefs.surface), prefs.tolerance)
           tried == {[v |-> v, score |-> S(v), far |-> Distance(v)] : v \in Vectors}
           scores == {t.score : t \in tried}
           top == Max(scores)
           best == {t \in tried : t.score = top}
           fars == {t.far : t \in best}
           near == Min(fars)
           chosen == CHOOSE t \in best : t.far = near
<1>1. Search(pairs, prefs) = chosen.v
  BY DEF Search, Score
<1>2. \A v : S(v) \in Int /\ S(v) <= 100
  BY ScoreIs
<1>3. \A v \in Vectors : Distance(v) \in Nat /\ (v # Neutral => Distance(v) > 0)
  BY NeutralIsAVector, DistanceIs
<1>4. Distance(Neutral) = 0
  BY NeutralIsAVector, DistanceIs
<1> HIDE DEF S
<1>5. \A t \in tried : t.v \in Vectors /\ t.score = S(t.v) /\ t.far = Distance(t.v)
  OBVIOUS
<1>6. ASSUME NEW v \in Vectors PROVE \E t \in tried : t.v = v
  <2> DEFINE t == [v |-> v, score |-> S(v), far |-> Distance(v)]
  <2>1. t \in tried /\ t.v = v
    OBVIOUS
  <2> QED  BY <2>1
<1> HIDE DEF tried
<1>7. scores \subseteq Int /\ scores # {} /\ \A x \in scores : x <= 100
  BY <1>2, <1>5, <1>6, NeutralIsAVector
<1>8. top \in scores /\ \A x \in scores : top >= x
  <2> HIDE DEF scores
  <2>1. \E x \in scores : \A y \in scores : x >= y
    <3>1. 100 \in Int
      OBVIOUS
    <3> QED  BY <1>7, <3>1, GreatestOne
  <2> QED  BY <2>1 DEF Max
<1>9. best # {}
  BY <1>8
<1>10. \A t \in tried : t.score <= top /\ top \in Int
  BY <1>7, <1>8
<1> HIDE DEF top
<1>11. fars \subseteq Nat /\ fars # {}
  BY <1>3, <1>5, <1>9
<1>12. near \in fars /\ \A x \in fars : near <= x
  <2> HIDE DEF fars
  <2>1. \E x \in fars : \A y \in fars : x <= y
    BY <1>11, LeastOne
  <2> QED  BY <2>1 DEF Min
<1>13. chosen \in best /\ chosen.far = near
  BY <1>12
<1>14. \A t \in best : near <= t.far
  BY <1>12
<1> HIDE DEF chosen, near, fars
<1>15. chosen.v \in Vectors /\ S(chosen.v) = top /\ near = Distance(chosen.v)
  BY <1>5, <1>13
<1>16. ASSUME chosen.v # Neutral PROVE S(Neutral) < S(chosen.v)
  <2>1. PICK t \in tried : t.v = Neutral
    BY <1>6, NeutralIsAVector
  <2>2. S(Neutral) <= top /\ t.score = S(Neutral) /\ t.far = 0
    BY <1>4, <1>5, <1>10, <2>1
  <2>3. near > 0 /\ near \in Nat
    BY <1>3, <1>15, <1>16
  <2>4. S(Neutral) # top
    <3> SUFFICES ASSUME S(Neutral) = top PROVE FALSE
      OBVIOUS
    <3>1. t \in best
      BY <2>1, <2>2
    <3> QED  BY <1>14, <2>2, <2>3, <3>1
  <2> QED  BY <1>2, <1>15, <2>2, <2>4
<1> QED  BY <1>1, <1>15, <1>16 DEF S

-----------------------------------------------------------------------------
\* ---- what the file says can be read
\* A fit to save: multipliers within bounds, fitted under a profile's own leanings.
Fair(fit) == fit.params \in Multipliers /\ fit.under.tolerance \in Nat /\ fit.under.surface \in Surfaces
Sound(a, e) == Proper(a, e.value) /\ (a = "routing" /\ IsFit(e) => Fair(e.value))
ProperText(t) == \A a \in Axes : t[a] # Absent => Sound(a, t[a])
ProperInv ==
  /\ Exists => ProperText(file)
  /\ \A p \in Processes :
       /\ process[p].at \in Saving => ProperText(process[p].text)
       /\ process[p].at \in Fitting => \E fit : process[p].entry = Entry(fit, "inferred") /\ Fair(fit)

LEMMA LoadedIsProper == ASSUME ProperInv PROVE \A a \in Axes : Sound(a, Loaded[a])
<1> SUFFICES ASSUME NEW a \in Axes PROVE Sound(a, Loaded[a])
  OBVIOUS
<1>1. Sound(a, Defaults[a])
  <2>1. /\ Defaults["tolerance"].value = 10 /\ Defaults["surface"].value = "mixed"
        /\ Defaults["routing"].value.params = Neutral /\ Defaults["routing"].provenance = "default"
    BY DEF Defaults, Entry, Unfitted
  <2>2. "mixed" \in Surfaces
    BY DEF Surfaces, SurfaceLean
  <2>3. a \in {"traffic", "tolerance", "surface", "pacing", "routing"}
    BY DEF Axes
  <2> QED  BY <2>1, <2>2, <2>3, NeutralIsAVector DEF Sound, Proper, IsFit
<1>2. Loaded[a] = Defaults[a] \/ (Exists /\ file[a] # Absent /\ Loaded[a] = file[a])
  BY DEF Loaded, Merged
<1> QED  BY <1>1, <1>2 DEF ProperInv, ProperText

LEMMA ProperMoves ==
  ASSUME FitInv, ProperInv, NEW p \in Processes, NEW record, Goes(p, record),
         file' = file \/ file' = Empty \/ (process[p].at \in Saving /\ file' = process[p].text),
         record.at \in Saving => ProperText(record.text),
         record.at \in Fitting => \E fit : record.entry = Entry(fit, "inferred") /\ Fair(fit)
  PROVE  ProperInv'
<1>1. /\ process' = [q \in Processes |-> process'[q]] /\ process'[p] = record
      /\ \A q \in Processes \ {p} : process'[q] = process[q]
  BY DEF Goes, FitInv, FitShapes
<1>2. Exists' => ProperText(file')
  <2>1. ProperText(Empty)
    BY DEF ProperText, Empty
  <2> QED  BY <2>1 DEF ProperInv, Exists
<1>3. ASSUME NEW q \in Processes
      PROVE  /\ process'[q].at \in Saving => ProperText(process'[q].text)
             /\ process'[q].at \in Fitting => \E fit : process'[q].entry = Entry(fit, "inferred") /\ Fair(fit)
  <2>1. CASE q = p
    BY <1>1, <2>1
  <2>2. CASE q # p
    BY <1>1, <2>2 DEF ProperInv
  <2> QED  BY <2>1, <2>2
<1> QED  BY <1>2, <1>3 DEF ProperInv, ProperText, Sound, Fair, IsFit, Exists

LEMMA ProperRests ==
  ASSUME FitInv, ProperInv, NEW p \in Processes, Goes(p, Idle),
         file' = file \/ (process[p].at \in Saving /\ file' = process[p].text)
  PROVE  ProperInv'
<1>1. Idle.at \notin Saving \cup Fitting
  BY DEF Idle, Saving, Fitting
<1> QED  BY <1>1, ProperMoves

LEMMA ProperEdited ==
  ASSUME FitInv, ProperInv, NEW axis \in DOMAIN Edits, NEW value \in Edits[axis], Edit(axis, value)
  PROVE  ProperInv'
<1> DEFINE entry == IF value = Absent THEN Absent ELSE Entry(value, "stated")
           text == IF Exists THEN file ELSE Empty
<1>1. axis \in Axes /\ file' = [text EXCEPT ![axis] = entry] /\ process' = process
  BY ProfileAssumption DEF Edit
<1>2. entry # Absent => Sound(axis, entry)
  <2>1. value # Absent => Proper(axis, value)
    BY ProfileAssumption
  <2> QED  BY <2>1 DEF Sound, Entry, IsFit
<1>3. Text(text) /\ ProperText(text)
  BY DEF FitInv, FitShapes, ProperInv, Text, Empty, ProperText
<1> HIDE DEF text, entry
<1>4. \A a \in Axes : file'[a] = IF a = axis THEN entry ELSE text[a]
  BY <1>1, <1>3 DEF Text
<1>5. ProperText(file')
  BY <1>2, <1>3, <1>4 DEF ProperText
<1> QED  BY <1>1, <1>5 DEF ProperInv, ProperText, Sound, Fair, IsFit, Exists

LEMMA ProperIngested == ASSUME FitInv, ProperInv, NEW p \in Processes, IngestLoads(p) PROVE ProperInv'
<1> DEFINE incoming == [Loaded EXCEPT !["pacing"] = Entry("history", "inferred")]
           text == Merge(Loaded, incoming)
           record == [Idle EXCEPT !.at = "loaded", !.text = text]
<1>1. Goes(p, record) /\ UNCHANGED file
  BY DEF IngestLoads
<1>2. ProperText(text)
  <2> SUFFICES ASSUME NEW a \in Axes PROVE Sound(a, text[a])
    BY DEF ProperText
  <2>1. Sound(a, Loaded[a])
    BY LoadedIsProper
  <2>2. Loaded = [x \in Axes |-> Loaded[x]]
    BY DEF Loaded, Merged, Defaults, Axes
  <2>3. a = "pacing" => incoming[a] = Entry("history", "inferred") /\ Sound(a, incoming[a])
    BY <2>2 DEF Sound, Proper
  <2>4. a # "pacing" => incoming[a] = Loaded[a]
    BY <2>2
  <2>5. text[a] = incoming[a] \/ text[a] = Loaded[a]
    BY DEF Merge
  <2> QED  BY <2>1, <2>3, <2>4, <2>5
<1>3. record = [at |-> "loaded", text |-> text, entry |-> Idle.entry]
  <2>1. record = WithText(Idle, "loaded", text)
    BY DEF WithText
  <2> QED  BY <2>1, IdleIsARecord, TextPlaced
<1> HIDE DEF text, record
<1>4. record.at \notin Fitting /\ ProperText(record.text)
  BY <1>2, <1>3 DEF Fitting
<1> QED  BY <1>1, <1>4, ProperMoves

LEMMA ProperEmptied == ASSUME FitInv, ProperInv, NEW p \in Processes, SaveEmpties(p) PROVE ProperInv'
<1> DEFINE record == [process[p] EXCEPT !.at = "emptied"]
<1>1. Goes(p, record) /\ file' = Empty /\ process[p].at = "loaded"
  BY DEF SaveEmpties, At
<1>2. record = [at |-> "emptied", text |-> process[p].text, entry |-> process[p].entry]
  BY DEF FitInv, FitShapes
<1> HIDE DEF record
<1>3. record.at \notin Fitting /\ ProperText(record.text)
  BY <1>1, <1>2 DEF Fitting, Saving, ProperInv
<1> QED  BY <1>1, <1>3, ProperMoves

LEMMA FitIsFair ==
  ASSUME NEW pairs, Telling(pairs), NEW prefs, prefs.tolerance \in Nat
  PROVE  Fit(pairs, prefs) \in Multipliers
<1>1. Telling(Real(pairs)) /\ Search(pairs, prefs) \in Vectors
  BY ThoseTell, SearchFinds DEF Real
<1> QED  BY <1>1, NeutralIsAVector DEF Fit

LEMMA ProperFitted == ASSUME FitInv, ProperInv, Telling(answers), NEW p \in Processes, NEW labeler, TuneFits(p, labeler) PROVE ProperInv'
<1> DEFINE prefs == Prefs(Loaded)
           pairs == PairsBy(answers, labeler)
           fit == [params |-> Fit(pairs, prefs), labeler |-> labeler, pairs |-> Len(pairs), under |-> prefs]
           record == [Idle EXCEPT !.at = "fitted", !.entry = Entry(fit, "inferred")]
<1>1. Goes(p, record) /\ UNCHANGED file
  BY DEF TuneFits
<1>2. prefs.tolerance \in Nat /\ prefs.surface \in Surfaces
  <2>1. "tolerance" \in Axes /\ "surface" \in Axes
    BY DEF Axes
  <2>2. Sound("tolerance", Loaded["tolerance"]) /\ Sound("surface", Loaded["surface"])
    BY <2>1, LoadedIsProper
  <2> QED  BY <2>2 DEF Sound, Proper, Prefs
<1>3. Fair(fit)
  <2>1. Fit(pairs, prefs) \in Multipliers
    BY <1>2, OnesAnswersTell, FitIsFair
  <2> QED  BY <1>2, <2>1 DEF Fair
<1>4. record = [at |-> "fitted", text |-> Idle.text, entry |-> Entry(fit, "inferred")]
  <2>1. record = WithEntry(Idle, "fitted", Entry(fit, "inferred"))
    BY DEF WithEntry
  <2> QED  BY <2>1, IdleIsARecord, EntryPlaced
<1> HIDE DEF fit, record
<1>5. record.at \notin Saving /\ record.entry = Entry(fit, "inferred")
  BY <1>4 DEF Saving
<1> QED  BY <1>1, <1>3, <1>5, ProperMoves

LEMMA ProperRedrawn == ASSUME FitInv, ProperInv, NEW p \in Processes, TuneRedraws(p) PROVE ProperInv'
<1> DEFINE record == [process[p] EXCEPT !.at = "passed"]
<1>1. PICK fit : process[p].entry = Entry(fit, "inferred") /\ Fair(fit)
  BY DEF ProperInv, TuneRedraws, At, Fitting
<1>2. UNCHANGED file /\ (Goes(p, Idle) \/ Goes(p, record))
  BY DEF TuneRedraws
<1>3. CASE Goes(p, Idle)
  BY <1>2, <1>3, ProperRests
<1>4. CASE Goes(p, record)
  <2>1. record = [at |-> "passed", text |-> process[p].text, entry |-> process[p].entry]
    BY DEF FitInv, FitShapes
  <2> HIDE DEF record
  <2>2. record.at \notin Saving /\ record.entry = Entry(fit, "inferred")
    BY <1>1, <2>1 DEF Saving
  <2> QED  BY <1>1, <1>2, <1>4, <2>2, ProperMoves
<1> QED  BY <1>2, <1>3, <1>4

LEMMA ProperStaged == ASSUME FitInv, ProperInv, NEW p \in Processes, TuneStages(p) PROVE ProperInv'
<1> DEFINE text == IF Exists THEN file ELSE Empty
           written == [text EXCEPT !["routing"] = process[p].entry]
           record == [process[p] EXCEPT !.at = "staged", !.text = written]
<1>1. /\ At(p, "passed") /\ UNCHANGED file
      /\ Goes(p, Idle) \/ Goes(p, record)
  BY DEF TuneStages
<1>2. PICK fit : process[p].entry = Entry(fit, "inferred") /\ Fair(fit)
  BY <1>1 DEF ProperInv, At, Fitting
<1>3. CASE Goes(p, Idle)
  BY <1>1, <1>3, ProperRests
<1>4. CASE Goes(p, record)
  <2>1. Text(text) /\ ProperText(text)
    BY DEF FitInv, FitShapes, ProperInv, Text, Empty, ProperText
  <2>2. record = [at |-> "staged", text |-> written, entry |-> process[p].entry]
    <3>1. record = WithText(process[p], "staged", written)
      BY DEF WithText
    <3> QED  BY <3>1, TextPlaced DEF FitInv, FitShapes
  <2>3. Goes(p, record)
    BY <1>4
  <2> HIDE DEF record, text
  <2>4. \A a \in Axes : written[a] = IF a = "routing" THEN Entry(fit, "inferred") ELSE text[a]
    BY <1>2, <2>1 DEF Text
  <2>5. Sound("routing", Entry(fit, "inferred"))
    <3>1. Entry(fit, "inferred").value = fit
      BY DEF Entry
    <3> QED  BY <1>2, <3>1 DEF Sound, Proper, Fair
  <2>6. ProperText(written)
    BY <2>1, <2>4, <2>5 DEF ProperText
  <2> HIDE DEF written
  <2>7. ProperText(record.text) /\ record.entry = Entry(fit, "inferred")
    BY <1>2, <2>2, <2>6
  <2> QED  BY <1>1, <1>2, <2>3, <2>7, ProperMoves
<1> QED  BY <1>1, <1>3, <1>4

LEMMA ProperStep == FitInv /\ ProperInv /\ Telling(answers) /\ [Next]_vars => ProperInv'
<1> SUFFICES ASSUME FitInv, ProperInv, Telling(answers), [Next]_vars PROVE ProperInv'
  OBVIOUS
<1>1. ASSUME NEW axis \in DOMAIN Edits, NEW value \in Edits[axis], Edit(axis, value) PROVE ProperInv'
  BY <1>1, ProperEdited
<1>2. ASSUME NEW p \in Processes, Saves(p) PROVE ProperInv'
  <2>1. CASE SaveFills(p) \/ TuneReplaces(p)
    BY <2>1, ProperRests DEF SaveFills, TuneReplaces, At, Saving
  <2> QED  BY <1>2, <2>1, ProperIngested, ProperEmptied, ProperRedrawn, ProperStaged DEF Saves
<1>3. ASSUME NEW p \in Processes, Crash(p) PROVE ProperInv'
  BY <1>3, ProperRests DEF Crash
<1>4. ASSUME NEW p \in Processes, NEW who, TuneFits(p, who) PROVE ProperInv'
  BY <1>4, ProperFitted
<1>5. CASE UNCHANGED vars
  BY <1>5 DEF vars, ProperInv, ProperText, Sound, Fair, IsFit, Exists
<1> QED  BY <1>1, <1>2, <1>3, <1>4, <1>5 DEF Next

\* The pairs are the runner's answers to questions, and nothing here writes them.
LEMMA PairsStay ==
  /\ Init => Telling(answers)
  /\ Telling(answers) /\ [Next]_vars => Telling(answers)'
<1>1. ASSUME Init PROVE Telling(answers)
  <2>1. PICK silent \in Silent(Tasks), f \in [Tasks -> {"a", "b"}] :
          answers = Pairs([t \in DOMAIN f |-> IF t \in silent THEN "none" ELSE f[t]])
    BY <1>1 DEF Init
  <2> QED  BY <2>1, AnswersTell
<1>2. [Next]_vars => answers' = answers
  BY DEF Next, vars, Saves, Edit, IngestLoads, SaveEmpties, SaveFills, TuneFits, TuneRedraws, TuneStages,
         TuneReplaces, Crash
<1>3. Telling(answers) /\ answers' = answers => Telling(answers)'
  BY DEF Telling, Evidence, Summed
<1> QED  BY <1>1, <1>2, <1>3

LEMMA ProfileIsRead == Spec => [](FitInv /\ ProperInv /\ Telling(answers))
<1>1. Init => FitInv /\ ProperInv /\ Telling(answers)
  <2>1. Init => FitInv /\ ProperInv
    BY DEF Init, FitInv, FitShapes, SavedFitPassed, ProperInv, Exists, Idle, Saving, Fitting
  <2> QED  BY <2>1, PairsStay
<1>2. FitInv /\ ProperInv /\ Telling(answers) /\ [Next]_vars => FitInv' /\ ProperInv' /\ Telling(answers)'
  BY FitStep, ProperStep, PairsStay
<1> QED  BY <1>1, <1>2, PTL DEF Spec

\* What the gates let through was earned: the refusals say it goes no longer way than they
\* tolerate and that there are answers enough, and of a search that returned anything else
\* than neutral, that neutral scored less.
LEMMA PassedIsEarned ==
  ASSUME NEW fit, Fitted(fit), Fair(fit), Telling(answers)
  PROVE  LET own == Those(answers, {i \in DOMAIN answers : answers[i].by = fit.labeler})
             applied == Effective(fit.params, fit.under.surface)
             plain == Effective(Neutral, fit.under.surface)
         IN  /\ Len(own) >= MinPairs /\ fit.pairs = Len(own)
             /\ Agreement(own, applied) > Agreement(own, plain) \/ Detours(own, plain, fit.under.tolerance) > 0
             /\ \A i \in DOMAIN own :
                  100 * LengthOf(Picked(own[i], applied).summary) <= (100 + fit.under.tolerance) * Shorter(own[i])
<1> DEFINE own == Those(answers, {i \in DOMAIN answers : answers[i].by = fit.labeler})
           applied == Effective(fit.params, fit.under.surface)
           plain == Effective(Neutral, fit.under.surface)
           tolerance == fit.under.tolerance
<1>1. /\ fit.params = Fit(PairsBy(answers, fit.labeler), fit.under) /\ fit.pairs = Len(PairsBy(answers, fit.labeler))
      /\ ~Refused(PairsBy(answers, fit.labeler), fit.params, fit.under, fit.labeler)
  BY DEF Fitted
<1>2. fit.labeler # Nobody
  BY <1>1 DEF Refused
<1>3. own = PairsBy(answers, fit.labeler)
  BY <1>2 DEF PairsBy
<1>4. Telling(own) /\ tolerance \in Nat
  BY <1>3, OnesAnswersTell DEF Fair
<1>5. ~Refused(own, fit.params, fit.under, fit.labeler) /\ fit.pairs = Len(own) /\ fit.params = Fit(own, fit.under)
  BY <1>1, <1>3
<1> HIDE DEF own
<1>6. Len(Real(own)) \in Nat /\ Len(Real(own)) <= Len(own) /\ Len(own) \in Nat
  BY <1>4, ThoseTell, TellingIs DEF Real
<1>7. ~(Len(Real(own)) < MinPairs) /\ fit.params # Neutral /\ ~(Detours(own, applied, tolerance) > 0)
  BY <1>5 DEF Refused, IsNeutral
<1>8. Len(own) >= MinPairs
  BY <1>6, <1>7, TuningAssumption
<1>9. fit.params = Search(own, fit.under)
  BY <1>5, <1>7 DEF Fit
<1>10. Score(own, plain, tolerance) < Score(own, applied, tolerance)
  BY <1>4, <1>7, <1>9, SearchFinds
<1>11. Detours(own, applied, tolerance) = 0 /\ Detours(own, plain, tolerance) \in Nat
  BY <1>4, <1>7, DetoursAre
<1>12. \A i \in DOMAIN own :
         100 * LengthOf(Picked(own[i], applied).summary) <= (100 + tolerance) * Shorter(own[i])
  BY <1>4, <1>11, DetoursAre
<1>13. ASSUME Detours(own, plain, tolerance) = 0 PROVE Agreement(own, applied) > Agreement(own, plain)
  <2> DEFINE a == Agreement(own, applied)
             b == Agreement(own, plain)
             w == 2 * Weights(own)
  <2>1. a \in Nat /\ b \in Nat /\ w \in Nat
    BY <1>4, AgreementIs
  <2>2. Penalty(own, applied, tolerance) = 0 /\ Penalty(own, plain, tolerance) = 0
    BY <1>4, <1>11, <1>13, PenaltyIs
  <2>3. Score(own, plain, tolerance) = Percent(b, w) - 0 /\ Score(own, applied, tolerance) = Percent(a, w) - 0
    BY <2>2 DEF Score
  <2> HIDE DEF a, b, w
  <2>4. Percent(a, w) \in Int /\ Percent(b, w) \in Int
    BY <2>1, PercentIs
  <2>5. Percent(b, w) < Percent(a, w)
    BY <1>10, <2>3, <2>4
  <2>6. b < a
    BY <2>1, <2>5, PercentIs
  <2>7. a > b
    BY <2>1, <2>6
  <2> QED  BY <2>7 DEF a, b
<1>14. Agreement(own, applied) > Agreement(own, plain) \/ Detours(own, plain, tolerance) > 0
  BY <1>11, <1>13
<1> QED  BY <1>5, <1>8, <1>12, <1>14 DEF own

\* A fit that is in the file was earned by the one it is for, from any answers between any
\* lines: enough of them their own; more often on their side than no preference, where that
\* goes nowhere too far for them; and no longer way than they tolerated (search, refusals,
\* adopt, save_entry).
THEOREM SavedFitsAreEarned == Spec => []FitIsEarned
<1>1. FitInv /\ ProperInv /\ Telling(answers) => FitIsEarned
  <2> SUFFICES ASSUME FitInv, ProperInv, Telling(answers), Exists, IsFit(file["routing"])
               PROVE  FitIsEarned
    BY DEF FitIsEarned
  <2> DEFINE fit == file["routing"].value
  <2>1. Fitted(fit)
    BY DEF FitInv, SavedFitPassed, Passes, PassedFit
  <2>2. Fair(fit)
    BY DEF ProperInv, ProperText, Sound, IsFit, Axes
  <2> HIDE DEF fit
  <2> QED  BY <2>1, <2>2, PassedIsEarned DEF FitIsEarned, fit
<1> QED  BY <1>1, ProfileIsRead, PTL

\* Whatever is in the file, and whether or not the graph has levels, the rules a plan is drawn
\* with only ever multiply by less than one; of any two ways that no class takes below the
\* fitter's floor, the router is told the ratio that the fitter costs them by; and a line that
\* the fitter prefers, and the router would under the multipliers as they are, is preferred
\* under the rules (to_custom_model, _term, effective_params, cost).
THEOREM PlansAreDrawnAsCosted == Spec => []DrawnAsCosted
<1>1. FitInv /\ ProperInv => DrawnAsCosted
  <2> SUFFICES ASSUME ProperInv, NEW flag \in Flags, NEW hasLts \in BOOLEAN, NEW drawn,
                      drawn = Draw(Loaded, flag, hasLts)
               PROVE  /\ \A t \in drawn.model : t.by < 0
                      /\ \A c, d \in Known(drawn) :
                           RouterExponent(drawn.model, c) - RouterExponent(drawn.model, d)
                             = Exponent(drawn.applied, c) - Exponent(drawn.applied, d)
                      /\ \A n \in DOMAIN Networks : \A x, y \in Range(Networks[n]) :
                           /\ OnKnownWays(drawn, x) /\ OnKnownWays(drawn, y) /\ RatedAlike(x, y)
                           /\ Cost(drawn.applied, Summary(x)) < Cost(drawn.applied, Summary(y))
                           /\ Wished(drawn.applied, x) < Wished(drawn.applied, y)
                           => RouterCost(drawn.model, x) < RouterCost(drawn.model, y)
    BY DEF DrawnAsCosted, Plans
  <2> DEFINE v == DrawnWith(Loaded["routing"].value.params, flag)
             surface == Loaded["surface"].value
             eff == Effective(v, surface)
             told == Told(v, surface, hasLts)
  <2>1. "routing" \in Axes /\ "surface" \in Axes
    BY DEF Axes
  <2>2. Sound("routing", Loaded["routing"]) /\ Sound("surface", Loaded["surface"])
    BY <2>1, LoadedIsProper
  <2>3. Loaded["routing"].value.params \in Multipliers /\ surface \in Surfaces
    BY <2>2 DEF Sound, Proper
  <2>4. v \in Leanings
    BY <2>3, NeutralIsAVector, MultipliersLean DEF DrawnWith
  <2>5. drawn.hasLts = hasLts /\ drawn.applied = eff /\ drawn.model = CustomModel(v, surface, hasLts)
    BY DEF Draw
  <2> HIDE DEF v, surface
  <2>6. drawn.model = ModelOf(told) /\ told \in Leanings
    BY <2>3, <2>4, <2>5, ModelsAre, ToldLeans
  <2>7. \A class \in SUBSET ParameterNames : hasLts \/ class \cap Levels = {} =>
          Exponent(told, class) = Exponent(eff, class)
    BY <2>3, <2>4, ToldLeans
  <2> HIDE DEF eff, told
  <2>8. \A c \in Known(drawn) : Alike(eff, told, c)
    BY <2>5, <2>7 DEF Known, Classes, WayClass, Alike
  <2>9. \A t \in drawn.model : t.by < 0
    BY <2>6, TermsAre DEF Leanings
  <2>10. ASSUME NEW c \in Known(drawn), NEW d \in Known(drawn)
         PROVE  RouterExponent(drawn.model, c) - RouterExponent(drawn.model, d)
                  = Exponent(drawn.applied, c) - Exponent(drawn.applied, d)
    <3>1. /\ Exponent(eff, c) \in Int /\ Lift(told) \in Nat
          /\ RouterExponent(ModelOf(told), c) = Exponent(eff, c) - Lift(told)
      BY <2>6, <2>8, WaysAreTold
    <3>2. /\ Exponent(eff, d) \in Int
          /\ RouterExponent(ModelOf(told), d) = Exponent(eff, d) - Lift(told)
      BY <2>6, <2>8, WaysAreTold
    <3> QED  BY <2>5, <2>6, <3>1, <3>2
  <2>11. ASSUME NEW n \in DOMAIN Networks, NEW x \in Range(Networks[n]), NEW y \in Range(Networks[n]),
                OnKnownWays(drawn, x), OnKnownWays(drawn, y), RatedAlike(x, y),
                Cost(drawn.applied, Summary(x)) < Cost(drawn.applied, Summary(y)),
                Wished(drawn.applied, x) < Wished(drawn.applied, y)
         PROVE  RouterCost(drawn.model, x) < RouterCost(drawn.model, y)
    <3>1. Laid(x) /\ Laid(y)
      BY NetworkAssumption DEF Laid
    <3>2. \A s \in x \cup y : Alike(eff, told, WayClass(s.tags))
      BY <2>8, <2>11 DEF OnKnownWays
    <3> QED  BY <2>5, <2>6, <2>11, <3>1, <3>2, DrawnAsWished
  <2> QED  BY <2>9, <2>10, <2>11
<1> QED  BY <1>1, ProfileIsRead, PTL
=============================================================================
