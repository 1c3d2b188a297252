------------------------------ MODULE PlanEdits ------------------------------
(***************************************************************************)
(* The gestures that change a stored plan: lock, unlock, avoid and choose, *)
(* each an HTTP handler of api/app.py that submits one job to the runner,  *)
(* and the same made in a shell (longrun edit, longrun refresh, the tools),*)
(* where a line may also be drawn again or only scored again.  Each reads  *)
(* plan.json, changes what it read, and overwrites the file; up to         *)
(* MaxWorkers jobs are at it at once, and any number of shells.            *)
(*                                                                         *)
(* A line is a sequence of streets of one length; the distance of a piece  *)
(* is its place in it.  A scorer's result is the set of pieces, place and  *)
(* street, that it measured.  Two streets may run between the same two     *)
(* corners.                                                                *)
(***************************************************************************)
EXTENDS RangeLocks, FiniteSets, Sequences

CONSTANTS
  Streets,      \* the streets of the area
  Ends,         \* the two corners of each, as it is run along
  Line,         \* the line the plan was stored with
  StoredLocks,  \* and its locks; one area is avoided already
  Scorers,      \* the registered scorers
  Edits,        \* the gestures there may be, each at most once
  MaxWorkers,   \* max_workers
  Torn          \* how a file reads between its truncation and its write

VARIABLES
  file,         \* plan.json
  job,          \* the job of each gesture: its place, and the plan it holds
  queue,        \* the gestures submitted and not started, in order
  together      \* whether a gesture was made while another's job was at work: the
                \* page disables its buttons then, and no handler refuses it;
                \* or a process was killed while it wrote

vars == <<file, job, queue, together>>

-----------------------------------------------------------------------------
Kinds == {"lock", "unlock", "avoid", "choose", "reroute", "refresh"}
Scored(e) == e.kind \in {"choose", "reroute", "refresh"}
Lines == Seq(Streets)

\* A gesture: its range, whose locks an unlock may release, the streets a choose
\* puts in or a router draws, and the scorers that are run again, which are closed
\* under what they read.
Gestures == [kind : Kinds, from : Nat, to : Nat, whose : {"any", "user"},
             streets : Lines, only : SUBSET Scorers, by : {"page", "shell"}]

ASSUME EditsAssumption ==
  /\ DOMAIN Ends = Streets
  /\ Line \in Lines /\ StoredLocks \subseteq {l \in Locks : Valid(l)}
  /\ Edits \subseteq Gestures /\ \A e \in Edits : e.from < e.to
  /\ MaxWorkers \in Nat \ {0}

Measured(line) == {<<i, line[i]>> : i \in DOMAIN line}

StoredPlan == [line |-> Line, results |-> [s \in Scorers |-> Measured(Line)],
               locked |-> StoredLocks, avoid |-> <<0>>]

Waiting == [at |-> "none", plan |-> StoredPlan]
Places == {"none", "queued", "working", "rescoring", "ready", "writing", "done", "failed"}

Loads(f) == f # Torn
AtWork(e) == job[e].at \in {"working", "rescoring", "ready", "writing"}
Settled(e) == job[e].at \in {"none", "done", "failed"}

-----------------------------------------------------------------------------
\* _edit_request: what the gesture changes of the request, and nothing else.
NextArea(plan) == Len(plan.avoid)
Requested(plan, e) ==
  CASE e.kind = "lock"   -> [plan EXCEPT !.locked = LockRange(@, e.from, e.to, "user")]
    [] e.kind = "unlock" -> [plan EXCEPT !.locked = UnlockRange(@, e.from, e.to, e.whose)]
    [] e.kind = "avoid"  -> [plan EXCEPT !.avoid = Append(@, NextArea(plan))]

\* splice: an edit may not consume an end of the line.
Spliceable(line, e) == 0 < e.from /\ e.to < Len(line)
Spliced(line, e) ==
  SubSeq(line, 1, e.from) \o e.streets \o SubSeq(line, e.to + 1, Len(line))

\* map_segments: a measurement is carried when the new line has a piece at its distance
\* that starts and finishes where the old line's piece did; nothing between is compared.
CarriedByDistance(measured, old, new) ==   \* a bug: only the distance is compared
  {m \in measured : m[1] \in DOMAIN old \cap DOMAIN new}
Carried(measured, old, new) ==
  {m \in measured : m[1] \in DOMAIN old \cap DOMAIN new /\ Ends[new[m[1]]] = Ends[old[m[1]]]}

\* rescore_plan, for a new line.
Rescored(plan, line, only) ==
  [plan EXCEPT !.line = line,
               !.results = [s \in Scorers |-> IF s \in only THEN Measured(line)
                                              ELSE Carried(plan.results[s], plan.line, line)]]

\* _choose_alternative: splice, lock what was chosen, and score the new line.
Chosen(plan, e) ==
  Rescored([plan EXCEPT !.locked = LockRange(@, e.from, e.to, "user")],
           Spliced(plan.line, e), e.only)

\* A line that is drawn again is drawn whole: a lock does not hold it (redraw).
Redrawn(plan, e) == Rescored(plan, e.streets, e.only)
Refreshed(plan, e) == Rescored(plan, plan.line, e.only)
Edited(plan, e) ==
  CASE e.kind = "choose"  -> Chosen(plan, e)
    [] e.kind = "reroute" -> Redrawn(plan, e)
    [] e.kind = "refresh" -> Refreshed(plan, e)

-----------------------------------------------------------------------------
Init ==
  /\ file = StoredPlan
  /\ job = [e \in Edits |-> Waiting]
  /\ queue = <<>>
  /\ together = FALSE

Go(e, place) == job' = [job EXCEPT ![e].at = place]

\* A handler: the range was validated, and the job is submitted.
Alone == together' = (together \/ \E d \in Edits : ~Settled(d))
Submit(e) ==
  /\ job[e].at = "none" /\ e.by = "page"
  /\ Go(e, "queued") /\ queue' = Append(queue, e)
  /\ Alone
  /\ UNCHANGED file

\* A command is a process of its own, which nothing queues, and which may be killed.
Run(e) ==
  /\ job[e].at = "none" /\ e.by = "shell"
  /\ Go(e, "working")
  /\ Alone
  /\ UNCHANGED <<file, queue>>
Kill(e) ==
  /\ AtWork(e) /\ e.by = "shell"
  /\ Go(e, "failed")
  /\ together' = (together \/ job[e].at = "writing")
  /\ UNCHANGED <<file, queue>>

StartLeaking(e) ==   \* a bug: a thread is lost to the job that failed in it
  /\ queue # <<>> /\ e = Head(queue)
  /\ Cardinality({d \in Edits : d.by = "page" /\ (AtWork(d) \/ job[d].at = "failed")}) < MaxWorkers
  /\ Go(e, "working") /\ queue' = Tail(queue)
  /\ UNCHANGED <<file, together>>
Start(e) ==
  /\ queue # <<>> /\ e = Head(queue)
  /\ Cardinality({d \in Edits : d.by = "page" /\ AtWork(d)}) < MaxWorkers
  /\ Go(e, "working") /\ queue' = Tail(queue)
  /\ UNCHANGED <<file, together>>

ReadOnce(e) ==   \* a bug: the plan was read when the server started
  /\ job[e].at = "working" /\ ~Scored(e)
  /\ job' = [job EXCEPT ![e] = [at |-> "ready", plan |-> Requested(StoredPlan, e)]]
  /\ UNCHANGED <<file, queue, together>>

\* The file is read, and a request-level gesture is applied; one that cannot be
\* read fails the job, and so does a splice that has no line to leave.
Read(e) ==
  /\ job[e].at = "working"
  /\ CASE ~Loads(file) -> Go(e, "failed")
       [] Loads(file) /\ ~Scored(e) ->
            job' = [job EXCEPT ![e] = [at |-> "ready", plan |-> Requested(file, e)]]
       [] Loads(file) /\ Scored(e) ->
            IF e.kind = "choose" => Spliceable(file.line, e)
            THEN job' = [job EXCEPT ![e] = [at |-> "rescoring", plan |-> file]]
            ELSE Go(e, "failed")
  /\ UNCHANGED <<file, queue, together>>

\* The line is drawn, the context opened and the line scored, or one of them raises.
Rescore(e) ==
  /\ job[e].at = "rescoring"
  /\ \/ job' = [job EXCEPT ![e] = [at |-> "ready", plan |-> Edited(job[e].plan, e)]]
     \/ Go(e, "failed")
  /\ UNCHANGED <<file, queue, together>>

Truncate(e) ==
  /\ job[e].at = "ready"
  /\ file' = Torn /\ Go(e, "writing")
  /\ UNCHANGED <<queue, together>>

\* Each writer fills the file from its start: over a longer text that another
\* wrote since, the end of that text stays, and the file does not parse.
Write(e) ==
  /\ job[e].at = "writing"
  /\ \/ file' = job[e].plan
     \/ Loads(file) /\ file' = Torn
  /\ Go(e, "done")
  /\ UNCHANGED <<queue, together>>

Step(e) == Start(e) \/ Read(e) \/ Rescore(e) \/ Truncate(e) \/ Write(e)
Next == \E e \in Edits : Submit(e) \/ Run(e) \/ Step(e) \/ Kill(e)

Spec == Init /\ [][Next]_vars
FairSpec == Spec /\ \A e \in Edits : WF_vars(Step(e))

-----------------------------------------------------------------------------
Plans == [line : Lines, results : [Scorers -> SUBSET (Nat \X Streets)],
          locked : SUBSET Locks, avoid : Seq(Nat)]

\* The shape of the stored plan and of the jobs at it.
TypeOK ==
  /\ Loads(file) => file \in Plans
  /\ job \in [Edits -> [at : Places, plan : Plans]]
  /\ queue \in Seq(Edits)

\* However gestures interleave, and however often a measurement was carried, it is of a
\* street between the two corners of the street its line has there.  It need not be of
\* that street: one of the same length between the same corners, put in its place, keeps
\* what the scorers that are not run again had measured of the other (map_segments).
MeasuredWhereItIs(plan) ==
  \A s \in Scorers : \A m \in plan.results[s] :
    m[1] \in DOMAIN plan.line /\ Ends[plan.line[m[1]]] = Ends[m[2]]
NoStaleMeasurement == Loads(file) => MeasuredWhereItIs(file)

\* A plan that was written can be read again: no lock in it is without length, which
\* LockedRange would refuse to load and model_copy does not (unlock_range).
LocksLoad == Loads(file) => \A lock \in file.locked : Valid(lock)

\* No two avoid areas of a plan share an id, or the router would honour one of them
\* (add_plan_avoid; graphhopper.route_body makes a rule of each id).
AreasDistinct ==
  Loads(file) => \A i, j \in DOMAIN file.avoid : file.avoid[i] = file.avoid[j] => i = j

\* What a gesture stores the next command can work with (RangeLocks, graphhopper.py).
EveryPlanIsUsable == LocksLoad /\ AreasDistinct

\* "Unlock what I locked" leaves the loop's own locks standing: ground the loop had
\* locked stays locked unless a gesture for anyone's locks covered it (unlock_range).
LoopLocksStand ==
  Loads(file) =>
    \A m \in 0 .. Len(Line) :
      Holds(StoredLocks, m, "loop") =>
        \/ Holds(file.locked, m, "loop")
        \/ \E e \in Edits : /\ e.kind = "unlock" /\ e.whose = "any" /\ e.from <= m /\ m < e.to
                            /\ job[e].at \notin {"none", "queued"}

\* As long as they are made one at a time, every gesture that did not fail is in the
\* plan, applied whole to the plan the one before it left.
After(plan, e) == IF Scored(e) THEN Edited(plan, e) ELSE Requested(plan, e)
Writer == CHOOSE e \in Edits : job[e].at = "writing"
Sequential == INSTANCE PlanGestures WITH
  made <- IF together THEN Edits ELSE {e \in Edits : job[e].at \in {"writing", "done"}},
  plan <- IF together THEN Torn
          ELSE IF Loads(file) THEN file ELSE job[Writer].plan,
  Nothing <- Torn
OneAtATimeIsAtomic == Sequential!Spec

\* A gesture that was accepted ends, done or failed, and so frees the page; and so
\* does a command, whatever the page's jobs do.
GesturesEnd == \A e \in Edits : job[e].at \in {"queued", "working"} ~> job[e].at \in {"done", "failed"}

=============================================================================
