--------------------------- MODULE PlanEditsProofs ---------------------------
(***************************************************************************)
(* However many gestures there are and however their jobs interleave, what *)
(* is stored is one whole plan or no plan.  The inductive invariant says   *)
(* of the plans that jobs hold what the properties say of the stored one:  *)
(* any of them may be stored next.                                         *)
(***************************************************************************)
EXTENDS PlanEdits, SequenceTheorems, TLAPS

-----------------------------------------------------------------------------
\* What unlock_range keeps and what it frees, for every list of locks and every range.
Whose == {"any"} \cup Sources

\* What is left of the locks are locks, of the length the validator asks for
\* (unlock_range's model_copy).
LEMMA UnlockValid ==
  ASSUME NEW locked \in SUBSET Locks, \A l \in locked : Valid(l),
         NEW from \in Nat, NEW to \in Nat, NEW whose \in Whose
  PROVE  /\ UnlockRange(locked, from, to, whose) \in SUBSET Locks
         /\ \A l \in UnlockRange(locked, from, to, whose) : Valid(l)
<1> DEFINE freed == Freed(locked, from, to, whose)
<1>0. /\ freed \subseteq locked
      /\ \A l \in locked : /\ l.from \in Nat /\ l.to \in Nat /\ l.source \in Sources
                           /\ l.from < l.to
  BY DEF Freed, Locks, Valid
<1>1. \A l \in Heads(freed, from) : l \in Locks /\ Valid(l)
  BY <1>0 DEF Heads, Lock, Locks, Valid
<1>2. \A l \in Tails(freed, to) : l \in Locks /\ Valid(l)
  BY <1>0 DEF Tails, Lock, Locks, Valid
<1> QED  BY <1>0, <1>1, <1>2 DEF UnlockRange

\* An unlock frees the ground of its range from the locks it may take apart, and
\* leaves every other metre under whoever's lock it was (unlock_range).
THEOREM UnlockFreesItsRange ==
  ASSUME NEW locked \in SUBSET Locks,
         NEW from \in Nat, NEW to \in Nat, NEW whose \in Whose,
         NEW m \in Nat, NEW source \in Sources
  PROVE  Holds(UnlockRange(locked, from, to, whose), m, source)
           <=> /\ Holds(locked, m, source)
               /\ ~(whose \in {"any", source} /\ from <= m /\ m < to)
<1> DEFINE freed == Freed(locked, from, to, whose)
           left == UnlockRange(locked, from, to, whose)
           inside == whose \in {"any", source} /\ from <= m /\ m < to
<1>0. \A l \in locked : l.from \in Nat /\ l.to \in Nat
  BY DEF Locks
<1>1. ASSUME Holds(left, m, source)
      PROVE  Holds(locked, m, source) /\ ~inside
  <2>1. PICK l \in left : l.source = source /\ l.from <= m /\ m < l.to
    BY <1>1 DEF Holds
  <2>2. CASE l \in locked \ freed
    BY <1>0, <2>1, <2>2 DEF Holds, Freed, Releases
  <2>3. CASE l \in Heads(freed, from)
    <3>1. PICK k \in freed : k.from < from /\ l = Lock(k.from, from, k.source)
      BY <2>3 DEF Heads
    <3> QED  BY <1>0, <2>1, <3>1 DEF Holds, Freed, Releases, Lock
  <2>4. CASE l \in Tails(freed, to)
    <3>1. PICK k \in freed : k.to > to /\ l = Lock(to, k.to, k.source)
      BY <2>4 DEF Tails
    <3> QED  BY <1>0, <2>1, <3>1 DEF Holds, Freed, Releases, Lock
  <2> QED  BY <2>1, <2>2, <2>3, <2>4 DEF UnlockRange
<1>2. ASSUME Holds(locked, m, source), ~inside
      PROVE  Holds(left, m, source)
  <2>1. PICK l \in locked : l.source = source /\ l.from <= m /\ m < l.to
    BY <1>2 DEF Holds
  <2>2. CASE l \notin freed
    BY <2>1, <2>2 DEF Holds, UnlockRange
  <2>3. CASE l \in freed /\ m < from
    <3>1. Lock(l.from, from, l.source) \in left
      BY <1>0, <2>1, <2>3 DEF UnlockRange, Heads
    <3> QED  BY <2>1, <2>3, <3>1 DEF Holds, Lock
  <2>4. CASE l \in freed /\ m >= to
    <3>1. Lock(to, l.to, l.source) \in left
      BY <1>0, <2>1, <2>4 DEF UnlockRange, Tails
    <3> QED  BY <2>1, <2>4, <3>1 DEF Holds, Lock
  <2>5. l \in freed => whose \in {"any", source}
    BY <2>1 DEF Freed, Releases
  <2> QED  BY <1>2, <2>2, <2>3, <2>4, <2>5
<1> QED  BY <1>1, <1>2

-----------------------------------------------------------------------------

\* An unlock for anyone's locks that has started covers this metre.
MayBeFreed(m) ==
  \E e \in Edits : /\ e.kind = "unlock" /\ e.whose = "any" /\ e.from <= m /\ m < e.to
                   /\ job[e].at \notin {"none", "queued"}

LoopGround(plan) ==
  \A m \in Nat : Holds(StoredLocks, m, "loop") => Holds(plan.locked, m, "loop") \/ MayBeFreed(m)

Numbered(plan) == \A i \in DOMAIN plan.avoid : plan.avoid[i] = i - 1
ValidLocks(plan) == \A lock \in plan.locked : Valid(lock)

\* What a gesture keeps of any plan.
Sound(plan) == MeasuredWhereItIs(plan) /\ ValidLocks(plan) /\ Numbered(plan)

MayScore(plan, e) == Scored(e) /\ (e.kind = "choose" => Spliceable(plan.line, e))
Scoring == \A e \in Edits : job[e].at = "rescoring" => MayScore(job[e].plan, e)

\* A plan a job will write holds the loop's locks; one it has only read may not matter.
Inv ==
  /\ TypeOK /\ Scoring
  /\ Loads(file) => Sound(file) /\ LoopGround(file)
  /\ \A e \in Edits : Sound(job[e].plan) /\ LoopGround(job[e].plan)

-----------------------------------------------------------------------------
\* The plan as it was stored is a plan, and sound.
LEMMA StoredPlanSound == StoredPlan \in Plans /\ Sound(StoredPlan)
<1>1. Line \in Seq(Streets) /\ StoredLocks \subseteq Locks /\ \A l \in StoredLocks : Valid(l)
  BY EditsAssumption DEF Lines
<1>2. Measured(Line) \subseteq Nat \X Streets
  BY <1>1 DEF Measured
<1>3. StoredPlan \in Plans
  BY <1>1, <1>2 DEF StoredPlan, Plans, Lines
<1>4. MeasuredWhereItIs(StoredPlan)
  BY <1>1 DEF MeasuredWhereItIs, StoredPlan, Measured
<1> QED  BY <1>1, <1>3, <1>4 DEF Sound, ValidLocks, Numbered, StoredPlan

\* A request-level gesture leaves a sound plan, with the loop's locks where no unlock
\* of anyone's covers them (_edit_request).
LEMMA RequestKeeps ==
  ASSUME NEW plan \in Plans, Sound(plan), NEW e \in Edits, ~Scored(e)
  PROVE  /\ Requested(plan, e) \in Plans /\ Sound(Requested(plan, e))
         /\ \A m \in Nat : Holds(plan.locked, m, "loop")
              => \/ Holds(Requested(plan, e).locked, m, "loop")
                 \/ e.kind = "unlock" /\ e.whose = "any" /\ e.from <= m /\ m < e.to
<1>0. e \in Gestures /\ e.from < e.to
  BY EditsAssumption
<1>1. CASE e.kind = "lock"
  <2> DEFINE locked == LockRange(plan.locked, e.from, e.to, "user")
  <2>1. Requested(plan, e) = [plan EXCEPT !.locked = locked]
    BY <1>1 DEF Requested
  <2>2. locked \subseteq Locks /\ \A l \in locked : Valid(l)
    BY <1>0 DEF Gestures, LockRange, Lock, Locks, Valid, Sources, Plans, Sound, ValidLocks
  <2>3. \A m \in Nat : Holds(plan.locked, m, "loop") => Holds(locked, m, "loop")
    BY DEF Holds, LockRange
  <2> QED  BY <2>1, <2>2, <2>3 DEF Plans, Sound, MeasuredWhereItIs, ValidLocks, Numbered
<1>2. CASE e.kind = "unlock"
  <2> DEFINE locked == UnlockRange(plan.locked, e.from, e.to, e.whose)
  <2>1. Requested(plan, e) = [plan EXCEPT !.locked = locked]
    BY <1>2 DEF Requested
  <2>0. /\ e.whose \in Whose /\ e.from \in Nat /\ e.to \in Nat /\ e.whose # "loop"
        /\ plan.locked \in SUBSET Locks /\ \A l \in plan.locked : Valid(l)
    BY <1>0 DEF Gestures, Whose, Sources, Plans, Sound, ValidLocks
  <2>2. locked \in SUBSET Locks /\ \A l \in locked : Valid(l)
    BY <2>0, UnlockValid
  <2>3. \A m \in Nat : Holds(plan.locked, m, "loop")
          => Holds(locked, m, "loop") \/ (e.whose = "any" /\ e.from <= m /\ m < e.to)
    <3> TAKE m \in Nat
    <3>1. "loop" \in Sources
      BY DEF Sources
    <3> QED  BY <2>0, <3>1, UnlockFreesItsRange
  <2> QED  BY <1>2, <2>1, <2>2, <2>3 DEF Plans, Sound, MeasuredWhereItIs, ValidLocks, Numbered
<1>3. CASE e.kind = "avoid"
  <2> DEFINE avoid == Append(plan.avoid, Len(plan.avoid))
  <2>1. Requested(plan, e) = [plan EXCEPT !.avoid = avoid]
    BY <1>3 DEF Requested, NextArea
  <2>2. plan.avoid \in Seq(Nat) /\ Len(plan.avoid) \in Nat
    BY DEF Plans
  <2>3. avoid \in Seq(Nat) /\ \A i \in DOMAIN avoid : avoid[i] = i - 1
    BY <2>2, AppendProperties DEF Sound, Numbered
  <2> QED  BY <2>1, <2>3 DEF Plans, Sound, MeasuredWhereItIs, ValidLocks, Numbered
<1> QED  BY <1>0, <1>1, <1>2, <1>3 DEF Gestures, Kinds, Scored

\* Scoring any line, in full or in part, leaves a sound plan (rescore_plan).
LEMMA RescoreKeeps ==
  ASSUME NEW plan \in Plans, Sound(plan), NEW line \in Lines, NEW only \in SUBSET Scorers
  PROVE  /\ Rescored(plan, line, only) \in Plans /\ Sound(Rescored(plan, line, only))
         /\ Rescored(plan, line, only).locked = plan.locked
<1> DEFINE results == [s \in Scorers |-> IF s \in only THEN Measured(line)
                                         ELSE Carried(plan.results[s], plan.line, line)]
<1>1. line \in Seq(Streets)
  BY DEF Lines
<1>2. Rescored(plan, line, only) = [plan EXCEPT !.line = line, !.results = results]
  BY DEF Rescored
<1>3. results \in [Scorers -> SUBSET (Nat \X Streets)]
  BY <1>1 DEF Measured, Carried, Plans
<1>4. \A s \in Scorers : \A m \in results[s] :
        m[1] \in DOMAIN line /\ Ends[line[m[1]]] = Ends[m[2]]
  BY <1>1 DEF Measured, Carried, Sound, MeasuredWhereItIs
<1> HIDE DEF results
<1>5. /\ Rescored(plan, line, only).locked = plan.locked /\ Rescored(plan, line, only).line = line
      /\ Rescored(plan, line, only).results = results /\ Rescored(plan, line, only).avoid = plan.avoid
  BY <1>2 DEF Plans
<1>6. Rescored(plan, line, only) \in Plans
  BY <1>2, <1>3 DEF Plans
<1>7. Sound(Rescored(plan, line, only))
  BY <1>4, <1>5 DEF Sound, MeasuredWhereItIs, ValidLocks, Numbered
<1> QED  BY <1>5, <1>6, <1>7

\* A line with a stretch replaced is a line (splice).
LEMMA SplicedIsALine ==
  ASSUME NEW line \in Lines, NEW e \in Edits, Spliceable(line, e)
  PROVE  Spliced(line, e) \in Lines
<1>0. e \in Gestures /\ e.from < e.to
  BY EditsAssumption
<1>1. /\ line \in Seq(Streets) /\ e.streets \in Seq(Streets)
      /\ e.from \in Nat /\ e.to \in Nat /\ e.to < Len(line)
  BY <1>0 DEF Lines, Gestures, Spliceable
<1>2. SubSeq(line, 1, e.from) \in Seq(Streets)
  <2>1. \A i \in 1 .. e.from : line[i] \in Streets
    BY <1>0, <1>1, ElementOfSeq
  <2> QED  BY <1>1, <2>1, SubSeqProperties
<1>3. SubSeq(line, e.to + 1, Len(line)) \in Seq(Streets)
  <2>1. \A i \in e.to + 1 .. Len(line) : line[i] \in Streets
    BY <1>1, ElementOfSeq
  <2> QED  BY <1>1, <2>1, SubSeqProperties
<1> QED  BY <1>1, <1>2, <1>3, ConcatProperties DEF Spliced, Lines

\* A gesture that scores a line, chosen, drawn again or the same, leaves a sound plan and
\* takes no lock off it (_choose_alternative, cli/edit.py, cli/refresh.py).
LEMMA EditKeeps ==
  ASSUME NEW plan \in Plans, Sound(plan), NEW e \in Edits, MayScore(plan, e)
  PROVE  /\ Edited(plan, e) \in Plans /\ Sound(Edited(plan, e))
         /\ plan.locked \subseteq Edited(plan, e).locked
<1>0. /\ e \in Gestures /\ e.from < e.to /\ e.streets \in Lines /\ e.only \in SUBSET Scorers
      /\ plan.line \in Lines
  BY EditsAssumption DEF Gestures, Plans
<1>1. CASE e.kind = "choose"
  <2> DEFINE locked == LockRange(plan.locked, e.from, e.to, "user")
             held == [plan EXCEPT !.locked = locked]
             line == Spliced(plan.line, e)
  <2>1. locked \subseteq Locks /\ \A l \in locked : Valid(l)
    BY <1>0 DEF Gestures, LockRange, Lock, Locks, Valid, Sources, Plans, Sound, ValidLocks
  <2>2. plan.locked \subseteq locked
    BY DEF LockRange
  <2> HIDE DEF locked
  <2>3. /\ held \in Plans /\ held.locked = locked
        /\ held.line = plan.line /\ held.results = plan.results /\ held.avoid = plan.avoid
    BY <2>1 DEF Plans
  <2>4. Sound(held)
    BY <2>1, <2>3 DEF Sound, MeasuredWhereItIs, ValidLocks, Numbered
  <2>5. line \in Lines
    BY <1>0, <1>1, SplicedIsALine DEF MayScore
  <2>6. Edited(plan, e) = Rescored(held, line, e.only)
    BY <1>1 DEF Edited, Chosen, locked
  <2> HIDE DEF held, line
  <2> QED  BY <1>0, <2>2, <2>3, <2>4, <2>5, <2>6, RescoreKeeps
<1>2. CASE e.kind = "reroute"
  <2>1. Edited(plan, e) = Rescored(plan, e.streets, e.only)
    BY <1>2 DEF Edited, Redrawn
  <2> QED  BY <1>0, <2>1, RescoreKeeps
<1>3. CASE e.kind = "refresh"
  <2>1. Edited(plan, e) = Rescored(plan, plan.line, e.only)
    BY <1>3 DEF Edited, Refreshed
  <2> QED  BY <1>0, <2>1, RescoreKeeps
<1> QED  BY <1>1, <1>2, <1>3 DEF MayScore, Scored

-----------------------------------------------------------------------------
\* A job that goes on never goes back, so ground that may be freed stays so.
LEMMA LoopGroundStays ==
  ASSUME NEW plan,
         \A e \in Edits : job[e].at \notin {"none", "queued"} => job'[e].at \notin {"none", "queued"}
  PROVE  LoopGround(plan) => LoopGround(plan)'
BY DEF LoopGround, MayBeFreed

\* A job that goes on with another plan, sound and with the loop's locks, keeps Inv.
LEMMA NewPlanKeeps ==
  ASSUME Inv, NEW e \in Edits, NEW place \in Places \ {"none", "queued"}, NEW new \in Plans,
         Sound(new), place = "rescoring" => MayScore(new, e),
         \A m \in Nat : Holds(StoredLocks, m, "loop")
           => \/ Holds(new.locked, m, "loop") \/ MayBeFreed(m)
              \/ e.kind = "unlock" /\ e.whose = "any" /\ e.from <= m /\ m < e.to,
         UNCHANGED <<file, queue>>, job' = [job EXCEPT ![e] = [at |-> place, plan |-> new]]
  PROVE  Inv'
<1> USE DEF Inv
<1>1. \A d \in Edits : job'[d] = IF d = e THEN [at |-> place, plan |-> new] ELSE job[d]
  BY DEF TypeOK
<1>2. TypeOK'
  BY DEF TypeOK
<1>3. \A plan : LoopGround(plan) => LoopGround(plan)'
  BY <1>1, LoopGroundStays
<1>4. \A m \in Nat : MayBeFreed(m) => MayBeFreed(m)'
  BY <1>1 DEF MayBeFreed
<1>5. \A m \in Nat : e.kind = "unlock" /\ e.whose = "any" /\ e.from <= m /\ m < e.to => MayBeFreed(m)'
  BY <1>1 DEF MayBeFreed
<1>6. LoopGround(new)'
  BY <1>4, <1>5 DEF LoopGround
<1>7. \A d \in Edits : LoopGround(job[d].plan)'
  <2> TAKE d \in Edits
  <2>1. PICK plan : plan = job[d].plan /\ LoopGround(plan)'
    BY <1>3
  <2> QED  BY <1>1, <1>6, <2>1 DEF LoopGround
<1>8. \A d \in Edits : Sound(job'[d].plan)
  BY <1>1
<1>9. Loads(file)' => Sound(file') /\ LoopGround(file)'
  BY <1>3
<1>10. Scoring'
  BY <1>1 DEF Scoring
<1> QED  BY <1>2, <1>7, <1>8, <1>9, <1>10 DEF Sound, MeasuredWhereItIs, ValidLocks, Numbered, LoopGround, MayBeFreed

LEMMA InitInv == Init => Inv
<1> SUFFICES ASSUME Init PROVE Inv
  OBVIOUS
<1>1. TypeOK
  BY StoredPlanSound, EmptySeq DEF Init, TypeOK, Waiting, Places
<1>2. LoopGround(StoredPlan)
  BY DEF LoopGround, StoredPlan
<1> QED  BY <1>1, <1>2, StoredPlanSound DEF Init, Inv, Scoring, Waiting

LEMMA StepInv == Inv /\ [Next]_vars => Inv'
<1> SUFFICES ASSUME Inv, [Next]_vars PROVE Inv'
  OBVIOUS
<1> USE DEF Inv
<1>1. ASSUME NEW e \in Edits, Submit(e) PROVE Inv'
  <2>1. /\ job' = [job EXCEPT ![e].at = "queued"] /\ queue' = Append(queue, e)
        /\ UNCHANGED file /\ job[e].at = "none"
    BY <1>1 DEF Submit, Go
  <2>2. TypeOK'
    BY <2>1, AppendProperties DEF TypeOK, Places
  <2>3. \A plan : LoopGround(plan) => LoopGround(plan)'
    BY <2>1, LoopGroundStays DEF TypeOK
  <2> QED  BY <2>1, <2>2, <2>3 DEF TypeOK, Scoring
<1>2. ASSUME NEW e \in Edits, Start(e) PROVE Inv'
  <2>1. /\ job' = [job EXCEPT ![e].at = "working"] /\ queue' = Tail(queue) /\ queue # <<>>
        /\ UNCHANGED file
    BY <1>2 DEF Start, Go
  <2>2. TypeOK'
    BY <2>1, HeadTailProperties DEF TypeOK, Places
  <2>3. \A plan : LoopGround(plan) => LoopGround(plan)'
    BY <2>1, LoopGroundStays DEF TypeOK
  <2> QED  BY <2>1, <2>2, <2>3 DEF TypeOK, Scoring
<1>3. ASSUME NEW e \in Edits, Read(e) PROVE Inv'
  <2>0. job[e].at = "working" /\ UNCHANGED <<file, queue>>
    BY <1>3 DEF Read
  <2>1. CASE job' = [job EXCEPT ![e].at = "failed"]
    <3>1. TypeOK'
      BY <2>0, <2>1 DEF TypeOK, Places
    <3>2. \A plan : LoopGround(plan) => LoopGround(plan)'
      BY <2>1, LoopGroundStays DEF TypeOK
    <3> QED  BY <2>0, <2>1, <3>1, <3>2 DEF TypeOK, Scoring
  <2>2. CASE /\ Loads(file) /\ ~Scored(e)
             /\ job' = [job EXCEPT ![e] = [at |-> "ready", plan |-> Requested(file, e)]]
    <3>1. PICK new : new = Requested(file, e)
      OBVIOUS
    <3>2. /\ new \in Plans /\ Sound(new)
          /\ \A m \in Nat : Holds(file.locked, m, "loop")
               => \/ Holds(new.locked, m, "loop")
                  \/ e.kind = "unlock" /\ e.whose = "any" /\ e.from <= m /\ m < e.to
      BY <2>2, <3>1, RequestKeeps DEF TypeOK
    <3>3. "ready" \in Places \ {"none", "queued"}
      BY DEF Places
    <3> QED  BY <2>0, <2>2, <3>1, <3>2, <3>3, NewPlanKeeps DEF LoopGround
  <2>3. CASE /\ Loads(file) /\ MayScore(file, e)
             /\ job' = [job EXCEPT ![e] = [at |-> "rescoring", plan |-> file]]
    <3>1. PICK new : new = file
      OBVIOUS
    <3>2. "rescoring" \in Places \ {"none", "queued"}
      BY DEF Places
    <3> QED  BY <2>0, <2>3, <3>1, <3>2, NewPlanKeeps DEF LoopGround, TypeOK
  <2> QED  BY <1>3, <2>1, <2>2, <2>3 DEF Read, Go, MayScore
<1>4. ASSUME NEW e \in Edits, Rescore(e) PROVE Inv'
  <2>0. job[e].at = "rescoring" /\ UNCHANGED <<file, queue>>
    BY <1>4 DEF Rescore
  <2>1. CASE job' = [job EXCEPT ![e].at = "failed"]
    <3>1. TypeOK'
      BY <2>0, <2>1 DEF TypeOK, Places
    <3>2. \A plan : LoopGround(plan) => LoopGround(plan)'
      BY <2>1, LoopGroundStays DEF TypeOK
    <3> QED  BY <2>0, <2>1, <3>1, <3>2 DEF TypeOK, Scoring
  <2>2. CASE job' = [job EXCEPT ![e] = [at |-> "ready", plan |-> Edited(job[e].plan, e)]]
    <3>1. PICK new : new = Edited(job[e].plan, e)
      OBVIOUS
    <3>2. new \in Plans /\ Sound(new) /\ job[e].plan.locked \subseteq new.locked
      BY <2>0, <3>1, EditKeeps DEF TypeOK, Scoring
    <3>3. "ready" \in Places \ {"none", "queued"}
      BY DEF Places
    <3>4. \A m \in Nat : Holds(job[e].plan.locked, m, "loop") => Holds(new.locked, m, "loop")
      BY <3>2 DEF Holds
    <3> QED  BY <2>0, <2>2, <3>1, <3>2, <3>3, <3>4, NewPlanKeeps DEF LoopGround
  <2> QED  BY <1>4, <2>1, <2>2 DEF Rescore, Go
<1>5. ASSUME NEW e \in Edits, Truncate(e) PROVE Inv'
  <2>1. /\ job' = [job EXCEPT ![e].at = "writing"] /\ file' = Torn /\ UNCHANGED queue
        /\ job[e].at = "ready"
    BY <1>5 DEF Truncate, Go
  <2>2. TypeOK'
    BY <2>1 DEF TypeOK, Places, Loads
  <2>3. \A plan : LoopGround(plan) => LoopGround(plan)'
    BY <2>1, LoopGroundStays DEF TypeOK
  <2> QED  BY <2>1, <2>2, <2>3 DEF TypeOK, Scoring, Loads
<1>6. ASSUME NEW e \in Edits, Write(e) PROVE Inv'
  <2>1. /\ job' = [job EXCEPT ![e].at = "done"] /\ file' \in {job[e].plan, Torn}
        /\ UNCHANGED queue /\ job[e].at = "writing"
    BY <1>6 DEF Write, Go
  <2>2. TypeOK'
    BY <2>1 DEF TypeOK, Places, Loads
  <2>3. \A plan : LoopGround(plan) => LoopGround(plan)'
    BY <2>1, LoopGroundStays DEF TypeOK
  <2>4. Loads(file)' => Sound(file') /\ LoopGround(file)'
    <3>1. PICK new : new = job[e].plan
      OBVIOUS
    <3> QED  BY <2>1, <2>3, <3>1 DEF Loads
  <2> QED  BY <2>1, <2>2, <2>3, <2>4 DEF TypeOK, Scoring
<1>7. ASSUME NEW e \in Edits, Run(e) \/ Kill(e) PROVE Inv'
  <2>1. PICK place \in {"working", "failed"} :
          job' = [job EXCEPT ![e].at = place] /\ UNCHANGED <<file, queue>>
    BY <1>7 DEF Run, Kill, Go
  <2>2. TypeOK'
    BY <2>1 DEF TypeOK, Places
  <2>3. \A plan : LoopGround(plan) => LoopGround(plan)'
    BY <2>1, LoopGroundStays DEF TypeOK
  <2> QED  BY <2>1, <2>2, <2>3 DEF TypeOK, Scoring
<1>8. CASE UNCHANGED vars
  <2>1. \A plan : LoopGround(plan) => LoopGround(plan)'
    BY <1>8, LoopGroundStays DEF vars
  <2> QED  BY <1>8, <2>1 DEF vars, TypeOK, Scoring
<1> QED  BY <1>1, <1>2, <1>3, <1>4, <1>5, <1>6, <1>7, <1>8 DEF Next, Step

\* Whatever is submitted and however the jobs interleave, the invariant holds of the
\* stored plan and of every plan a job holds (_edit_request, _choose_alternative).
THEOREM InvHolds == Spec => []Inv
  BY InitInv, StepInv, PTL DEF Spec

\* The stored plan and the jobs keep their shape, whatever the gestures (api/app.py).
THEOREM TypeCorrect == Spec => []TypeOK
<1>1. Inv => TypeOK
  BY DEF Inv
<1> QED  BY <1>1, InvHolds, PTL

\* Over any number of carries, every measurement of a stored plan is of the street its line
\* has there, or of another one between the same two corners: an end that agrees with the
\* end of the last line agrees with that of the line it was measured on (map_segments).
THEOREM MeasurementsAreOfTheLine == Spec => []NoStaleMeasurement
<1>1. Inv => NoStaleMeasurement
  BY DEF Inv, Sound, NoStaleMeasurement
<1> QED  BY <1>1, InvHolds, PTL

\* No sequence of locks and unlocks leaves a range that the next reader of the plan
\* would refuse (unlock_range, LockedRange).
THEOREM StoredLocksLoad == Spec => []LocksLoad
<1>1. Inv => LocksLoad
  BY DEF Inv, Sound, ValidLocks, LocksLoad
<1> QED  BY <1>1, InvHolds, PTL

\* Two avoid areas of a plan never share an id, however many are drawn at once
\* (add_plan_avoid).
THEOREM AreaIdsDistinct == Spec => []AreasDistinct
<1>1. Inv => AreasDistinct
  <2> SUFFICES ASSUME Inv, Loads(file), NEW i \in DOMAIN file.avoid, NEW j \in DOMAIN file.avoid,
                      file.avoid[i] = file.avoid[j]
               PROVE  i = j
    BY DEF AreasDistinct
  <2>1. file.avoid \in Seq(Nat) /\ file.avoid[i] = i - 1 /\ file.avoid[j] = j - 1
    BY DEF Inv, TypeOK, Plans, Sound, Numbered
  <2>2. i \in Int /\ j \in Int
    BY <2>1
  <2>3. i - 1 = j - 1
    BY <2>1
  <2> QED  BY <2>2, <2>3
<1> QED  BY <1>1, InvHolds, PTL

\* Every stored plan that loads can be worked on: its locks are ranges, and each of
\* its areas is a rule of its own (unlock_range, add_plan_avoid).
THEOREM PlansStayUsable == Spec => []EveryPlanIsUsable
<1>1. LocksLoad /\ AreasDistinct => EveryPlanIsUsable
  BY DEF EveryPlanIsUsable
<1> QED  BY <1>1, StoredLocksLoad, AreaIdsDistinct, PTL

\* Only an unlock that asks for anyone's locks ever frees ground the loop had locked
\* (unlock_range, unlock_plan_range).
THEOREM LoopLocksAreKept == Spec => []LoopLocksStand
<1>1. Inv => LoopLocksStand
  <2>1. 0 .. Len(Line) \subseteq Nat
    BY EditsAssumption DEF Lines
  <2> QED  BY <2>1 DEF Inv, LoopLocksStand, LoopGround, MayBeFreed
<1> QED  BY <1>1, InvHolds, PTL

-----------------------------------------------------------------------------
\* ---- gestures made one at a time
\* A gesture waits in the queue once.
QueuedOnce ==
  /\ \A i \in DOMAIN queue : job[queue[i]].at = "queued"
  /\ \A i, j \in DOMAIN queue : i # j => queue[i] # queue[j]
\* While no two were made together, one job at most is under way, what it has read is
\* still what the file says, and the file is torn only while that job writes it.
OneUnderWay == \A d, e \in Edits : ~Settled(d) /\ ~Settled(e) => d = e
ReadIsCurrent ==
  \A e \in Edits :
    /\ job[e].at = "rescoring" => Loads(file) /\ job[e].plan = file /\ Scored(e)
    /\ job[e].at = "ready" => Loads(file) /\ job[e].plan = After(file, e)
TornWhileWritten == ~Loads(file) <=> \E e \in Edits : job[e].at = "writing"
AloneInv == QueuedOnce /\ (~together => OneUnderWay /\ ReadIsCurrent /\ TornWhileWritten)

TornIsNoPlan == Torn \notin Plans

MadeSoFar == IF together THEN Edits ELSE {e \in Edits : job[e].at \in {"writing", "done"}}
PlanMade == IF together THEN Torn ELSE IF Loads(file) THEN file ELSE job[Writer].plan

\* A job's move that touches neither the file nor what the others hold.
Moves(e, place, new) == \A d \in Edits : job'[d] = IF d = e THEN [at |-> place, plan |-> new] ELSE job[d]

LEMMA GoMoves ==
  ASSUME TypeOK, NEW e \in Edits, NEW place, Go(e, place)
  PROVE  Moves(e, place, job[e].plan)
BY DEF TypeOK, Go, Moves

LEMMA AloneInitially == TornIsNoPlan /\ Init => AloneInv
<1> SUFFICES ASSUME TornIsNoPlan, Init PROVE AloneInv
  OBVIOUS
<1>1. Loads(StoredPlan)
  BY StoredPlanSound DEF TornIsNoPlan, Loads
<1> QED  BY <1>1 DEF Init, AloneInv, QueuedOnce, OneUnderWay, ReadIsCurrent, TornWhileWritten, Waiting, Settled

\* Nobody else is queued when a job that is not waiting moves.
LEMMA QueueKept ==
  ASSUME TypeOK, QueuedOnce, NEW e \in Edits, job[e].at # "queued", NEW place, NEW new, Moves(e, place, new), UNCHANGED queue
  PROVE  QueuedOnce'
<1>1. \A i \in DOMAIN queue : queue[i] \in Edits
  BY DEF TypeOK
<1> QED  BY <1>1 DEF QueuedOnce, Moves

LEMMA AloneStep == TornIsNoPlan /\ Inv /\ AloneInv /\ [Next]_vars => AloneInv'
<1> SUFFICES ASSUME TornIsNoPlan, Inv, AloneInv, [Next]_vars PROVE AloneInv'
  OBVIOUS
<1>0. TypeOK /\ QueuedOnce /\ \A e \in Edits : job[e].plan \in Plans
  BY DEF Inv, AloneInv, TypeOK
<1> DEFINE Fine == OneUnderWay /\ ReadIsCurrent /\ TornWhileWritten
<1>1. ASSUME NEW e \in Edits, Submit(e) PROVE AloneInv'
  <2>1. /\ Moves(e, "queued", job[e].plan) /\ queue' = Append(queue, e) /\ UNCHANGED file /\ job[e].at = "none"
        /\ together' = (together \/ \E d \in Edits : ~Settled(d))
    BY <1>0, <1>1, GoMoves DEF Submit, Alone
  <2>2. QueuedOnce'
    <3>1. /\ Len(queue) \in Nat /\ DOMAIN queue = 1 .. Len(queue) /\ DOMAIN queue' = 1 .. Len(queue) + 1
          /\ \A i \in 1 .. Len(queue) : queue'[i] = queue[i] /\ queue[i] \in Edits
          /\ queue'[Len(queue) + 1] = e
      BY <1>0, <2>1, AppendProperties DEF TypeOK
    <3>2. \A i \in 1 .. Len(queue) : queue[i] # e
      BY <1>0, <2>1, <3>1 DEF QueuedOnce
    <3> QED  BY <1>0, <2>1, <3>1, <3>2 DEF QueuedOnce, Moves
  <2>3. ASSUME ~together' PROVE Fine'
    <3>1. ~together /\ \A d \in Edits : Settled(d)
      BY <2>1, <2>3
    <3>2. Fine
      BY <3>1 DEF AloneInv
    <3> QED  BY <2>1, <3>1, <3>2 DEF OneUnderWay, ReadIsCurrent, TornWhileWritten, Settled, Moves
  <2> QED  BY <2>2, <2>3 DEF AloneInv
<1>2. ASSUME NEW e \in Edits, Start(e) PROVE AloneInv'
  <2>1. /\ Moves(e, "working", job[e].plan) /\ queue' = Tail(queue) /\ UNCHANGED <<file, together>>
        /\ queue # <<>> /\ e = Head(queue)
    BY <1>0, <1>2, GoMoves DEF Start
  <2>0. /\ Len(queue) \in Nat \ {0} /\ DOMAIN queue = 1 .. Len(queue) /\ DOMAIN queue' = 1 .. Len(queue) - 1
        /\ \A i \in 1 .. Len(queue) - 1 : queue'[i] = queue[i + 1] /\ queue[i + 1] \in Edits
        /\ e = queue[1]
    BY <1>0, <2>1, HeadTailProperties, EmptySeq DEF TypeOK
  <2>2. job[e].at = "queued"
    BY <1>0, <2>0 DEF QueuedOnce
  <2>3. QueuedOnce'
    <3>1. \A i \in 1 .. Len(queue) - 1 : i + 1 \in DOMAIN queue /\ 1 \in DOMAIN queue /\ i + 1 # 1
      BY <2>0
    <3>2. \A i \in 1 .. Len(queue) - 1 : queue'[i] # e
      BY <1>0, <2>0, <3>1 DEF QueuedOnce
    <3>3. \A i \in 1 .. Len(queue) - 1 : job'[queue'[i]].at = "queued"
      BY <1>0, <2>0, <2>1, <3>1, <3>2 DEF QueuedOnce, Moves
    <3>4. \A i, j \in 1 .. Len(queue) - 1 : i # j => queue'[i] # queue'[j]
      BY <1>0, <2>0, <3>1 DEF QueuedOnce
    <3> QED  BY <2>0, <3>3, <3>4 DEF QueuedOnce
  <2> QED  BY <2>1, <2>2, <2>3 DEF AloneInv, OneUnderWay, ReadIsCurrent, TornWhileWritten, Settled, Moves
<1>3. ASSUME NEW e \in Edits, Run(e) PROVE AloneInv'
  <2>1. /\ Moves(e, "working", job[e].plan) /\ UNCHANGED <<file, queue>> /\ job[e].at = "none"
        /\ together' = (together \/ \E d \in Edits : ~Settled(d))
    BY <1>0, <1>3, GoMoves DEF Run, Alone
  <2>2. QueuedOnce'
    BY <1>0, <2>1, QueueKept
  <2>3. ASSUME ~together' PROVE Fine'
    <3>1. ~together /\ \A d \in Edits : Settled(d)
      BY <2>1, <2>3
    <3>2. Fine
      BY <3>1 DEF AloneInv
    <3> QED  BY <2>1, <3>1, <3>2 DEF OneUnderWay, ReadIsCurrent, TornWhileWritten, Settled, Moves
  <2> QED  BY <2>2, <2>3 DEF AloneInv
<1>4. ASSUME NEW e \in Edits, Kill(e) PROVE AloneInv'
  <2>1. /\ Moves(e, "failed", job[e].plan) /\ UNCHANGED <<file, queue>> /\ AtWork(e)
        /\ together' = (together \/ job[e].at = "writing")
    BY <1>0, <1>4, GoMoves DEF Kill
  <2>2. QueuedOnce'
    BY <1>0, <2>1, QueueKept DEF AtWork
  <2>3. ASSUME ~together' PROVE Fine'
    <3>1. Fine /\ job[e].at # "writing" /\ ~Settled(e)
      BY <2>1, <2>3 DEF AloneInv, AtWork, Settled
    <3> QED  BY <2>1, <3>1 DEF OneUnderWay, ReadIsCurrent, TornWhileWritten, Settled, Moves
  <2> QED  BY <2>2, <2>3 DEF AloneInv
<1>5. ASSUME NEW e \in Edits, Read(e) PROVE AloneInv'
  <2>1. job[e].at = "working" /\ UNCHANGED <<file, queue, together>>
    BY <1>5 DEF Read
  <2>2. PICK place, new :
          /\ Moves(e, place, new)
          /\ \/ place = "failed"
             \/ place = "ready" /\ Loads(file) /\ ~Scored(e) /\ new = Requested(file, e)
             \/ place = "rescoring" /\ Loads(file) /\ Scored(e) /\ new = file
    <3>1. CASE Go(e, "failed")
      BY <1>0, <3>1, GoMoves
    <3>2. CASE Loads(file) /\ ~Scored(e) /\ job' = [job EXCEPT ![e] = [at |-> "ready", plan |-> Requested(file, e)]]
      <4>1. Moves(e, "ready", Requested(file, e))
        BY <1>0, <3>2 DEF Moves, TypeOK
      <4> QED  BY <3>2, <4>1
    <3>3. CASE Loads(file) /\ Scored(e) /\ job' = [job EXCEPT ![e] = [at |-> "rescoring", plan |-> file]]
      <4>1. Moves(e, "rescoring", file)
        BY <1>0, <3>3 DEF Moves, TypeOK
      <4> QED  BY <3>3, <4>1
    <3> QED  BY <1>5, <3>1, <3>2, <3>3 DEF Read
  <2>3. QueuedOnce'
    BY <1>0, <2>1, <2>2, QueueKept
  <2>4. \A d : After(file, d)' = After(file', d)
    BY DEF After, Scored, Edited, Requested, Chosen, Redrawn, Refreshed, Rescored
  <2> QED  BY <2>1, <2>2, <2>3, <2>4 DEF AloneInv, OneUnderWay, ReadIsCurrent, TornWhileWritten, Settled, Moves, After
<1>6. ASSUME NEW e \in Edits, Rescore(e) PROVE AloneInv'
  <2>1. job[e].at = "rescoring" /\ UNCHANGED <<file, queue, together>>
    BY <1>6 DEF Rescore
  <2>2. PICK place, new :
          Moves(e, place, new) /\ (place = "failed" \/ (place = "ready" /\ new = Edited(job[e].plan, e)))
    <3>1. CASE Go(e, "failed")
      BY <1>0, <3>1, GoMoves
    <3>2. CASE job' = [job EXCEPT ![e] = [at |-> "ready", plan |-> Edited(job[e].plan, e)]]
      <4>1. Moves(e, "ready", Edited(job[e].plan, e))
        BY <1>0, <3>2 DEF Moves, TypeOK
      <4> QED  BY <3>2, <4>1
    <3> QED  BY <1>6, <3>1, <3>2 DEF Rescore
  <2>3. QueuedOnce'
    BY <1>0, <2>1, <2>2, QueueKept
  <2> QED  BY <2>1, <2>2, <2>3 DEF AloneInv, OneUnderWay, ReadIsCurrent, TornWhileWritten, Settled, Moves, After
<1>7. ASSUME NEW e \in Edits, Truncate(e) PROVE AloneInv'
  <2>1. /\ Moves(e, "writing", job[e].plan) /\ UNCHANGED <<queue, together>> /\ job[e].at = "ready" /\ file' = Torn
    BY <1>0, <1>7, GoMoves DEF Truncate
  <2>2. QueuedOnce'
    BY <1>0, <2>1, QueueKept
  <2>3. ASSUME ~together PROVE Fine'
    <3>1. Fine /\ ~Settled(e)
      BY <2>1, <2>3 DEF AloneInv, Settled
    <3>2. \A d \in Edits : d # e => Settled(d)
      BY <3>1 DEF OneUnderWay
    <3> QED  BY <2>1, <3>1, <3>2 DEF OneUnderWay, ReadIsCurrent, TornWhileWritten, Settled, Moves, Loads
  <2> QED  BY <2>1, <2>2, <2>3 DEF AloneInv
<1>8. ASSUME NEW e \in Edits, Write(e) PROVE AloneInv'
  <2>1. /\ Moves(e, "done", job[e].plan) /\ UNCHANGED <<queue, together>> /\ job[e].at = "writing"
        /\ file' = job[e].plan \/ Loads(file)
    BY <1>0, <1>8, GoMoves DEF Write
  <2>2. QueuedOnce'
    BY <1>0, <2>1, QueueKept
  <2>3. ASSUME ~together PROVE Fine'
    <3>1. Fine /\ ~Loads(file)
      BY <2>1, <2>3 DEF AloneInv, TornWhileWritten
    <3>2. Loads(file')
      BY <1>0, <2>1, <3>1 DEF Loads, TornIsNoPlan
    <3> QED  BY <2>1, <3>1, <3>2 DEF OneUnderWay, ReadIsCurrent, TornWhileWritten, Settled, Moves, Loads
  <2> QED  BY <2>1, <2>2, <2>3 DEF AloneInv
<1>9. CASE UNCHANGED vars
  <2>1. UNCHANGED <<file, job, queue, together>>
    BY <1>9 DEF vars
  <2>2. QueuedOnce'
    BY <1>0, <2>1 DEF QueuedOnce
  <2>3. \A d : After(file, d)' = After(file', d)
    BY DEF After, Scored, Edited, Requested, Chosen, Redrawn, Refreshed, Rescored
  <2>4. Fine => Fine'
    BY <2>1, <2>3 DEF OneUnderWay, ReadIsCurrent, TornWhileWritten, Settled, Loads
  <2> QED  BY <2>1, <2>2, <2>4 DEF AloneInv
<1> QED  BY <1>1, <1>2, <1>3, <1>4, <1>5, <1>6, <1>7, <1>8, <1>9 DEF Next, Step

\* Whoever writes, when one job is under way.
LEMMA TheWriter ==
  ASSUME OneUnderWay, NEW e \in Edits, job[e].at = "writing"
  PROVE  Writer = e
<1>1. \A d \in Edits : job[d].at = "writing" => d = e
  BY DEF OneUnderWay, Settled
<1> QED  BY <1>1 DEF Writer

LEMMA MadeInitially == TornIsNoPlan /\ Init => Sequential!Init
<1> SUFFICES ASSUME TornIsNoPlan, Init PROVE MadeSoFar = {} /\ PlanMade = StoredPlan
  BY DEF Sequential!Init, MadeSoFar, PlanMade
<1>1. Loads(StoredPlan)
  BY StoredPlanSound DEF TornIsNoPlan, Loads
<1> QED  BY <1>1 DEF Init, MadeSoFar, PlanMade, Waiting

\* Each step of a job is one of the abstract gestures as it truncates the file, or
\* nothing; what is promised ends with the step that puts two together.
LEMMA StepIsAGesture ==
  TornIsNoPlan /\ Inv /\ AloneInv /\ AloneInv' /\ [Next]_vars =>
    [Sequential!MakeTogether \/ \E e \in Edits : Sequential!Make(e)]_<<MadeSoFar, PlanMade>>
<1> SUFFICES ASSUME TornIsNoPlan, Inv, AloneInv, AloneInv', [Next]_vars
             PROVE  \/ MadeSoFar' = Edits /\ PlanMade' = Torn
                    \/ \E e \in Edits : /\ e \notin MadeSoFar /\ MadeSoFar' = MadeSoFar \cup {e}
                                        /\ PlanMade' = After(PlanMade, e)
                    \/ UNCHANGED <<MadeSoFar, PlanMade>>
  BY DEF Sequential!MakeTogether, Sequential!Make, MadeSoFar, PlanMade
<1>0. TypeOK
  BY DEF Inv
<1>1. CASE together'
  BY <1>1 DEF MadeSoFar, PlanMade
<1>2. CASE ~together'
  <2>1. ~together
    BY <1>2 DEF Next, Step, Submit, Alone, Run, Kill, Start, Read, Rescore, Truncate, Write, vars
  <2>2. /\ OneUnderWay /\ ReadIsCurrent /\ TornWhileWritten
        /\ OneUnderWay' /\ TornWhileWritten'
    BY <1>2, <2>1 DEF AloneInv
  <2> DEFINE Made == {e \in Edits : job[e].at \in {"writing", "done"}}
             Plan == IF Loads(file) THEN file ELSE job[Writer].plan
  <2>3. /\ MadeSoFar = Made /\ MadeSoFar' = Made'
        /\ PlanMade = Plan /\ PlanMade' = Plan'
    BY <1>2, <2>1 DEF MadeSoFar, PlanMade
  <2>4. ASSUME NEW w \in Edits, job[w].at = "writing" PROVE Plan = job[w].plan
    BY <2>2, <2>4, TheWriter DEF TornWhileWritten
  <2>5. ASSUME NEW w \in Edits, job'[w].at = "writing" PROVE Plan' = job'[w].plan
    <3>1. ~Loads(file') /\ \A d \in Edits : job'[d].at = "writing" => d = w
      BY <2>2, <2>5 DEF TornWhileWritten, OneUnderWay, Settled, Loads
    <3> QED  BY <2>5, <3>1 DEF Writer, Loads
  <2>6. (\A w \in Edits : job[w].at # "writing") => Loads(file) /\ Plan = file
    BY <2>2 DEF TornWhileWritten
  <2>7. (\A w \in Edits : job'[w].at # "writing") => Loads(file') /\ Plan' = file'
    BY <2>2 DEF TornWhileWritten, Loads
  <2> HIDE DEF Plan
  <2>8. ASSUME NEW e \in Edits, NEW place, NEW new, Moves(e, place, new), UNCHANGED file,
               job[e].at \notin {"writing", "done"}, place \notin {"writing", "done"}
        PROVE  UNCHANGED <<MadeSoFar, PlanMade>>
    <3>0. \A w \in Edits : /\ job[w].at = "writing" <=> job'[w].at = "writing"
                           /\ job[w].at = "done" <=> job'[w].at = "done"
      <4> TAKE w \in Edits
      <4>1. CASE w = e
        BY <2>8, <4>1 DEF Moves
      <4>2. CASE w # e
        BY <2>8, <4>2 DEF Moves
      <4> QED  BY <4>1, <4>2
    <3>1. UNCHANGED Made /\ \A w \in Edits : job[w].at = "writing" <=> job'[w].at = "writing"
      BY <3>0
    <3>2. CASE \E w \in Edits : job[w].at = "writing"
      <4>1. PICK w \in Edits : job[w].at = "writing"
        BY <3>2
      <4>2. job'[w].at = "writing" /\ job'[w].plan = job[w].plan
        BY <2>8, <4>1 DEF Moves
      <4> QED  BY <2>3, <2>4, <2>5, <3>1, <4>1, <4>2
    <3>3. CASE \A w \in Edits : job[w].at # "writing"
      BY <2>3, <2>6, <2>7, <2>8, <3>1, <3>3
    <3> QED  BY <3>2, <3>3
  <2>9. ASSUME NEW e \in Edits, Submit(e) \/ Run(e) \/ Start(e) \/ Kill(e) PROVE UNCHANGED <<MadeSoFar, PlanMade>>
    <3>1. UNCHANGED file /\ \E place \in {"queued", "working", "failed"} : Go(e, place)
      BY <2>9 DEF Submit, Run, Start, Kill
    <3>2. PICK place \in {"queued", "working", "failed"} : Moves(e, place, job[e].plan)
      BY <1>0, <3>1, GoMoves
    <3>3. job[e].at \notin {"writing", "done"}
      <4>1. CASE Submit(e) \/ Run(e)
        BY <4>1 DEF Submit, Run
      <4>2. CASE Start(e)
        <5>1. queue # <<>> /\ e = Head(queue)
          BY <4>2 DEF Start
        <5>2. 1 \in DOMAIN queue /\ e = queue[1]
          BY <1>0, <5>1, HeadTailProperties, EmptySeq DEF TypeOK
        <5> QED  BY <5>2 DEF AloneInv, QueuedOnce
      <4>3. CASE Kill(e)
        BY <1>2, <4>3 DEF Kill, AtWork
      <4> QED  BY <2>9, <4>1, <4>2, <4>3
    <3> QED  BY <2>8, <3>1, <3>2, <3>3
  <2>10. ASSUME NEW e \in Edits, Read(e) \/ Rescore(e) PROVE UNCHANGED <<MadeSoFar, PlanMade>>
    <3>1. UNCHANGED file /\ job[e].at \in {"working", "rescoring"}
      BY <2>10 DEF Read, Rescore
    <3>2. \E place \in {"failed", "ready", "rescoring"} : \E new : Moves(e, place, new)
      <4>1. \/ Go(e, "failed")
            \/ \E new : job' = [job EXCEPT ![e] = [at |-> "ready", plan |-> new]]
            \/ job' = [job EXCEPT ![e] = [at |-> "rescoring", plan |-> file]]
        BY <2>10 DEF Read, Rescore
      <4>2. ASSUME NEW place, NEW new, job' = [job EXCEPT ![e] = [at |-> place, plan |-> new]]
            PROVE  Moves(e, place, new)
        BY <1>0, <4>2 DEF Moves, TypeOK
      <4> QED  BY <1>0, <4>1, <4>2, GoMoves
    <3>3. PICK place \in {"failed", "ready", "rescoring"} : \E new : Moves(e, place, new)
      BY <3>2
    <3>4. PICK new : Moves(e, place, new)
      BY <3>3
    <3> QED  BY <2>8, <3>1, <3>4
  <2>11. ASSUME NEW e \in Edits, Truncate(e)
         PROVE  e \notin MadeSoFar /\ MadeSoFar' = MadeSoFar \cup {e} /\ PlanMade' = After(PlanMade, e)
    <3>1. Moves(e, "writing", job[e].plan) /\ job[e].at = "ready"
      BY <1>0, <2>11, GoMoves DEF Truncate
    <3>2. e \notin Made /\ Made' = Made \cup {e}
      BY <3>1 DEF Moves
    <3>3. Plan' = job[e].plan
      BY <2>5, <3>1 DEF Moves
    <3>4. Loads(file) /\ job[e].plan = After(file, e)
      BY <2>2, <3>1 DEF ReadIsCurrent
    <3>5. Plan = file
      BY <2>2, <2>6, <3>4 DEF TornWhileWritten
    <3> QED  BY <2>3, <3>2, <3>3, <3>4, <3>5
  <2>12. ASSUME NEW e \in Edits, Write(e) PROVE UNCHANGED <<MadeSoFar, PlanMade>>
    <3>1. Moves(e, "done", job[e].plan) /\ job[e].at = "writing" /\ (Loads(file) \/ file' = job[e].plan)
      BY <1>0, <2>12, GoMoves DEF Write
    <3>2. file' = job[e].plan
      BY <2>2, <3>1 DEF TornWhileWritten
    <3>3. UNCHANGED Made
      BY <3>1 DEF Moves
    <3>4. \A d \in Edits : job'[d].at # "writing"
      BY <2>2, <3>1 DEF Moves, OneUnderWay, Settled
    <3> QED  BY <2>3, <2>4, <2>7, <3>1, <3>2, <3>3, <3>4
  <2>13. CASE UNCHANGED vars
    <3>1. UNCHANGED <<file, job>>
      BY <2>13 DEF vars
    <3>2. UNCHANGED Made
      BY <3>1
    <3>3. CASE \E w \in Edits : job[w].at = "writing"
      BY <2>3, <2>4, <2>5, <3>1, <3>2, <3>3
    <3>4. CASE \A w \in Edits : job[w].at # "writing"
      BY <2>3, <2>6, <2>7, <3>1, <3>2, <3>4
    <3> QED  BY <3>3, <3>4
  <2> HIDE DEF Made
  <2> QED  BY <2>9, <2>10, <2>11, <2>12, <2>13 DEF Next, Step
<1> QED  BY <1>1, <1>2

\* As long as they are made one at a time, however many there are and whichever of them
\* fail or are killed before they write, the stored plan is what the gestures that were
\* written make of it one after the other: each whole, at most once, and none of them on
\* a plan that another has since replaced (_edit_request, _choose_alternative, cli/edit.py).
THEOREM GesturesAreAtomic == ASSUME TornIsNoPlan PROVE Spec => OneAtATimeIsAtomic
<1>1. Init => AloneInv
  BY AloneInitially
<1>2. Inv /\ AloneInv /\ [Next]_vars => AloneInv'
  BY AloneStep
<1>3. Init => Sequential!Init
  BY MadeInitially
<1>4. Inv /\ AloneInv /\ AloneInv' /\ [Next]_vars =>
        [Sequential!MakeTogether \/ \E e \in Edits : Sequential!Make(e)]_<<MadeSoFar, PlanMade>>
  BY StepIsAGesture
<1> QED  BY <1>1, <1>2, <1>3, <1>4, InvHolds, PTL DEF Spec, OneAtATimeIsAtomic, Sequential!Spec, MadeSoFar, PlanMade
=============================================================================
