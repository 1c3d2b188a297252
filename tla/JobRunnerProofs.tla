--------------------------- MODULE JobRunnerProofs ---------------------------
(***************************************************************************)
(* What JobRunner promises, for any jobs, threads, questions and crashes,  *)
(* as long as nobody answers a job that a worker has (~Eager), which the   *)
(* page sees to.                                                           *)
(***************************************************************************)
EXTENDS JobRunner, FiniteSetTheorems, TLAPS

Files == Pads \cup {NoFile, Torn}
Drawings == (SUBSET (1 .. MaxQuestions)) \cup {NoFile, Torn}
Owners == Jobs \cup {"none"}
Workers == [at : {"free"} \cup Places \cup Ended, job : Owners, resumes : BOOLEAN, pad : Pads]
Handlers == [at : {"idle", "checked", "answered", "saving", "saved"}, job : Owners, pad : Pads]
Kinds == {"started", "failed", "needs_input", "complete"}
TypeOK ==
  /\ disk \in [Jobs -> Files] /\ plan \in [Jobs -> Drawings]
  /\ worker \in [Slots -> Workers] /\ entry \in [Jobs -> {0} \cup Slots]
  /\ events \in [Jobs -> Seq(Kinds)] /\ handler \in Handlers
  /\ crashes \in Nat /\ saveFailures \in Nat

\* A pad as a leg may leave it, and one that an answer may be given to.
Whole(pad) == \/ pad.status = "needs_input" /\ pad.question # 0
              \/ pad.status = "complete" /\ pad.question = 0
Waiting(file) == Loads(file) /\ file.status = "needs_input" /\ file.question # 0
Before == {"queued", "started", "working", "planned", "drawn", "returned"}
After == {"returned", "saving", "saved"}

\* A job has one owner, and the owner knows what is on disk.
WorkerInv(s) ==
  LET w == worker[s]
  IN  /\ w.at = "free" => w.job = "none"
      /\ w.at # "free" => w.job \in Jobs /\ entry[w.job] # 0
      /\ Active(s) => entry[w.job] = s /\ handler.job # w.job
      /\ w.at \in Before => IF w.resumes THEN Waiting(disk[w.job]) ELSE disk[w.job] = NoFile
      /\ w.at \in {"queued", "started"} /\ w.resumes => disk[w.job].answered
      /\ w.at = "working" => IF w.resumes THEN w.pad.question # 0 /\ w.pad.answered ELSE w.pad.question = 0
      /\ w.at \in {"planned", "drawn"} => w.pad.status = "complete" /\ w.pad.question = 0
      /\ w.at \in After => Whole(w.pad)
      /\ w.at \in After /\ w.pad.status = "complete" => plan[w.job] = w.pad.done
      /\ w.at = "saving" => disk[w.job] = Torn
      /\ w.at = "saved" => disk[w.job] = w.pad
HandlerInv ==
  /\ handler.at = "idle" => handler.job = "none"
  /\ handler.at # "idle" => handler.job \in Jobs /\ disk[handler.job] # NoFile
  /\ handler.at \in {"checked", "answered"} => Waiting(disk[handler.job])
  /\ handler.at \in {"answered", "saving", "saved"} => Waiting(handler.pad) /\ handler.pad.answered
  /\ handler.at = "saving" => disk[handler.job] = Torn
  /\ handler.at = "saved" => disk[handler.job] = handler.pad
DiskInv(j) ==
  Loads(disk[j]) => /\ Whole(disk[j])
                    /\ disk[j].status = "complete" => plan[j] = disk[j].done

\* What the latest submission of a job has told, and what of it is still so.
Says(log, kind) == log # <<>> /\ log[Len(log)] = kind
EntryInv(j) ==
  entry[j] # 0 =>
    LET w == worker[entry[j]]
    IN  /\ w.job = j /\ w.at # "free"
        /\ w.at = "failed" /\ saveFailures = 0 => Says(events[j], "failed")
        /\ w.at = "done" =>
             /\ Whole(w.pad) /\ Says(events[j], w.pad.status)
             /\ IF handler.job = j THEN w.pad.status = "needs_input" ELSE disk[j] = w.pad
FirstInv == crashes = 0 => \A j \in Jobs : entry[j] = 0 => disk[j] = NoFile

Inv ==
  /\ TypeOK
  /\ \A s \in Slots : WorkerInv(s)
  /\ HandlerInv
  /\ \A j \in Jobs : DiskInv(j) /\ EntryInv(j)
  /\ FirstInv

-----------------------------------------------------------------------------
LEMMA PadsLoad == \A pad \in Pads : Loads(pad)
  BY RunnerAssumption DEF Loads

\* A step of a worker is told of by what it does to its own job: no other worker has it, and
\* no handler.
LEMMA WorkerStep ==
  ASSUME Inv, TypeOK', NEW s \in Slots, Active(s),
         \A t \in Slots \ {s} : worker'[t] = worker[t],
         worker'[s].job = worker[s].job,
         \A j \in Jobs \ {worker[s].job} : disk'[j] = disk[j] /\ plan'[j] = plan[j] /\ events'[j] = events[j],
         entry' = entry, handler' = handler, crashes' = crashes,
         saveFailures' = 0 => saveFailures = 0,
         WorkerInv(s)', DiskInv(worker[s].job)', EntryInv(worker[s].job)'
  PROVE  Inv'
<1> DEFINE job == worker[s].job
<1>0. /\ \A t \in Slots : WorkerInv(t)
      /\ HandlerInv /\ FirstInv
      /\ \A j \in Jobs : DiskInv(j) /\ EntryInv(j)
  BY DEF Inv
<1>1. job \in Jobs /\ entry[job] = s /\ handler.job # job /\ s # 0
  BY <1>0, RunnerAssumption DEF WorkerInv, Active, Places, Slots
<1>2. \A t \in Slots : WorkerInv(t)'
  <2> SUFFICES ASSUME NEW t \in Slots, t # s  PROVE WorkerInv(t)'
    OBVIOUS
  <2>1. worker'[t] = worker[t] /\ WorkerInv(t)
    BY <1>0
  <2>2. Active(t) => worker[t].job # job
    BY <1>1, <2>1 DEF WorkerInv
  <2>3. Active(t)' = Active(t)
    BY <2>1 DEF Active
  <2>4. worker[t].at \in Before \cup After \cup {"working", "planned", "drawn", "saved"} => Active(t)
    BY DEF Active, Places, Before, After
  <2>5. Active(t) => worker[t].job \in Jobs
    BY <2>1 DEF WorkerInv, Active, Places
  <2>6. Active(t) => disk'[worker[t].job] = disk[worker[t].job] /\ plan'[worker[t].job] = plan[worker[t].job]
    BY <2>2, <2>5
  <2>7. CASE Active(t)
    BY <2>1, <2>3, <2>5, <2>6, <2>7 DEF WorkerInv
  <2>8. CASE ~Active(t)
    BY <2>1, <2>3, <2>4, <2>8 DEF WorkerInv, Before, After
  <2> QED  BY <2>7, <2>8
<1>3. HandlerInv'
  BY <1>0, <1>1 DEF HandlerInv
<1>4. \A j \in Jobs : DiskInv(j)'
  BY <1>0 DEF DiskInv
<1>5. \A j \in Jobs : EntryInv(j)'
  <2> SUFFICES ASSUME NEW j \in Jobs, j # job  PROVE EntryInv(j)'
    OBVIOUS
  <2>1. EntryInv(j) /\ entry[j] \in {0} \cup Slots
    BY <1>0 DEF Inv, TypeOK
  <2>2. entry[j] # 0 => entry[j] # s
    BY <2>1 DEF EntryInv
  <2> QED  BY <2>1, <2>2 DEF EntryInv, Says
<1>6. FirstInv'
  BY <1>0, <1>1 DEF FirstInv
<1> QED  BY <1>2, <1>3, <1>4, <1>5, <1>6 DEF Inv

\* What the two helpers of every step leave.
LEMMA Went ==
  ASSUME TypeOK, NEW s \in Slots, NEW place \in {"free"} \cup Places \cup Ended, Go(s, place)
  PROVE  /\ worker' \in [Slots -> Workers]
         /\ worker'[s].at = place /\ worker'[s].job = worker[s].job
         /\ worker'[s].resumes = worker[s].resumes /\ worker'[s].pad = worker[s].pad
         /\ \A t \in Slots \ {s} : worker'[t] = worker[t]
<1>1. worker[s] \in Workers
  BY DEF TypeOK
<1>2. [worker[s] EXCEPT !.at = place] \in Workers
  BY <1>1 DEF Workers
<1>3. worker' = [worker EXCEPT ![s] = [worker[s] EXCEPT !.at = place]]
  BY DEF Go
<1> QED  BY <1>1, <1>2, <1>3 DEF TypeOK, Workers

LEMMA Told ==
  ASSUME TypeOK, NEW job \in Jobs, NEW kind \in Kinds, Record(job, kind)
  PROVE  /\ events' \in [Jobs -> Seq(Kinds)]
         /\ \A j \in Jobs \ {job} : events'[j] = events[j]
         /\ Says(events'[job], kind)
<1>1. events[job] \in Seq(Kinds)
  BY DEF TypeOK
<1>2. Append(events[job], kind) \in Seq(Kinds)
  BY <1>1
<1>3. events'[job] = Append(events[job], kind)
  BY DEF Record, TypeOK
<1>4. Len(events'[job]) = Len(events[job]) + 1 /\ events'[job][Len(events[job]) + 1] = kind
  BY <1>1, <1>3
<1>5. events'[job] # <<>>
  BY <1>1, <1>4
<1>6. Says(events'[job], kind)
  BY <1>4, <1>5 DEF Says
<1>7. events' \in [Jobs -> Seq(Kinds)] /\ \A j \in Jobs \ {job} : events'[j] = events[j]
  BY <1>2 DEF Record, TypeOK
<1> QED  BY <1>6, <1>7

LEMMA Padded ==
  ASSUME TypeOK, NEW s \in Slots, NEW place \in {"free"} \cup Places \cup Ended, NEW pad \in Pads,
         worker' = [worker EXCEPT ![s].at = place, ![s].pad = pad]
  PROVE  /\ worker' \in [Slots -> Workers]
         /\ worker'[s].at = place /\ worker'[s].job = worker[s].job
         /\ worker'[s].resumes = worker[s].resumes /\ worker'[s].pad = pad
         /\ \A t \in Slots \ {s} : worker'[t] = worker[t]
<1>1. worker[s] \in Workers
  BY DEF TypeOK
<1>2. [worker[s] EXCEPT !.at = place, !.pad = pad] \in Workers
  BY <1>1 DEF Workers
<1>3. worker' = [worker EXCEPT ![s] = [worker[s] EXCEPT !.at = place, !.pad = pad]]
  OBVIOUS
<1> QED  BY <1>1, <1>2, <1>3 DEF TypeOK, Workers

\* What a worker may count on.
LEMMA OwnerOf ==
  ASSUME Inv, NEW s \in Slots, Active(s)
  PROVE  /\ TypeOK /\ WorkerInv(s) /\ worker[s] \in Workers /\ s # 0
         /\ worker[s].job \in Jobs /\ entry[worker[s].job] = s /\ handler.job # worker[s].job
         /\ DiskInv(worker[s].job) /\ EntryInv(worker[s].job)
<1>1. TypeOK /\ WorkerInv(s) /\ worker[s] \in Workers /\ s # 0
  BY RunnerAssumption DEF Inv, TypeOK, Slots
<1>2. worker[s].at # "free"
  BY DEF Active, Places
<1>3. worker[s].job \in Jobs /\ entry[worker[s].job] = s /\ handler.job # worker[s].job
  BY <1>1, <1>2 DEF WorkerInv
<1> QED  BY <1>1, <1>3 DEF Inv

LEMMA StartKeeps ==
  ASSUME Inv, NEW s \in Slots, Start(s)  PROVE Inv'
<1> DEFINE job == worker[s].job
<1>0. TypeOK /\ WorkerInv(s) /\ DiskInv(job) /\ EntryInv(job) /\ Active(s) /\ job \in Jobs /\ entry[job] = s
  BY OwnerOf DEF Start, Active, Places
<1>1. /\ Go(s, "started") /\ Record(job, "started")
      /\ UNCHANGED <<disk, plan, entry, handler, crashes, saveFailures>>
  BY DEF Start
<1>2. /\ worker' \in [Slots -> Workers]
      /\ worker'[s].at = "started" /\ worker'[s].job = job
      /\ worker'[s].resumes = worker[s].resumes /\ worker'[s].pad = worker[s].pad
      /\ \A t \in Slots \ {s} : worker'[t] = worker[t]
  BY <1>0, <1>1, Went DEF Places
<1>3. events' \in [Jobs -> Seq(Kinds)] /\ \A j \in Jobs \ {job} : events'[j] = events[j]
  BY <1>0, <1>1, Told DEF Kinds
<1>4. WorkerInv(s)'
  BY <1>0, <1>1, <1>2, <1>3 DEF Start, WorkerInv, Active, Places, Before, After
<1>5. DiskInv(job)' /\ EntryInv(job)'
  BY <1>0, <1>1, <1>2, <1>3 DEF DiskInv, EntryInv
<1>6. TypeOK'
  BY <1>0, <1>1, <1>2, <1>3 DEF TypeOK
<1> QED  BY <1>0, <1>1, <1>2, <1>3, <1>4, <1>5, <1>6, WorkerStep

LEMMA RaisesKeeps ==
  ASSUME Inv, NEW s \in Slots, Raises(s)  PROVE Inv'
<1> DEFINE job == worker[s].job
<1>0. /\ TypeOK /\ WorkerInv(s) /\ worker[s] \in Workers /\ Active(s) /\ s # 0
      /\ job \in Jobs /\ entry[job] = s /\ handler.job # job /\ DiskInv(job) /\ EntryInv(job)
  BY OwnerOf DEF Raises, Active, Places
<1>1. /\ Go(s, "failed") /\ Record(job, "failed")
      /\ UNCHANGED <<disk, plan, entry, handler, crashes, saveFailures>>
  BY DEF Raises
<1>2. /\ worker' \in [Slots -> Workers]
      /\ worker'[s].at = "failed" /\ worker'[s].job = job
      /\ worker'[s].resumes = worker[s].resumes /\ worker'[s].pad = worker[s].pad
      /\ \A t \in Slots \ {s} : worker'[t] = worker[t]
  BY <1>0, <1>1, Went DEF Places, Ended
<1>3. /\ events' \in [Jobs -> Seq(Kinds)] /\ (\A j \in Jobs \ {job} : events'[j] = events[j]) /\ Says(events'[job], "failed")
  BY <1>0, <1>1, Told DEF Kinds
<1>4. WorkerInv(s)'
  BY <1>0, <1>1, <1>2, <1>3 DEF Raises, WorkerInv, Active, Places, Before, After, Whole
<1>5. DiskInv(job)' /\ EntryInv(job)'
  BY <1>0, <1>1, <1>2, <1>3 DEF Raises, DiskInv, EntryInv
<1>6. TypeOK'
  BY <1>0, <1>1, <1>2, <1>3 DEF TypeOK
<1> QED  BY <1>0, <1>1, <1>2, <1>3, <1>4, <1>5, <1>6, WorkerStep

LEMMA TruncatePlanKeeps ==
  ASSUME Inv, NEW s \in Slots, TruncatePlan(s)  PROVE Inv'
<1> DEFINE job == worker[s].job
<1>0. /\ TypeOK /\ WorkerInv(s) /\ worker[s] \in Workers /\ Active(s) /\ s # 0
      /\ job \in Jobs /\ entry[job] = s /\ handler.job # job /\ DiskInv(job) /\ EntryInv(job)
  BY OwnerOf DEF TruncatePlan, Active, Places
<1>1. /\ Go(s, "drawn") /\ plan' = [plan EXCEPT ![job] = Torn]
      /\ UNCHANGED <<disk, entry, events, handler, crashes, saveFailures>>
  BY DEF TruncatePlan
<1>2. /\ worker' \in [Slots -> Workers]
      /\ worker'[s].at = "drawn" /\ worker'[s].job = job
      /\ worker'[s].resumes = worker[s].resumes /\ worker'[s].pad = worker[s].pad
      /\ \A t \in Slots \ {s} : worker'[t] = worker[t]
  BY <1>0, <1>1, Went DEF Places, Ended
<1>3. /\ plan' \in [Jobs -> Drawings] /\ \A j \in Jobs \ {job} : plan'[j] = plan[j]
  <2>1. plan \in [Jobs -> Drawings]
    BY <1>0 DEF TypeOK
  <2>2. Torn \in Drawings
    BY DEF Drawings
  <2> QED  BY <1>0, <1>1, <2>1, <2>2
<1>4. WorkerInv(s)'
  BY <1>0, <1>1, <1>2, <1>3 DEF TruncatePlan, WorkerInv, Active, Places, Before, After, Whole, Waiting
<1>5. DiskInv(job)' /\ EntryInv(job)'
  BY <1>0, <1>1, <1>2, <1>3 DEF TruncatePlan, DiskInv, EntryInv, Waiting, Whole, WorkerInv, Before, Loads
<1>6. TypeOK'
  BY <1>0, <1>1, <1>2, <1>3 DEF TypeOK
<1> QED  BY <1>0, <1>1, <1>2, <1>3, <1>4, <1>5, <1>6, WorkerStep

LEMMA WritePlanKeeps ==
  ASSUME Inv, NEW s \in Slots, WritePlan(s)  PROVE Inv'
<1> DEFINE job == worker[s].job
<1>0. /\ TypeOK /\ WorkerInv(s) /\ worker[s] \in Workers /\ Active(s) /\ s # 0
      /\ job \in Jobs /\ entry[job] = s /\ handler.job # job /\ DiskInv(job) /\ EntryInv(job)
  BY OwnerOf DEF WritePlan, Active, Places
<1>1. /\ Go(s, "returned") /\ Record(job, "complete") /\ plan' = [plan EXCEPT ![job] = worker[s].pad.done]
      /\ UNCHANGED <<disk, entry, handler, crashes, saveFailures>>
  BY DEF WritePlan
<1>2. /\ worker' \in [Slots -> Workers]
      /\ worker'[s].at = "returned" /\ worker'[s].job = job
      /\ worker'[s].resumes = worker[s].resumes /\ worker'[s].pad = worker[s].pad
      /\ \A t \in Slots \ {s} : worker'[t] = worker[t]
  BY <1>0, <1>1, Went DEF Places, Ended
<1>3. /\ events' \in [Jobs -> Seq(Kinds)] /\ (\A j \in Jobs \ {job} : events'[j] = events[j]) /\ Says(events'[job], "complete")
      /\ plan' \in [Jobs -> Drawings] /\ plan'[job] = worker[s].pad.done /\ \A j \in Jobs \ {job} : plan'[j] = plan[j]
  <2>1. events' \in [Jobs -> Seq(Kinds)] /\ (\A j \in Jobs \ {job} : events'[j] = events[j]) /\ Says(events'[job], "complete")
    BY <1>0, <1>1, Told DEF Kinds
  <2>2. plan' \in [Jobs -> Drawings] /\ plan'[job] = worker[s].pad.done /\ \A j \in Jobs \ {job} : plan'[j] = plan[j]
    BY <1>0, <1>1 DEF TypeOK, Drawings, Workers, Pads
  <2> QED  BY <2>1, <2>2
<1>4. WorkerInv(s)'
  BY <1>0, <1>1, <1>2, <1>3 DEF WritePlan, WorkerInv, Active, Places, Before, After, Whole, Waiting
<1>5. DiskInv(job)' /\ EntryInv(job)'
  <2>1. Waiting(disk[job]) \/ disk[job] = NoFile
    BY <1>0 DEF WritePlan, WorkerInv, Before
  <2>2. DiskInv(job)'
    BY <1>0, <1>1, <1>2, <2>1 DEF DiskInv, Waiting, Loads, Whole
  <2>3. EntryInv(job)'
    BY <1>0, <1>1, <1>2 DEF EntryInv
  <2> QED  BY <2>2, <2>3
<1>6. TypeOK'
  BY <1>0, <1>1, <1>2, <1>3 DEF TypeOK
<1> QED  BY <1>0, <1>1, <1>2, <1>3, <1>4, <1>5, <1>6, WorkerStep

LEMMA TruncateKeeps ==
  ASSUME Inv, NEW s \in Slots, Truncate(s)  PROVE Inv'
<1> DEFINE job == worker[s].job
<1>0. /\ TypeOK /\ WorkerInv(s) /\ worker[s] \in Workers /\ Active(s) /\ s # 0
      /\ job \in Jobs /\ entry[job] = s /\ handler.job # job /\ DiskInv(job) /\ EntryInv(job)
  BY OwnerOf DEF Truncate, Active, Places
<1>1. /\ Go(s, "saving") /\ disk' = [disk EXCEPT ![job] = Torn]
      /\ UNCHANGED <<plan, entry, events, handler, crashes, saveFailures>>
  BY DEF Truncate
<1>2. /\ worker' \in [Slots -> Workers]
      /\ worker'[s].at = "saving" /\ worker'[s].job = job
      /\ worker'[s].resumes = worker[s].resumes /\ worker'[s].pad = worker[s].pad
      /\ \A t \in Slots \ {s} : worker'[t] = worker[t]
  BY <1>0, <1>1, Went DEF Places, Ended
<1>3. /\ disk' \in [Jobs -> Files] /\ disk'[job] = Torn /\ \A j \in Jobs \ {job} : disk'[j] = disk[j]
  BY <1>0, <1>1 DEF TypeOK, Files
<1>4. WorkerInv(s)'
  BY <1>0, <1>1, <1>2, <1>3 DEF Truncate, WorkerInv, Active, Places, Before, After, Whole
<1>5. DiskInv(job)' /\ EntryInv(job)'
  BY <1>0, <1>1, <1>2, <1>3 DEF Truncate, DiskInv, EntryInv, Loads
<1>6. TypeOK'
  BY <1>0, <1>1, <1>2, <1>3 DEF TypeOK
<1> QED  BY <1>0, <1>1, <1>2, <1>3, <1>4, <1>5, <1>6, WorkerStep

LEMMA WriteKeeps ==
  ASSUME Inv, NEW s \in Slots, Write(s)  PROVE Inv'
<1> DEFINE job == worker[s].job
<1>0. /\ TypeOK /\ WorkerInv(s) /\ worker[s] \in Workers /\ Active(s) /\ s # 0
      /\ job \in Jobs /\ entry[job] = s /\ handler.job # job /\ DiskInv(job) /\ EntryInv(job)
  BY OwnerOf DEF Write, Active, Places
<1>1. /\ Go(s, "saved") /\ disk' = [disk EXCEPT ![job] = worker[s].pad]
      /\ UNCHANGED <<plan, entry, events, handler, crashes, saveFailures>>
  BY DEF Write
<1>2. /\ worker' \in [Slots -> Workers]
      /\ worker'[s].at = "saved" /\ worker'[s].job = job
      /\ worker'[s].resumes = worker[s].resumes /\ worker'[s].pad = worker[s].pad
      /\ \A t \in Slots \ {s} : worker'[t] = worker[t]
  BY <1>0, <1>1, Went DEF Places, Ended
<1>3. /\ disk' \in [Jobs -> Files] /\ disk'[job] = worker[s].pad /\ \A j \in Jobs \ {job} : disk'[j] = disk[j]
  BY <1>0, <1>1 DEF TypeOK, Files, Workers
<1>4. WorkerInv(s)'
  BY <1>0, <1>1, <1>2, <1>3 DEF Write, WorkerInv, Active, Places, Before, After, Whole
<1>5. DiskInv(job)' /\ EntryInv(job)'
  BY <1>0, <1>1, <1>2, <1>3 DEF Write, DiskInv, EntryInv, WorkerInv, After
<1>6. TypeOK'
  BY <1>0, <1>1, <1>2, <1>3 DEF TypeOK
<1> QED  BY <1>0, <1>1, <1>2, <1>3, <1>4, <1>5, <1>6, WorkerStep

LEMMA SaveRaisesKeeps ==
  ASSUME Inv, NEW s \in Slots, SaveRaises(s)  PROVE Inv'
<1> DEFINE job == worker[s].job
<1>0. /\ TypeOK /\ WorkerInv(s) /\ worker[s] \in Workers /\ Active(s) /\ s # 0
      /\ job \in Jobs /\ entry[job] = s /\ handler.job # job /\ DiskInv(job) /\ EntryInv(job)
  BY OwnerOf DEF SaveRaises, Active, Places
<1>1. /\ Go(s, "failed") /\ saveFailures' = saveFailures + 1
      /\ UNCHANGED <<disk, plan, entry, events, handler, crashes>>
  BY DEF SaveRaises
<1>2. /\ worker' \in [Slots -> Workers]
      /\ worker'[s].at = "failed" /\ worker'[s].job = job
      /\ worker'[s].resumes = worker[s].resumes /\ worker'[s].pad = worker[s].pad
      /\ \A t \in Slots \ {s} : worker'[t] = worker[t]
  BY <1>0, <1>1, Went DEF Places, Ended
<1>3. /\ saveFailures' \in Nat /\ saveFailures' # 0
  BY <1>0, <1>1 DEF TypeOK
<1>4. WorkerInv(s)'
  BY <1>0, <1>1, <1>2, <1>3 DEF SaveRaises, WorkerInv, Active, Places, Before, After, Whole
<1>5. DiskInv(job)' /\ EntryInv(job)'
  BY <1>0, <1>1, <1>2, <1>3 DEF SaveRaises, DiskInv, EntryInv
<1>6. TypeOK'
  BY <1>0, <1>1, <1>2, <1>3 DEF TypeOK
<1> QED  BY <1>0, <1>1, <1>2, <1>3, <1>4, <1>5, <1>6, WorkerStep

LEMMA LoadKeeps ==
  ASSUME Inv, NEW s \in Slots, Load(s)  PROVE Inv'
<1> DEFINE job == worker[s].job
           pad == IF worker[s].resumes THEN disk[job] ELSE FreshPad
<1>0. /\ TypeOK /\ WorkerInv(s) /\ worker[s] \in Workers /\ Active(s) /\ s # 0
      /\ job \in Jobs /\ entry[job] = s /\ handler.job # job /\ DiskInv(job) /\ EntryInv(job)
  BY OwnerOf DEF Load, Active, Places
<1>1. /\ worker' = [worker EXCEPT ![s].at = "working", ![s].pad = pad]
      /\ UNCHANGED <<disk, plan, entry, events, handler, crashes, saveFailures>>
  BY <1>0 DEF Load, WorkerInv, Before, Waiting
<1>a. pad \in Pads
  <2>1. FreshPad \in Pads
    BY RunnerAssumption DEF FreshPad, Pads
  <2>2. worker[s].resumes => disk[job] \in Pads
    BY <1>0 DEF Load, WorkerInv, Before, Waiting, Loads, TypeOK, Files
  <2> QED  BY <2>1, <2>2
<1>2. /\ worker' \in [Slots -> Workers]
      /\ worker'[s].at = "working" /\ worker'[s].job = job
      /\ worker'[s].resumes = worker[s].resumes /\ worker'[s].pad = pad
      /\ \A t \in Slots \ {s} : worker'[t] = worker[t]
  BY <1>0, <1>1, <1>a, Padded DEF Places, Ended
<1>4. WorkerInv(s)'
  BY <1>0, <1>1, <1>2 DEF Load, WorkerInv, Active, Places, Before, After, Waiting, FreshPad
<1>5. DiskInv(job)' /\ EntryInv(job)'
  BY <1>0, <1>1, <1>2 DEF DiskInv, EntryInv
<1>6. TypeOK'
  BY <1>0, <1>1, <1>2 DEF TypeOK
<1> QED  BY <1>0, <1>1, <1>2, <1>4, <1>5, <1>6, WorkerStep

\* A pad whose answer is taken has no question.
LEMMA AppliedCloses ==
  ASSUME Inv, NEW s \in Slots, worker[s].at = "working"
  PROVE  Applied(worker[s].pad) \in Pads /\ Applied(worker[s].pad).question = 0
<1>1. /\ worker[s].pad \in Pads
      /\ IF worker[s].resumes THEN worker[s].pad.question # 0 /\ worker[s].pad.answered
         ELSE worker[s].pad.question = 0
  BY DEF Inv, TypeOK, Workers, WorkerInv
<1> DEFINE pad == worker[s].pad
           closed == [status |-> pad.status, question |-> 0, answered |-> FALSE,
                      done |-> pad.done \cup {pad.question}]
<1>2. pad.question = 0 => Applied(pad) = pad
  BY DEF Applied
<1>3. CASE pad.question # 0
  <2>1. Applied(pad) = closed
    BY <1>1, <1>3 DEF Applied, Pads
  <2>2. pad.question \in 1 .. MaxQuestions
    BY <1>1, <1>3, RunnerAssumption DEF Pads
  <2>3. closed \in Pads /\ closed.question = 0
    <3>1. pad.done \cup {pad.question} \in SUBSET (1 .. MaxQuestions)
      BY <1>1, <2>2 DEF Pads
    <3>2. 0 \in 0 .. MaxQuestions
      BY RunnerAssumption
    <3> QED  BY <1>1, <3>1, <3>2 DEF Pads
  <2> QED  BY <2>1, <2>3
<1> QED  BY <1>1, <1>2, <1>3

LEMMA ParksKeeps ==
  ASSUME Inv, NEW s \in Slots, Parks(s)  PROVE Inv'
<1> DEFINE job == worker[s].job
           applied == Applied(worker[s].pad)
           next == Cardinality(applied.done) + 1
           pad == [applied EXCEPT !.status = "needs_input", !.question = next, !.answered = FALSE]
<1>0. /\ TypeOK /\ WorkerInv(s) /\ worker[s] \in Workers /\ Active(s) /\ s # 0
      /\ job \in Jobs /\ entry[job] = s /\ handler.job # job /\ DiskInv(job) /\ EntryInv(job)
  BY OwnerOf DEF Parks, Active, Places
<1>1. /\ worker' = [worker EXCEPT ![s].at = "returned", ![s].pad = pad] /\ next <= MaxQuestions
      /\ Record(job, "needs_input")
      /\ UNCHANGED <<disk, plan, entry, handler, crashes, saveFailures>>
  BY DEF Parks
<1>a. pad \in Pads /\ pad.status = "needs_input" /\ pad.question # 0
  <2>1. applied \in Pads
    BY AppliedCloses DEF Parks
  <2>2. IsFiniteSet(applied.done)
    <3>1. applied.done \subseteq 1 .. MaxQuestions /\ 1 \in Int /\ MaxQuestions \in Int
      BY <2>1, RunnerAssumption DEF Pads
    <3> HIDE DEF applied
    <3> QED  BY <3>1, FS_Interval, FS_Subset
  <2>3. next \in 1 .. MaxQuestions
    BY <1>1, <2>2, FS_CardinalityType, RunnerAssumption
  <2>4. next \in 0 .. MaxQuestions /\ next # 0
    BY <2>3, RunnerAssumption
  <2> HIDE DEF applied, next
  <2> QED  BY <2>1, <2>4 DEF Pads
<1> HIDE DEF pad
<1>2. /\ worker' \in [Slots -> Workers]
      /\ worker'[s].at = "returned" /\ worker'[s].job = job
      /\ worker'[s].resumes = worker[s].resumes /\ worker'[s].pad = pad
      /\ \A t \in Slots \ {s} : worker'[t] = worker[t]
  BY <1>0, <1>1, <1>a, Padded DEF Places, Ended
<1>3. events' \in [Jobs -> Seq(Kinds)] /\ (\A j \in Jobs \ {job} : events'[j] = events[j])
  BY <1>0, <1>1, Told DEF Kinds
<1>4. WorkerInv(s)'
  BY <1>0, <1>1, <1>2, <1>a DEF Parks, WorkerInv, Active, Places, Before, After, Whole
<1>5. DiskInv(job)' /\ EntryInv(job)'
  BY <1>0, <1>1, <1>2 DEF DiskInv, EntryInv
<1>6. TypeOK'
  BY <1>0, <1>1, <1>2, <1>3 DEF TypeOK
<1> QED  BY <1>0, <1>1, <1>2, <1>3, <1>4, <1>5, <1>6, WorkerStep

LEMMA FinishesKeeps ==
  ASSUME Inv, NEW s \in Slots, Finishes(s)  PROVE Inv'
<1> DEFINE job == worker[s].job
           pad == [Applied(worker[s].pad) EXCEPT !.status = "complete"]
<1>0. /\ TypeOK /\ WorkerInv(s) /\ worker[s] \in Workers /\ Active(s) /\ s # 0
      /\ job \in Jobs /\ entry[job] = s /\ handler.job # job /\ DiskInv(job) /\ EntryInv(job)
  BY OwnerOf DEF Finishes, Active, Places
<1>1. /\ worker' = [worker EXCEPT ![s].at = "planned", ![s].pad = pad]
      /\ UNCHANGED <<disk, plan, entry, events, handler, crashes, saveFailures>>
  BY DEF Finishes
<1>a. pad \in Pads /\ pad.status = "complete" /\ pad.question = 0
  BY AppliedCloses DEF Finishes, Pads
<1> HIDE DEF pad
<1>2. /\ worker' \in [Slots -> Workers]
      /\ worker'[s].at = "planned" /\ worker'[s].job = job
      /\ worker'[s].resumes = worker[s].resumes /\ worker'[s].pad = pad
      /\ \A t \in Slots \ {s} : worker'[t] = worker[t]
  BY <1>0, <1>1, <1>a, Padded DEF Places, Ended
<1>4. WorkerInv(s)'
  BY <1>0, <1>1, <1>2, <1>a DEF Finishes, WorkerInv, Active, Places, Before, After, Whole
<1>5. DiskInv(job)' /\ EntryInv(job)'
  BY <1>0, <1>1, <1>2 DEF DiskInv, EntryInv
<1>6. TypeOK'
  BY <1>0, <1>1, <1>2 DEF TypeOK
<1> QED  BY <1>0, <1>1, <1>2, <1>4, <1>5, <1>6, WorkerStep

LEMMA EndKeeps ==
  ASSUME Inv, NEW s \in Slots, End(s)  PROVE Inv'
<1> DEFINE job == worker[s].job
           kind == IF worker[s].pad.status = "needs_input" THEN "needs_input" ELSE "complete"
<1>0. /\ TypeOK /\ WorkerInv(s) /\ worker[s] \in Workers /\ Active(s) /\ s # 0
      /\ job \in Jobs /\ entry[job] = s /\ handler.job # job /\ DiskInv(job) /\ EntryInv(job)
  BY OwnerOf DEF End, Active, Places
<1>1. /\ Go(s, "done") /\ Record(job, kind)
      /\ UNCHANGED <<disk, plan, entry, handler, crashes, saveFailures>>
  BY DEF End
<1>2. /\ worker' \in [Slots -> Workers]
      /\ worker'[s].at = "done" /\ worker'[s].job = job
      /\ worker'[s].resumes = worker[s].resumes /\ worker'[s].pad = worker[s].pad
      /\ \A t \in Slots \ {s} : worker'[t] = worker[t]
  BY <1>0, <1>1, Went DEF Places, Ended
<1>a. Whole(worker[s].pad) /\ kind = worker[s].pad.status /\ disk[job] = worker[s].pad
  BY <1>0 DEF End, WorkerInv, After, Whole
<1>3. /\ events' \in [Jobs -> Seq(Kinds)] /\ (\A j \in Jobs \ {job} : events'[j] = events[j])
      /\ Says(events'[job], worker[s].pad.status)
  <2>1. kind \in Kinds
    BY DEF Kinds
  <2> HIDE DEF kind
  <2> QED  BY <1>0, <1>1, <1>a, <2>1, Told
<1>4. WorkerInv(s)'
  BY <1>0, <1>1, <1>2 DEF End, WorkerInv, Active, Places, Before, After
<1>5. DiskInv(job)' /\ EntryInv(job)'
  BY <1>0, <1>1, <1>2, <1>3, <1>a DEF DiskInv, EntryInv, Whole
<1>6. TypeOK'
  BY <1>0, <1>1, <1>2, <1>3 DEF TypeOK
<1> QED  BY <1>0, <1>1, <1>2, <1>3, <1>4, <1>5, <1>6, WorkerStep

-----------------------------------------------------------------------------
\* A submission is a new owner of a job that has none.
LEMMA SubmissionKeeps ==
  ASSUME Inv, NEW j \in Jobs, NEW resumes \in BOOLEAN, Submitted(j, resumes),
         handler' = NoHandler, handler.job \in {"none", j},
         \A t \in Slots : Active(t) => worker[t].job # j,
         IF resumes THEN Waiting(disk[j]) /\ disk[j].answered ELSE disk[j] = NoFile,
         UNCHANGED <<disk, plan, crashes, saveFailures>>
  PROVE  Inv'
<1>0. /\ TypeOK /\ HandlerInv /\ FirstInv
      /\ \A t \in Slots : WorkerInv(t)
      /\ \A k \in Jobs : DiskInv(k) /\ EntryInv(k)
  BY DEF Inv
<1>1. PICK s \in Slots :
        /\ worker[s] = Free
        /\ worker' = [worker EXCEPT ![s] = [Free EXCEPT !.at = "queued", !.job = j, !.resumes = resumes]]
        /\ entry' = [entry EXCEPT ![j] = s]
        /\ events' = [events EXCEPT ![j] = <<>>]
  BY DEF Submitted
<1>2. FreshPad \in Pads
  BY RunnerAssumption DEF FreshPad, Pads
<1>3. /\ worker' \in [Slots -> Workers]
      /\ worker'[s].at = "queued" /\ worker'[s].job = j /\ worker'[s].resumes = resumes
      /\ \A t \in Slots \ {s} : worker'[t] = worker[t]
  <2>1. [Free EXCEPT !.at = "queued", !.job = j, !.resumes = resumes] \in Workers
    BY <1>2 DEF Free, Workers, Places, Owners
  <2>2. worker \in [Slots -> Workers]
    BY <1>0 DEF TypeOK
  <2> QED  BY <1>1, <2>1, <2>2 DEF Free
<1>4. /\ entry' \in [Jobs -> {0} \cup Slots] /\ entry'[j] = s /\ s # 0
      /\ \A k \in Jobs \ {j} : entry'[k] = entry[k]
  BY <1>0, <1>1, RunnerAssumption DEF TypeOK, Slots
<1>5. events' \in [Jobs -> Seq(Kinds)] /\ \A k \in Jobs \ {j} : events'[k] = events[k]
  <2>1. events \in [Jobs -> Seq(Kinds)] /\ <<>> \in Seq(Kinds)
    BY <1>0 DEF TypeOK
  <2> QED  BY <1>1, <2>1
<1>6. handler' \in Handlers /\ handler'.at = "idle" /\ handler'.job = "none"
  BY <1>2 DEF NoHandler, Handlers, Owners
<1>7. TypeOK'
  BY <1>0, <1>3, <1>4, <1>5, <1>6 DEF TypeOK
<1>8. \A t \in Slots : WorkerInv(t)'
  <2>1. WorkerInv(s)'
    BY <1>3, <1>4, <1>6, RunnerAssumption DEF WorkerInv, Active, Before, After
  <2>2. ASSUME NEW t \in Slots, t # s  PROVE WorkerInv(t)'
    <3>1. WorkerInv(t) /\ worker'[t] = worker[t] /\ (Active(t)' <=> Active(t))
      BY <1>0, <1>3, <2>2 DEF Active
    <3>2. Active(t) => worker[t].job \in Jobs \ {j} /\ worker[t].job # "none"
      BY <3>1, RunnerAssumption DEF WorkerInv, Active, Places
    <3>3. worker[t].at # "free" => worker[t].job \in Jobs /\ entry'[worker[t].job] # 0
      BY <1>4, <3>1 DEF WorkerInv
    <3>4. CASE Active(t)
      BY <1>4, <1>6, <3>1, <3>2, <3>4 DEF WorkerInv
    <3>5. CASE ~Active(t)
      BY <3>1, <3>3, <3>5 DEF WorkerInv, Active, Places, Before, After
    <3> QED  BY <3>4, <3>5
  <2> QED  BY <2>1, <2>2
<1>9. HandlerInv'
  BY <1>6 DEF HandlerInv
<1>10. \A k \in Jobs : DiskInv(k)' /\ EntryInv(k)'
  <2>1. EntryInv(j)'
    BY <1>3, <1>4 DEF EntryInv
  <2>2. ASSUME NEW k \in Jobs, k # j  PROVE EntryInv(k)'
    <3>1. entry[k] # 0 => entry[k] \in Slots \ {s}
      BY <1>0, <1>1 DEF EntryInv, TypeOK, Free
    <3>2. handler.job # k /\ handler'.job # k
      BY <1>6, <2>2, RunnerAssumption
    <3>3. EntryInv(k) /\ entry'[k] = entry[k] /\ events'[k] = events[k] /\ disk'[k] = disk[k]
          /\ saveFailures' = saveFailures
      BY <1>0, <1>4, <1>5, <2>2
    <3>4. entry[k] # 0 => worker'[entry[k]] = worker[entry[k]]
      BY <1>3, <3>1
    <3> QED  BY <3>2, <3>3, <3>4 DEF EntryInv
  <2> QED  BY <1>0, <2>1, <2>2 DEF DiskInv
<1>11. FirstInv'
  BY <1>0, <1>4 DEF FirstInv
<1> QED  BY <1>7, <1>8, <1>9, <1>10, <1>11 DEF Inv

LEMMA SubmitPlanKeeps ==
  ASSUME Inv, NEW j \in Jobs, SubmitPlan(j)  PROVE Inv'
<1>1. \A t \in Slots : Active(t) => worker[t].job # j
  BY DEF Inv, WorkerInv, SubmitPlan, Active, Places
<1> QED  BY <1>1, SubmissionKeeps DEF SubmitPlan, NoHandler

LEMMA ResumeSubmitsKeeps ==
  ASSUME Inv, ResumeSubmits  PROVE Inv'
<1> DEFINE job == handler.job
<1>1. /\ job \in Jobs /\ Waiting(disk[job]) /\ disk[job].answered
      /\ \A t \in Slots : Active(t) => worker[t].job # job
  BY DEF Inv, HandlerInv, WorkerInv, ResumeSubmits
<1> QED  BY <1>1, SubmissionKeeps DEF ResumeSubmits

\* A step of the handler disturbs only the file of its job, which no worker has.
LEMMA HandlerStep ==
  ASSUME Inv, TypeOK', HandlerInv', NEW job \in Jobs, handler.job \in {"none", job}, handler'.job = job,
         \A t \in Slots : Active(t) => worker[t].job # job,
         \A j \in Jobs \ {job} : disk'[j] = disk[j],
         DiskInv(job)', EntryInv(job)', disk[job] # NoFile,
         UNCHANGED <<plan, worker, entry, events, crashes, saveFailures>>
  PROVE  Inv'
<1>0. /\ FirstInv
      /\ \A t \in Slots : WorkerInv(t)
      /\ \A j \in Jobs : DiskInv(j) /\ EntryInv(j)
  BY DEF Inv
<1>1. ASSUME NEW t \in Slots  PROVE WorkerInv(t)'
  <2>1. WorkerInv(t) /\ (Active(t)' <=> Active(t))
    BY <1>0 DEF Active
  <2>2. CASE Active(t)
    <3>1. worker[t].job \in Jobs \ {job}
      BY <2>1, <2>2 DEF WorkerInv, Active, Places
    <3> QED  BY <2>1, <2>2, <3>1 DEF WorkerInv
  <2>3. CASE ~Active(t)
    BY <2>1, <2>3 DEF WorkerInv, Active, Places, Before, After
  <2> QED  BY <2>2, <2>3
<1>2. ASSUME NEW j \in Jobs, j # job  PROVE DiskInv(j)' /\ EntryInv(j)'
  <2>1. handler.job # j
    BY <1>2, RunnerAssumption
  <2> QED  BY <1>0, <1>2, <2>1 DEF DiskInv, EntryInv
<1>3. FirstInv'
  BY <1>0 DEF FirstInv
<1> QED  BY <1>1, <1>2, <1>3 DEF Inv

LEMMA ResumeChecksKeeps ==
  ASSUME Inv, ~Eager, NEW j \in Jobs, ResumeChecks(j)  PROVE Inv'
<1>1. /\ handler' = [NoHandler EXCEPT !.at = "checked", !.job = j] /\ handler.job = "none"
      /\ UNCHANGED <<disk, plan, worker, entry, events, crashes, saveFailures>>
      /\ \A t \in Slots : Active(t) => worker[t].job # j
  BY DEF ResumeChecks, NoHandler
<1>2. handler' \in Handlers /\ handler'.at = "checked" /\ handler'.job = j
  <2>1. FreshPad \in Pads
    BY RunnerAssumption DEF FreshPad, Pads
  <2> QED  BY <1>1, <2>1 DEF NoHandler, Handlers, Owners
<1>3. Waiting(disk[j]) /\ disk[j] # NoFile
  BY DEF Inv, DiskInv, Whole, Waiting, ResumeChecks, Loads
<1>4. TypeOK' /\ HandlerInv'
  BY <1>1, <1>2, <1>3 DEF Inv, TypeOK, HandlerInv
<1>5. DiskInv(j)' /\ EntryInv(j)'
  <2>1. DiskInv(j) /\ EntryInv(j)
    BY DEF Inv
  <2> QED  BY <1>1, <1>2, <1>3, <2>1, RunnerAssumption DEF DiskInv, EntryInv, Waiting
<1> QED  BY <1>1, <1>2, <1>3, <1>4, <1>5, HandlerStep

\* What the handler of a request may count on.
LEMMA HandlerOf ==
  ASSUME Inv, handler.at # "idle"
  PROVE  /\ TypeOK /\ HandlerInv /\ handler \in Handlers /\ handler.job \in Jobs
         /\ DiskInv(handler.job) /\ EntryInv(handler.job)
         /\ \A t \in Slots : Active(t) => worker[t].job # handler.job
  BY DEF Inv, TypeOK, HandlerInv, WorkerInv

LEMMA ResumeAnswersKeeps ==
  ASSUME Inv, ResumeAnswers  PROVE Inv'
<1> DEFINE job == handler.job
           pad == [disk[job] EXCEPT !.answered = TRUE]
<1>0. /\ TypeOK /\ HandlerInv /\ handler \in Handlers /\ job \in Jobs
      /\ DiskInv(job) /\ EntryInv(job) /\ \A t \in Slots : Active(t) => worker[t].job # job
  BY HandlerOf DEF ResumeAnswers
<1>1. /\ Waiting(disk[job]) /\ disk[job] # NoFile /\ disk[job] \in Pads
      /\ handler' = [handler EXCEPT !.at = "answered", !.pad = pad]
      /\ UNCHANGED <<disk, plan, worker, entry, events, crashes, saveFailures>>
  BY <1>0 DEF ResumeAnswers, HandlerInv, Waiting, Loads, TypeOK, Files
<1>2. pad \in Pads /\ pad.status = "needs_input" /\ pad.question # 0 /\ pad.answered
  BY <1>1 DEF Pads, Waiting
<1>3. Waiting(pad)
  BY <1>2, PadsLoad DEF Waiting
<1> HIDE DEF pad
<1>4. handler' \in Handlers /\ handler'.at = "answered" /\ handler'.job = job /\ handler'.pad = pad
  BY <1>0, <1>1, <1>2 DEF Handlers
<1>5. TypeOK' /\ HandlerInv'
  BY <1>0, <1>1, <1>2, <1>3, <1>4 DEF TypeOK, HandlerInv
<1>6. DiskInv(job)' /\ EntryInv(job)'
  BY <1>0, <1>1, <1>4 DEF DiskInv, EntryInv
<1> QED  BY <1>0, <1>1, <1>4, <1>5, <1>6, HandlerStep

LEMMA ResumeTruncatesKeeps ==
  ASSUME Inv, ResumeTruncates  PROVE Inv'
<1> DEFINE job == handler.job
<1>0. /\ TypeOK /\ HandlerInv /\ handler \in Handlers /\ job \in Jobs
      /\ DiskInv(job) /\ EntryInv(job) /\ \A t \in Slots : Active(t) => worker[t].job # job
  BY HandlerOf DEF ResumeTruncates
<1>1. /\ disk' = [disk EXCEPT ![job] = Torn] /\ handler' = [handler EXCEPT !.at = "saving"]
      /\ UNCHANGED <<plan, worker, entry, events, crashes, saveFailures>>
      /\ disk[job] # NoFile
  BY <1>0 DEF ResumeTruncates, HandlerInv, Waiting, Loads
<1>2. disk' \in [Jobs -> Files] /\ disk'[job] = Torn /\ \A j \in Jobs \ {job} : disk'[j] = disk[j]
  BY <1>0, <1>1 DEF TypeOK, Files
<1>3. handler' \in Handlers /\ handler'.at = "saving" /\ handler'.job = job /\ handler'.pad = handler.pad
  BY <1>0, <1>1 DEF Handlers
<1>4. TypeOK' /\ HandlerInv'
  BY <1>0, <1>1, <1>2, <1>3, RunnerAssumption DEF TypeOK, HandlerInv, ResumeTruncates
<1>5. DiskInv(job)' /\ EntryInv(job)'
  BY <1>0, <1>1, <1>2, <1>3 DEF DiskInv, EntryInv, Loads
<1> QED  BY <1>0, <1>1, <1>2, <1>3, <1>4, <1>5, HandlerStep

LEMMA ResumeSavesKeeps ==
  ASSUME Inv, ResumeSaves  PROVE Inv'
<1> DEFINE job == handler.job
<1>0. /\ TypeOK /\ HandlerInv /\ handler \in Handlers /\ job \in Jobs
      /\ DiskInv(job) /\ EntryInv(job) /\ \A t \in Slots : Active(t) => worker[t].job # job
  BY HandlerOf DEF ResumeSaves
<1>1. /\ disk' = [disk EXCEPT ![job] = handler.pad] /\ handler' = [handler EXCEPT !.at = "saved"]
      /\ UNCHANGED <<plan, worker, entry, events, crashes, saveFailures>>
      /\ Waiting(handler.pad) /\ handler.pad.answered /\ handler.pad \in Pads
  BY <1>0 DEF ResumeSaves, HandlerInv, Handlers
<1>2. disk' \in [Jobs -> Files] /\ disk'[job] = handler.pad /\ \A j \in Jobs \ {job} : disk'[j] = disk[j]
  BY <1>0, <1>1 DEF TypeOK, Files
<1>3. handler' \in Handlers /\ handler'.at = "saved" /\ handler'.job = job /\ handler'.pad = handler.pad
  BY <1>0, <1>1 DEF Handlers
<1>4. TypeOK' /\ HandlerInv'
  BY <1>0, <1>1, <1>2, <1>3 DEF TypeOK, HandlerInv, Waiting, Loads
<1>5. DiskInv(job)' /\ EntryInv(job)'
  BY <1>0, <1>1, <1>2, <1>3 DEF DiskInv, EntryInv, Waiting, Whole
<1>6. disk[job] # NoFile
  BY <1>0 DEF ResumeSaves, HandlerInv
<1> QED  BY <1>0, <1>1, <1>2, <1>3, <1>4, <1>5, <1>6, HandlerStep

LEMMA CrashKeeps ==
  ASSUME Inv, Crash  PROVE Inv'
<1>1. FreshPad \in Pads
  BY RunnerAssumption DEF FreshPad, Pads
<1>2. /\ worker' = [t \in Slots |-> Free] /\ entry' = [j \in Jobs |-> 0] /\ events' = [j \in Jobs |-> <<>>]
      /\ handler' = NoHandler /\ UNCHANGED <<disk, plan, saveFailures>>
      /\ crashes' \in Nat /\ crashes' # 0
  BY DEF Crash, Inv, TypeOK
<1>3. Free \in Workers /\ NoHandler \in Handlers /\ <<>> \in Seq(Kinds)
  BY <1>1 DEF Free, NoHandler, Workers, Handlers, Owners
<1>4. TypeOK'
  BY <1>2, <1>3 DEF Inv, TypeOK
<1>5. \A t \in Slots : WorkerInv(t)'
  BY <1>2 DEF WorkerInv, Free, Active, Places, Before, After
<1>6. HandlerInv'
  BY <1>2 DEF HandlerInv, NoHandler
<1>7. \A j \in Jobs : DiskInv(j)' /\ EntryInv(j)'
  BY <1>2 DEF Inv, DiskInv, EntryInv
<1>8. FirstInv'
  BY <1>2 DEF FirstInv
<1> QED  BY <1>4, <1>5, <1>6, <1>7, <1>8 DEF Inv

LEMMA InitEstablishes == Init => Inv
<1> SUFFICES ASSUME Init  PROVE Inv
  OBVIOUS
<1>1. FreshPad \in Pads
  BY RunnerAssumption DEF FreshPad, Pads
<1>2. Free \in Workers /\ NoHandler \in Handlers /\ <<>> \in Seq(Kinds)
  BY <1>1 DEF Free, NoHandler, Workers, Handlers, Owners
<1>3. TypeOK
  BY <1>2 DEF Init, TypeOK, Files, Drawings
<1>4. \A t \in Slots : WorkerInv(t)
  BY DEF Init, WorkerInv, Free, Active, Places, Before, After
<1>5. HandlerInv
  BY DEF Init, HandlerInv, NoHandler
<1>6. (\A j \in Jobs : DiskInv(j) /\ EntryInv(j)) /\ FirstInv
  BY DEF Init, DiskInv, EntryInv, FirstInv, Loads
<1> QED  BY <1>3, <1>4, <1>5, <1>6 DEF Inv

LEMMA NextKeeps ==
  ASSUME ~Eager, Inv, [Next]_vars  PROVE Inv'
<1>1. CASE UNCHANGED vars
  BY <1>1 DEF vars, Inv, TypeOK, WorkerInv, HandlerInv, DiskInv, EntryInv, FirstInv, Active
<1>2. CASE \E j \in Jobs : SubmitPlan(j) \/ ResumeChecks(j)
  BY <1>2, SubmitPlanKeeps, ResumeChecksKeeps
<1>3. CASE Handle
  BY <1>3, ResumeAnswersKeeps, ResumeTruncatesKeeps, ResumeSavesKeeps, ResumeSubmitsKeeps DEF Handle
<1>4. ASSUME NEW s \in Slots, Start(s) \/ Work(s) \/ SaveRaises(s)  PROVE Inv'
  BY <1>4, StartKeeps, LoadKeeps, ParksKeeps, FinishesKeeps, RaisesKeeps, TruncatePlanKeeps,
     WritePlanKeeps, TruncateKeeps, WriteKeeps, EndKeeps, SaveRaisesKeeps DEF Work
<1>5. CASE Crash
  BY <1>5, CrashKeeps
<1> QED  BY <1>1, <1>2, <1>3, <1>4, <1>5 DEF Next

LEMMA Invariance == ASSUME ~Eager PROVE Spec => []Inv
<1>1. Inv /\ [Next]_vars => Inv'
  BY NextKeeps
<1> QED  BY <1>1, InitEstablishes, PTL DEF Spec

-----------------------------------------------------------------------------
\* What the runner keeps has its shape, over every submission, answer, failure and crash.
THEOREM TypeCorrect == ASSUME ~Eager PROVE Spec => []TypeOK
<1>1. Inv => TypeOK
  BY DEF Inv
<1> QED  BY <1>1, Invariance, PTL

\* Whoever asks, a pause is whole: a resumed leg finds its question and its answer, and a
\* job that is said to wait can be answered (JobRunner.resume, read_job).
THEOREM PausesHold == ASSUME ~Eager PROVE Spec => []PausesAreWhole
<1>1. Inv => AnswerIsOnDisk
  BY DEF Inv, WorkerInv, AnswerIsOnDisk
<1>2. ASSUME Inv  PROVE ParkedIsAnswerable
  <2> SUFFICES ASSUME NEW j \in Jobs, Status(j) = "needs_input", handler.job # j
               PROVE  Loads(disk[j]) /\ disk[j].status = "needs_input" /\ disk[j].question # 0
    BY DEF ParkedIsAnswerable
  <2>0. EntryInv(j) /\ DiskInv(j) /\ entry[j] \in {0} \cup Slots
    BY <1>2 DEF Inv, TypeOK
  <2>1. CASE entry[j] = 0
    BY <2>0, <2>1 DEF Status, DiskInv, Whole
  <2>2. CASE entry[j] # 0
    <3> DEFINE w == worker[entry[j]]
    <3>1. w \in Workers /\ w.at \notin Places /\ w.at # "failed" /\ w.at # "free" /\ w.pad.status = "needs_input"
      BY <1>2, <2>0, <2>2 DEF Inv, TypeOK, Status, Active, EntryInv
    <3>2. w.at = "done" /\ w.pad \in Pads
      BY <3>1 DEF Workers, Ended
    <3>3. disk[j] = w.pad /\ Whole(w.pad)
      BY <2>0, <2>2, <3>2 DEF EntryInv
    <3> QED  BY <3>1, <3>2, <3>3, PadsLoad DEF Whole
  <2> QED  BY <2>1, <2>2
<1>3. Inv => PausesAreWhole
  BY <1>1, <1>2 DEF PausesAreWhole
<1> QED  BY <1>3, Invariance, PTL

\* A job that has ended with a status has it from the leg that ended last.
LEMMA Settled ==
  ASSUME Inv, NEW j \in Jobs, entry[j] # 0, Status(j) # "running"
  PROVE  LET w == worker[entry[j]]
         IN  \/ w.at = "failed" /\ Status(j) = "failed"
             \/ w.at = "done" /\ Status(j) = w.pad.status /\ w.pad \in Pads
<1> DEFINE w == worker[entry[j]]
<1>1. EntryInv(j) /\ entry[j] \in Slots /\ w \in Workers
  BY DEF Inv, TypeOK
<1>2. w.at # "free"
  BY <1>1 DEF EntryInv
<1>3. ~Active(entry[j])
  <2>1. Active(entry[j]) => Status(j) = "running"
    BY DEF Status, Active, Places
  <2> QED  BY <2>1
<1>4. w.at \notin Places
  BY <1>3 DEF Active
<1>5. w.at \in Ended /\ w.pad \in Pads
  BY <1>1, <1>2, <1>4 DEF Workers
<1>6. w.at # "failed" => Status(j) = w.pad.status
  BY <1>3 DEF Status
<1>7. w.at = "failed" => Status(j) = "failed"
  BY <1>3 DEF Status
<1> QED  BY <1>5, <1>6, <1>7 DEF Ended

\* Whoever is told how a job ended, by a poll, its log or its files, can rely on it: the plan
\* of a complete one is there, of the answers that were taken (_finish, JobRunner.submit).
THEOREM ToldIsSo == ASSUME ~Eager PROVE Spec => []WhatIsToldIsSo
<1>1. ASSUME Inv, NEW j \in Jobs, Status(j) = "complete"  PROVE Loads(disk[j]) /\ disk[j].status = "complete"
  <2>0. EntryInv(j) /\ DiskInv(j)
    BY <1>1 DEF Inv
  <2>1. CASE entry[j] = 0
    BY <1>1, <2>1 DEF Status
  <2>2. CASE entry[j] # 0
    <3>1. worker[entry[j]].at = "done" /\ worker[entry[j]].pad.status = "complete" /\ worker[entry[j]].pad \in Pads
      BY <1>1, <2>2, Settled
    <3>2. disk[j] = worker[entry[j]].pad
      BY <2>0, <2>2, <3>1 DEF EntryInv
    <3> QED  BY <3>1, <3>2, PadsLoad
  <2> QED  BY <2>1, <2>2
<1>2. ASSUME Inv  PROVE CompleteHasItsPlan
  BY <1>1, <1>2 DEF Inv, DiskInv, Whole, CompleteHasItsPlan
<1>3. ASSUME Inv  PROVE LastEventTells
  <2> SUFFICES ASSUME NEW j \in Jobs, saveFailures = 0, entry[j] # 0, Status(j) # "running"
               PROVE  events[j] # <<>> /\ events[j][Len(events[j])] = Status(j)
    BY DEF LastEventTells
  <2>1. EntryInv(j)
    BY <1>3 DEF Inv
  <2> QED  BY <1>3, <2>1, Settled DEF EntryInv, Says
<1>4. Inv => WhatIsToldIsSo
  BY <1>2, <1>3 DEF WhatIsToldIsSo
<1> QED  BY <1>4, Invariance, PTL

\* What is complete on disk stays as it is: nobody answers it, and no worker has it
\* (resume_job, JobRunner.submit).
THEOREM CompleteStays == ASSUME ~Eager PROVE Spec => CompleteIsFinal
<1> DEFINE Stays == \A j \in Jobs : Loads(disk[j]) /\ disk[j].status = "complete" => disk'[j] = disk[j]
<1>1. ASSUME Inv, [Next]_vars  PROVE Stays
  <2> SUFFICES ASSUME NEW j \in Jobs, Loads(disk[j]), disk[j].status = "complete"
               PROVE  disk'[j] = disk[j]
    OBVIOUS
  <2>0. TypeOK /\ HandlerInv /\ \A s \in Slots : WorkerInv(s)
    BY <1>1 DEF Inv
  <2>1. ASSUME NEW s \in Slots, Truncate(s) \/ Write(s)  PROVE disk'[j] = disk[j]
    <3>1. worker[s].at \in {"returned", "saving"} /\ worker[s].job \in Jobs
      BY <2>0, <2>1 DEF Truncate, Write, WorkerInv
    <3>2. CASE worker[s].at = "returned"
      <4>1. worker[s].job # j
        BY <2>0, <3>2, RunnerAssumption DEF WorkerInv, Before, Waiting, Loads
      <4> QED  BY <2>0, <2>1, <3>1, <3>2, <4>1 DEF Truncate, Write, TypeOK
    <3>3. CASE worker[s].at = "saving"
      <4>1. worker[s].job # j
        BY <2>0, <3>3 DEF WorkerInv, Loads
      <4> QED  BY <2>0, <2>1, <3>1, <3>3, <4>1 DEF Truncate, Write, TypeOK
    <3> QED  BY <3>1, <3>2, <3>3
  <2>2. CASE ResumeTruncates \/ ResumeSaves
    <3>1. handler.job # j
      BY <2>0, <2>2 DEF ResumeTruncates, ResumeSaves, HandlerInv, Waiting, Loads
    <3> QED  BY <2>0, <2>2, <3>1 DEF ResumeTruncates, ResumeSaves, TypeOK
  <2>3. CASE UNCHANGED disk
    BY <2>3
  <2> QED  BY <1>1, <2>1, <2>2, <2>3
           DEF Next, vars, Handle, Work, SubmitPlan, ResumeChecks, ResumeAnswers, ResumeSubmits, Start, Load,
               Parks, Finishes, Raises, TruncatePlan, WritePlan, End, SaveRaises, Crash
<1>2. Spec => []Inv
  BY Invariance
<1>3. Inv /\ [Next]_vars => [Stays]_vars
  BY <1>1
<1> QED  BY <1>2, <1>3, PTL DEF Spec, CompleteIsFinal

-----------------------------------------------------------------------------
\* What a poll reports depends on the job's own entry, and on its file when it has none.
LEMMA SameStatus ==
  ASSUME NEW j \in Jobs, entry'[j] = entry[j],
         IF entry[j] = 0 THEN disk'[j] = disk[j] ELSE worker'[entry[j]] = worker[entry[j]]
  PROVE  Status(j)' = Status(j)
<1>1. CASE entry[j] = 0
  BY <1>1 DEF Status
<1>2. CASE entry[j] # 0
  <2>1. Active(entry[j])' = Active(entry[j])
    BY <1>2 DEF Active
  <2> QED  BY <1>2, <2>1 DEF Status
<1> QED  BY <1>1, <1>2

LEMMA PolledMoves ==
  ASSUME NEW job \in Jobs, crashes = 0, crashes' = 0,
         \A j \in Jobs \ {job} : Status(j)' = Status(j)
  PROVE  Polled' = [Polled EXCEPT ![job] = Status(job)'] /\ Polled[job] = Status(job)
  BY DEF Polled

\* A worker's step leaves its job running or settles it.
LEMMA WorkerPolls ==
  ASSUME Inv, NEW s \in Slots, Active(s), NEW job \in Jobs, job = worker[s].job,
         crashes = 0, crashes' = 0, entry' = entry,
         \A t \in Slots \ {s} : worker'[t] = worker[t],
         \A j \in Jobs \ {job} : disk'[j] = disk[j],
         \/ worker'[s].at \in Places \cup {"failed"}
         \/ worker'[s].at = "done" /\ worker'[s].pad.status \in {"needs_input", "complete"}
  PROVE  Lifecycle!Next \/ Polled' = Polled
<1>0. entry[job] = s /\ s # 0
  BY OwnerOf
<1>1. \A j \in Jobs \ {job} : Status(j)' = Status(j)
  <2> SUFFICES ASSUME NEW j \in Jobs, j # job  PROVE Status(j)' = Status(j)
    OBVIOUS
  <2>1. EntryInv(j) /\ entry[j] \in {0} \cup Slots
    BY DEF Inv, TypeOK
  <2>2. entry[j] # 0 => entry[j] # s
    BY <2>1 DEF EntryInv
  <2>3. entry[j] # 0 => worker'[entry[j]] = worker[entry[j]]
    BY <2>1, <2>2
  <2> QED  BY <2>3, SameStatus
<1>2. Polled' = [Polled EXCEPT ![job] = Status(job)'] /\ Polled[job] = Status(job)
  BY <1>0, <1>1, PolledMoves
<1>3. Status(job) = "running"
  BY <1>0 DEF Status, Active, Places
<1>4. CASE worker'[s].at \in Places
  <2>1. Status(job)' = "running"
    BY <1>0, <1>4 DEF Status, Active, Places
  <2>2. Polled' = [Polled EXCEPT ![job] = Polled[job]]
    BY <1>2, <1>3, <2>1
  <2> QED  BY <2>2 DEF Polled
<1>5. CASE worker'[s].at = "failed"
  <2>1. Status(job)' = "failed"
    BY <1>0, <1>5 DEF Status, Active, Places
  <2> QED  BY <1>0, <1>2, <1>3, <2>1 DEF Lifecycle!Next, Lifecycle!Settle
<1>6. CASE worker'[s].at = "done" /\ worker'[s].pad.status \in {"needs_input", "complete"}
  <2>1. Status(job)' = worker'[s].pad.status
    BY <1>0, <1>6 DEF Status, Active, Places
  <2> QED  BY <1>0, <1>2, <1>3, <1>6, <2>1 DEF Lifecycle!Next, Lifecycle!Settle
<1> QED  BY <1>4, <1>5, <1>6

\* A submission sets its job running.
LEMMA SubmitPolls ==
  ASSUME Inv, NEW job \in Jobs, NEW resumes, Submitted(job, resumes), crashes = 0, crashes' = 0, disk' = disk,
         Status(job) \in {"unknown", "needs_input", "failed"}
  PROVE  Lifecycle!Next
<1>0. TypeOK
  BY DEF Inv
<1>1. PICK s \in Slots :
        /\ worker[s] = Free
        /\ worker' = [worker EXCEPT ![s] = [Free EXCEPT !.at = "queued", !.job = job, !.resumes = resumes]]
        /\ entry' = [entry EXCEPT ![job] = s]
  BY DEF Submitted
<1>2. s # 0 /\ entry'[job] = s /\ worker'[s].at = "queued"
  BY <1>0, <1>1, RunnerAssumption DEF TypeOK, Slots, Free
<1>3. Status(job)' = "running"
  BY <1>2 DEF Status, Active, Places
<1>4. \A j \in Jobs \ {job} : Status(j)' = Status(j)
  <2> SUFFICES ASSUME NEW j \in Jobs, j # job  PROVE Status(j)' = Status(j)
    OBVIOUS
  <2>1. EntryInv(j) /\ entry[j] \in {0} \cup Slots /\ entry'[j] = entry[j]
    BY <1>0, <1>1 DEF Inv, TypeOK
  <2>2. entry[j] # 0 => entry[j] # s
    BY <1>1, <2>1 DEF EntryInv, Free
  <2>3. entry[j] # 0 => worker'[entry[j]] = worker[entry[j]]
    BY <1>0, <1>1, <2>1, <2>2 DEF TypeOK
  <2> QED  BY <2>1, <2>3, SameStatus
<1>5. Polled' = [Polled EXCEPT ![job] = "running"] /\ Polled[job] = Status(job)
  BY <1>3, <1>4, PolledMoves
<1> QED  BY <1>5 DEF Lifecycle!Next, Lifecycle!Submit, Lifecycle!Answer

\* A handler's own steps leave what a poll reports: the job it answers was submitted by
\* this process.
LEMMA HandlerPolls ==
  ASSUME Inv, crashes = 0, crashes' = 0, entry' = entry, worker' = worker,
         \A j \in Jobs \ {handler.job} : disk'[j] = disk[j],
         handler.job \in Jobs => disk[handler.job] # NoFile
  PROVE  Polled' = Polled
<1>1. ASSUME NEW j \in Jobs  PROVE Status(j)' = Status(j)
  <2>1. entry[j] = 0 => disk[j] = NoFile
    BY DEF Inv, FirstInv
  <2>2. entry[j] = 0 => disk'[j] = disk[j]
    BY <2>1
  <2> QED  BY <2>2, SameStatus
<1> QED  BY <1>1 DEF Polled

LEMMA StepFollows ==
  ASSUME ~Eager, Inv, [Next]_vars  PROVE Lifecycle!Next \/ Polled' = Polled
<1>0. TypeOK /\ HandlerInv /\ FirstInv
  BY DEF Inv
<1>1. CASE Crash
  <2>1. crashes' # 0
    BY <1>0, <1>1 DEF Crash, TypeOK
  <2> QED  BY <2>1 DEF Polled, Lifecycle!Next, Lifecycle!Die
<1>2. CASE ~Crash /\ crashes # 0
  <2>1. crashes' = crashes
    BY <1>2 DEF Next, vars, Handle, Work, SubmitPlan, ResumeChecks, ResumeAnswers, ResumeTruncates, ResumeSaves,
                ResumeSubmits, Start, Load, Parks, Finishes, Raises, TruncatePlan, WritePlan, Truncate, Write, End,
                SaveRaises
  <2> QED  BY <1>2, <2>1 DEF Polled
<1>3. ASSUME crashes = 0, NEW j \in Jobs, SubmitPlan(j)  PROVE Lifecycle!Next
  <2>1. Status(j) = "unknown" /\ crashes' = 0 /\ disk' = disk /\ Submitted(j, FALSE)
    BY <1>3 DEF SubmitPlan, Status, Loads
  <2> QED  BY <1>3, <2>1, SubmitPolls
<1>4. ASSUME crashes = 0, ResumeSubmits  PROVE Lifecycle!Next
  <2> DEFINE job == handler.job
  <2>1. job \in Jobs /\ EntryInv(job) /\ entry[job] # 0 /\ \A t \in Slots : Active(t) => worker[t].job # job
    BY <1>0, <1>4, HandlerOf DEF ResumeSubmits, HandlerInv, FirstInv
  <2>2. worker[entry[job]].job = job /\ entry[job] \in Slots
    BY <1>0, <2>1 DEF EntryInv, TypeOK
  <2>3. ~Active(entry[job])
    BY <2>1, <2>2
  <2>4. Status(job) # "running"
    <3>1. CASE worker[entry[job]].at = "failed"
      BY <2>1, <2>3, <3>1 DEF Status
    <3>2. CASE worker[entry[job]].at # "failed"
      <4>1. worker[entry[job]].at = "done"
        BY <1>0, <2>1, <2>2, <2>3, <3>2 DEF TypeOK, Workers, Ended, Active, EntryInv
      <4>2. Status(job) = worker[entry[job]].pad.status
        BY <2>1, <2>3, <3>2 DEF Status
      <4> QED  BY <2>1, <4>1, <4>2 DEF EntryInv
    <3> QED  BY <3>1, <3>2
  <2>5. Status(job) \in {"failed", "needs_input"}
    BY <2>1, <2>4, Settled DEF EntryInv
  <2>6. crashes' = 0 /\ disk' = disk /\ Submitted(job, TRUE)
    BY <1>4 DEF ResumeSubmits
  <2> QED  BY <1>4, <2>1, <2>5, <2>6, SubmitPolls
<1>5. ASSUME crashes = 0, NEW j \in Jobs, ResumeChecks(j)  PROVE Polled' = Polled
  <2>1. /\ handler.job \notin Jobs /\ crashes' = 0 /\ entry' = entry /\ worker' = worker
        /\ \A i \in Jobs : disk'[i] = disk[i]
    BY <1>5, RunnerAssumption DEF ResumeChecks, NoHandler
  <2> QED  BY <1>5, <2>1, HandlerPolls
<1>6. ASSUME crashes = 0, ResumeAnswers \/ ResumeTruncates \/ ResumeSaves  PROVE Polled' = Polled
  <2>1. handler.at # "idle" /\ handler.job \in Jobs /\ disk[handler.job] # NoFile
    BY <1>0, <1>6 DEF ResumeAnswers, ResumeTruncates, ResumeSaves, HandlerInv
  <2>2. /\ crashes' = 0 /\ entry' = entry /\ worker' = worker
        /\ \A j \in Jobs \ {handler.job} : disk'[j] = disk[j]
    BY <1>0, <1>6 DEF ResumeAnswers, ResumeTruncates, ResumeSaves, TypeOK
  <2> QED  BY <1>6, <2>1, <2>2, HandlerPolls
<1>7. ASSUME crashes = 0, NEW s \in Slots, Start(s) \/ Work(s) \/ SaveRaises(s)
      PROVE  Lifecycle!Next \/ Polled' = Polled
  <2>1. Active(s)
    BY <1>7 DEF Start, Work, SaveRaises, Load, Parks, Finishes, Raises, TruncatePlan, WritePlan, Truncate, Write, End,
                Active, Places
  <2>2. worker[s] \in Workers /\ WorkerInv(s) /\ worker[s].job \in Jobs
    BY <2>1, OwnerOf
  <2> PICK job \in Jobs : job = worker[s].job
    BY <2>2
  <2>3. crashes' = 0 /\ entry' = entry /\ \A j \in Jobs \ {job} : disk'[j] = disk[j]
    BY <1>0, <1>7 DEF Start, Work, SaveRaises, Load, Parks, Finishes, Raises, TruncatePlan, WritePlan, Truncate, Write,
                End, TypeOK
  <2>4. \A t \in Slots \ {s} : worker'[t] = worker[t]
    BY <1>0, <1>7 DEF Start, Work, SaveRaises, Load, Parks, Finishes, Raises, TruncatePlan, WritePlan, Truncate, Write,
                End, TypeOK, Go
  <2>5. CASE End(s)
    <3>1. worker'[s].at = "done" /\ worker'[s].pad = worker[s].pad /\ worker[s].at = "saved"
      BY <1>0, <2>2, <2>5 DEF End, Go, TypeOK, Workers
    <3>2. worker[s].pad.status \in {"needs_input", "complete"}
      BY <2>2, <3>1 DEF WorkerInv, After, Whole
    <3> QED  BY <1>7, <2>1, <2>3, <2>4, <3>1, <3>2, WorkerPolls
  <2>6. CASE ~End(s)
    <3>1. worker'[s].at \in Places \cup {"failed"}
      BY <1>0, <1>7, <2>2, <2>6
         DEF Start, Work, SaveRaises, Load, Parks, Finishes, Raises, TruncatePlan, WritePlan, Truncate, Write, TypeOK,
             Go, Places, Workers
    <3> QED  BY <1>7, <2>1, <2>3, <2>4, <3>1, WorkerPolls
  <2> QED  BY <2>5, <2>6
<1>8. CASE UNCHANGED vars
  <2>1. \A j \in Jobs : Status(j)' = Status(j)
    BY <1>8, SameStatus DEF vars
  <2> QED  BY <1>8, <2>1 DEF Polled, vars
<1> QED  BY <1>1, <1>2, <1>3, <1>4, <1>5, <1>6, <1>7, <1>8 DEF Next, Handle

\* What a poll reports moves as JobLifecycle lets it, whatever the workers, the handler and
\* the process do (JobRunner.status, JobRunner.submit): its fairness is left to model checking.
THEOREM FollowsLifecycle == ASSUME ~Eager PROVE Spec => Lifecycle!Init /\ [][Lifecycle!Next]_Polled
<1>1. Init => Lifecycle!Init
  BY DEF Init, Lifecycle!Init, Polled, Status, Loads
<1>2. Inv /\ [Next]_vars => [Lifecycle!Next]_Polled
  BY StepFollows
<1>3. Spec => []Inv
  BY Invariance
<1> QED  BY <1>1, <1>2, <1>3, PTL DEF Spec

=============================================================================
