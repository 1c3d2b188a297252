------------------------------ MODULE JobRunner ------------------------------
(***************************************************************************)
(* Plans as jobs: the thread pool and the store of jobs/runner.py, and the *)
(* HTTP handlers of api/app.py that submit and resume through them.        *)
(*                                                                         *)
(* A handler never awaits between its first read and its submit, so one    *)
(* handler runs at a time; worker threads interleave with it and with each *)
(* other at every read and write of a file.  A file is written by          *)
(* truncating it and then filling it (Path.write_text), so between the two *)
(* it reads as Torn.                                                       *)
(*                                                                         *)
(* A pad is what the store keeps of a plan: its status, the question it    *)
(* waits on (0 for none), whether that has its answer, and the questions   *)
(* whose answers the plan has taken.                                       *)
(***************************************************************************)
EXTENDS Integers, FiniteSets, Sequences

CONSTANTS
  Jobs,            \* job ids
  NoFile, Torn,    \* what a file reads as before it is written, and during
  MaxSubmissions,  \* submissions there may be in one process
  MaxWorkers,      \* max_workers
  Eager,           \* whether a job is answered while a worker has it: the page
                   \* disables its buttons, and no handler refuses it
  MaxQuestions,    \* questions a plan may stop at
  MaxCrashes,      \* bounds, for model checking only: processes that die
  MaxSaveFailures  \* and saves that raise

VARIABLES
  disk,      \* the store: each job's scratchpad file
  plan,      \* each job's plan.json: the answers it was drawn with
  worker,    \* the submissions of this process, by slot
  entry,     \* JobRunner._jobs: the slot of each job's latest submission
  events,    \* its event log
  handler,   \* the resume request being handled
  crashes, saveFailures

vars == <<disk, plan, worker, entry, events, handler, crashes, saveFailures>>

-----------------------------------------------------------------------------
Slots == 1 .. MaxSubmissions

Pads == [status : {"running", "needs_input", "complete"},
         question : 0 .. MaxQuestions, answered : BOOLEAN,
         done : SUBSET (1 .. MaxQuestions)]
ASSUME RunnerAssumption ==
  /\ MaxSubmissions \in Nat /\ MaxWorkers \in Nat \ {0} /\ Eager \in BOOLEAN
  /\ NoFile # Torn /\ "none" \notin Jobs
  /\ \A content \in Pads \cup SUBSET (1 .. MaxQuestions) :
       content \notin {NoFile, Torn}
  /\ MaxQuestions \in Nat /\ MaxCrashes \in Nat /\ MaxSaveFailures \in Nat

FreshPad == [status |-> "running", question |-> 0, answered |-> FALSE, done |-> {}]

Loads(file) == file \notin {NoFile, Torn}

Free == [at |-> "free", job |-> "none", resumes |-> FALSE, pad |-> FreshPad]
NoHandler == [at |-> "idle", job |-> "none", pad |-> FreshPad]

\* The places of a worker thread: in the queue, past its "started" event,
\* planning with the pad it has, and then through what it does with an outcome.
Places == {"queued", "started", "working", "planned", "drawn", "returned",
           "saving", "saved"}
Ended == {"done", "failed"}
Active(s) == worker[s].at \in Places
Busy(s) == Active(s) /\ worker[s].at # "queued"

\* JobRunner.status, and the stored scratchpad's when the runner has no such job.
Status(j) ==
  IF entry[j] # 0
  THEN CASE Active(entry[j]) -> "running"
         [] worker[entry[j]].at = "failed" -> "failed"
         [] OTHER -> worker[entry[j]].pad.status
  ELSE IF Loads(disk[j]) THEN disk[j].status ELSE "unknown"

Record(j, kind) == events' = [events EXCEPT ![j] = Append(@, kind)]
Go(s, place) == worker' = [worker EXCEPT ![s].at = place]

-----------------------------------------------------------------------------
Init ==
  /\ disk = [j \in Jobs |-> NoFile] /\ plan = [j \in Jobs |-> NoFile]
  /\ worker = [s \in Slots |-> Free]
  /\ entry = [j \in Jobs |-> 0] /\ events = [j \in Jobs |-> <<>>]
  /\ handler = NoHandler
  /\ crashes = 0 /\ saveFailures = 0

\* submit: a new entry and a new event log, in the order of the pool's queue.
Submitted(j, resumes) ==
  \E s \in Slots :
    /\ worker[s] = Free /\ \A t \in Slots : t < s => worker[t] # Free
    /\ worker' = [worker EXCEPT ![s] = [Free EXCEPT !.at = "queued", !.job = j,
                                                   !.resumes = resumes]]
    /\ entry' = [entry EXCEPT ![j] = s]
    /\ events' = [events EXCEPT ![j] = <<>>]

\* POST /api/plans, under an id nobody has used.
SubmitPlan(j) ==
  /\ handler = NoHandler
  /\ entry[j] = 0 /\ disk[j] = NoFile /\ plan[j] = NoFile
  /\ Submitted(j, FALSE)
  /\ UNCHANGED <<disk, plan, handler, crashes, saveFailures>>

\* POST /api/jobs/{id}/resume: load, and refuse what is not waiting.
ResumeChecks(j) ==
  /\ handler = NoHandler
  /\ Loads(disk[j]) /\ disk[j].question # 0
  /\ Free \in {worker[s] : s \in Slots}
  /\ Eager \/ \A s \in Slots : worker[s].job = j => ~Active(s)
  /\ handler' = [NoHandler EXCEPT !.at = "checked", !.job = j]
  /\ UNCHANGED <<disk, plan, worker, entry, events, crashes, saveFailures>>

\* JobRunner.resume loads again and answers, or raises to the caller.
ResumeAnswers ==
  LET file == disk[handler.job]
  IN  /\ handler.at = "checked"
      /\ handler' = IF Loads(file) /\ file.question # 0
                    THEN [handler EXCEPT !.at = "answered",
                                         !.pad = [file EXCEPT !.answered = TRUE]]
                    ELSE NoHandler
      /\ UNCHANGED <<disk, plan, worker, entry, events, crashes, saveFailures>>

ResumeKeepsInMemory ==   \* a bug: the answer is not saved before the worker starts
  /\ handler.at = "answered" /\ handler' = [handler EXCEPT !.at = "saved"]
  /\ UNCHANGED <<disk, plan, worker, entry, events, crashes, saveFailures>>
ResumeTruncates ==
  /\ handler.at = "answered"
  /\ disk' = [disk EXCEPT ![handler.job] = Torn]
  /\ handler' = [handler EXCEPT !.at = "saving"]
  /\ UNCHANGED <<plan, worker, entry, events, crashes, saveFailures>>

ResumeSaves ==
  /\ handler.at = "saving"
  /\ disk' = [disk EXCEPT ![handler.job] = handler.pad]
  /\ handler' = [handler EXCEPT !.at = "saved"]
  /\ UNCHANGED <<plan, worker, entry, events, crashes, saveFailures>>

ResumeSubmits ==
  /\ handler.at = "saved"
  /\ Submitted(handler.job, TRUE)
  /\ handler' = NoHandler
  /\ UNCHANGED <<disk, plan, crashes, saveFailures>>

-----------------------------------------------------------------------------
StartWaiting(s) ==   \* a bug: a thread stays with its job until it is complete
  /\ worker[s].at = "queued"
  /\ \A t \in Slots : t < s => worker[t].at # "queued"
  /\ Cardinality({t \in Slots : Busy(t) \/ (worker[t].at \in Ended /\ worker[t].pad.status # "complete")})
       < MaxWorkers
  /\ Go(s, "started") /\ Record(worker[s].job, "started")
  /\ UNCHANGED <<disk, plan, entry, handler, crashes, saveFailures>>

\* The pool takes the oldest of its queue when a thread is idle.
Start(s) ==
  /\ worker[s].at = "queued"
  /\ \A t \in Slots : t < s => worker[t].at # "queued"
  /\ Cardinality({t \in Slots : Busy(t)}) < MaxWorkers
  /\ Go(s, "started") /\ Record(worker[s].job, "started")
  /\ UNCHANGED <<disk, plan, entry, handler, crashes, saveFailures>>

\* A resumed leg reads the store; an unreadable file raises inside the work.
Load(s) ==
  LET j == worker[s].job
      readable == worker[s].resumes => Loads(disk[j])
  IN  /\ worker[s].at = "started"
      /\ \/ /\ readable
            /\ worker' = [worker EXCEPT ![s].at = "working",
                            ![s].pad = IF worker[s].resumes THEN disk[j] ELSE FreshPad]
            /\ UNCHANGED events
         \/ ~readable /\ Go(s, "failed") /\ Record(j, "failed")
      /\ UNCHANGED <<disk, plan, entry, handler, crashes, saveFailures>>

AppliedOpen(pad) ==   \* a bug: the question is not closed
  IF pad.question # 0 /\ pad.answered THEN [pad EXCEPT !.done = @ \cup {pad.question}] ELSE pad

\* plan_route: a pending question with its answer is closed, then the leg stops.
Applied(pad) ==
  IF pad.question # 0 /\ pad.answered
  THEN [pad EXCEPT !.question = 0, !.answered = FALSE, !.done = @ \cup {pad.question}]
  ELSE pad

Parks(s) ==
  LET pad == Applied(worker[s].pad)
      next == Cardinality(pad.done) + 1
  IN  /\ worker[s].at = "working" /\ next <= MaxQuestions
      /\ worker' = [worker EXCEPT ![s].at = "returned",
                      ![s].pad = [pad EXCEPT !.status = "needs_input", !.question = next,
                                             !.answered = FALSE]]
      /\ Record(worker[s].job, "needs_input")
      /\ UNCHANGED <<disk, plan, entry, handler, crashes, saveFailures>>

FinishesUndrawn(s) ==   \* a bug: the word that it is complete comes before the plan
  /\ worker[s].at = "working"
  /\ worker' = [worker EXCEPT ![s].at = "returned",
                  ![s].pad = [Applied(worker[s].pad) EXCEPT !.status = "complete"]]
  /\ Record(worker[s].job, "complete")
  /\ UNCHANGED <<disk, plan, entry, handler, crashes, saveFailures>>
Finishes(s) ==
  /\ worker[s].at = "working"
  /\ worker' = [worker EXCEPT ![s].at = "planned",
                  ![s].pad = [Applied(worker[s].pad) EXCEPT !.status = "complete"]]
  /\ UNCHANGED <<disk, plan, entry, events, handler, crashes, saveFailures>>

\* Whatever a leg raises, a budget or a router, fails the job.
Raises(s) ==
  /\ worker[s].at = "working"
  /\ Go(s, "failed") /\ Record(worker[s].job, "failed")
  /\ UNCHANGED <<disk, plan, entry, handler, crashes, saveFailures>>

\* _finish: plan.json, then the word that it is there.
TruncatePlan(s) ==
  /\ worker[s].at = "planned"
  /\ plan' = [plan EXCEPT ![worker[s].job] = Torn] /\ Go(s, "drawn")
  /\ UNCHANGED <<disk, entry, events, handler, crashes, saveFailures>>

WritePlan(s) ==
  /\ worker[s].at = "drawn"
  /\ plan' = [plan EXCEPT ![worker[s].job] = worker[s].pad.done] /\ Go(s, "returned")
  /\ Record(worker[s].job, "complete")
  /\ UNCHANGED <<disk, entry, handler, crashes, saveFailures>>

\* JobStore.save, and the event and the future that follow it.
Truncate(s) ==
  /\ worker[s].at = "returned"
  /\ disk' = [disk EXCEPT ![worker[s].job] = Torn] /\ Go(s, "saving")
  /\ UNCHANGED <<plan, entry, events, handler, crashes, saveFailures>>

Write(s) ==
  /\ worker[s].at = "saving"
  /\ disk' = [disk EXCEPT ![worker[s].job] = worker[s].pad] /\ Go(s, "saved")
  /\ UNCHANGED <<plan, entry, events, handler, crashes, saveFailures>>

End(s) ==
  /\ worker[s].at = "saved"
  /\ Go(s, "done")
  /\ Record(worker[s].job, IF worker[s].pad.status = "needs_input"
                           THEN "needs_input" ELSE "complete")
  /\ UNCHANGED <<disk, plan, entry, handler, crashes, saveFailures>>

\* A save that raises is past the except that reports: the future fails alone.
SaveRaises(s) ==
  /\ worker[s].at \in {"returned", "saving"} /\ saveFailures < MaxSaveFailures
  /\ saveFailures' = saveFailures + 1
  /\ Go(s, "failed")
  /\ UNCHANGED <<disk, plan, entry, events, handler, crashes>>

\* The process dies, and a new one starts with the files and nothing else.
Crash ==
  /\ crashes < MaxCrashes
  /\ crashes' = crashes + 1
  /\ worker' = [s \in Slots |-> Free]
  /\ entry' = [j \in Jobs |-> 0] /\ events' = [j \in Jobs |-> <<>>]
  /\ handler' = NoHandler
  /\ UNCHANGED <<disk, plan, saveFailures>>

-----------------------------------------------------------------------------
Handle == ResumeAnswers \/ ResumeTruncates \/ ResumeSaves \/ ResumeSubmits

Work(s) ==
  \/ Load(s) \/ Parks(s) \/ Finishes(s) \/ Raises(s)
  \/ TruncatePlan(s) \/ WritePlan(s)
  \/ Truncate(s) \/ Write(s) \/ End(s)

Next ==
  \/ \E j \in Jobs : SubmitPlan(j) \/ ResumeChecks(j)
  \/ Handle
  \/ \E s \in Slots : Start(s) \/ Work(s) \/ SaveRaises(s)
  \/ Crash

Spec == Init /\ [][Next]_vars

\* The event loop and the pool's threads run; nobody has to submit or answer.
Fairness ==
  /\ WF_vars(Handle)
  /\ \A s \in Slots : WF_vars(Start(s)) /\ WF_vars(Work(s))

FairSpec == Spec /\ Fairness

-----------------------------------------------------------------------------
\* "The answer is written to the stored scratchpad before the worker starts, so
\* the record on disk is what a resume reads": a resumed leg always finds a
\* question and its answer in the pad it loaded (JobRunner.resume).
AnswerIsOnDisk ==
  \A s \in Slots :
    worker[s].resumes /\ worker[s].at = "working"
      => worker[s].pad.question # 0 /\ worker[s].pad.answered

\* Whoever is told that a job is complete can open its plan, and it was drawn
\* with every answer the stored scratchpad has taken: after a crash too, for the
\* plan is written first (_finish, JobRunner.submit).
CompleteHasItsPlan ==
  \A j \in Jobs :
    /\ Status(j) = "complete" => Loads(disk[j]) /\ plan[j] = disk[j].done
    /\ Loads(disk[j]) /\ disk[j].status = "complete"
         => plan[j] = disk[j].done /\ disk[j].question = 0

\* A job that is over has said how: the last event of its log is the status
\* that a poll reports (JobRunner.submit, JobRunner.status), but for a save that
\* raised, which nothing reports.
LastEventTells ==
  \A j \in Jobs :
    saveFailures = 0 /\ entry[j] # 0 /\ Status(j) # "running"
      => events[j] # <<>> /\ events[j][Len(events[j])] = Status(j)

\* What a client is told of a job that is over, by a poll, by its log or by the
\* scratchpad on disk, it can rely on.
WhatIsToldIsSo == CompleteHasItsPlan /\ LastEventTells

\* A job reported as waiting can be answered: its scratchpad is on disk with the
\* question in it, whichever process asks (read_job, resume_job).
ParkedIsAnswerable ==
  \A j \in Jobs :
    Status(j) = "needs_input" /\ handler.job # j
      => Loads(disk[j]) /\ disk[j].status = "needs_input" /\ disk[j].question # 0

\* A pause survives whoever asks and whoever goes on (JobRunner.resume, read_job).
PausesAreWhole == AnswerIsOnDisk /\ ParkedIsAnswerable

\* What is complete on disk stays as it is.
CompleteIsFinal ==
  [][\A j \in Jobs : Loads(disk[j]) /\ disk[j].status = "complete"
       => disk'[j] = disk[j]]_vars

\* What a poll reports moves as JobLifecycle says, and settles in the end, while the
\* process that took the jobs lives.
Polled == [j \in Jobs |-> IF crashes = 0 THEN Status(j) ELSE "gone"]
Lifecycle == INSTANCE JobLifecycle WITH status <- Polled
KeepsLifecycle == Lifecycle!Spec

=============================================================================
