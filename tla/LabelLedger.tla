----------------------------- MODULE LabelLedger -----------------------------
(***************************************************************************)
(* The ledger of a runner's labels (core/labels/ledger.py): questions,     *)
(* answers and the pairs tune reads, one file each, under ids.  Answers    *)
(* come through three doors: the Review page (api/app.py), `label pair`    *)
(* and `label import`, which brings home what a hosted page saved          *)
(* (cli/label.py).  Each is a process of its own, or a thread of the       *)
(* server's; all of them end in record_pair_answer.                        *)
(*                                                                         *)
(* A file is created empty and then filled (Path.write_text), so between   *)
(* the two, and after a death between the two, it reads as Torn.           *)
(***************************************************************************)
EXTENDS Integers, Sequences, FiniteSets

CONSTANTS
  Questions,      \* tasks that `label seed` drew
  Probes,         \* tasks that ask one of them again, A and B swapped
  RepeatOf,       \* the question each probe repeats
  Sayings,        \* what a person may send: a preference and a strength
  Processes,      \* server threads and commands
  NoFile, Torn,   \* what a file reads as before it is created, and while it is filled
  OneDoor,        \* whether a question is answered through one door at a time
  MaxCrashes      \* bounds, for model checking only: processes that die

VARIABLES
  queue,          \* queue/<task>.json
  answers,        \* answers/<task>.json
  pairs,          \* pairs/<task>.yaml
  published,      \* tests/eval/pairs/judged-<labeler>-<task>.yaml
  batch,          \* the tasks of the batch a hosted page asks
  page,           \* the answers its person has clicked, in order
  process,
  cut,            \* the tasks whose answer a process died in
  crashes

vars == <<queue, answers, pairs, published, batch, page, process, cut, crashes>>

-----------------------------------------------------------------------------
Tasks == Questions \cup Probes

NoStrength == "unsaid"
Strengths == {"slight", "clear"}
Lines == {"a", "b"}
AllSayings == [prefer : Lines \cup {"none", "cant"},
               strength : Strengths \cup {NoStrength}]

ASSUME LedgerAssumption ==
  /\ Questions \cap Probes = {} /\ "none" \notin Tasks
  /\ RepeatOf \in [Probes -> Questions]
  /\ Sayings \subseteq AllSayings
  /\ NoFile # Torn /\ {NoFile, Torn} \cap Sayings = {} /\ {NoFile, Torn} \cap {"task"} = {}
  /\ OneDoor \in BOOLEAN /\ IsFiniteSet(Processes) /\ MaxCrashes \in Nat

Loads(file) == file \notin {NoFile, Torn}

\* answer_problems: a strength goes with a choice, and a choice with a strength.
WellFormed(s) == s.prefer \in Lines <=> s.strength \in Strengths

\* record_answer and pair_from: a probe is no second pair, and only a choice is one.
MakesPair(t, s) == t \in Questions /\ s.prefer \in Lines

\* ledger.answers and ledger.tasks read every file, and raise on one that is torn.
Readable(files) == \A t \in Tasks : files[t] # Torn

\* label queue, label batch, next_task: the tasks that have no answer.
Pending == {t \in Tasks : Loads(queue[t]) /\ ~Loads(answers[t])}
Original(t) == IF t \in Probes THEN RepeatOf[t] ELSE t

-----------------------------------------------------------------------------
Idle == [at |-> "idle", task |-> "none", said |-> NoFile, todo |-> <<>>,
         imports |-> FALSE]
Places == {"idle", "seeding", "next", "adding", "asked", "unanswered",
           "writing", "written", "pairing"}
InAnswer == {"writing", "written", "pairing"}

Init ==
  /\ queue = [t \in Tasks |-> NoFile] /\ answers = [t \in Tasks |-> NoFile]
  /\ pairs = [t \in Tasks |-> NoFile] /\ published = [t \in Tasks |-> NoFile]
  /\ batch \in {{}, Tasks}   \* a batch may come from the machine that seeded it
  /\ page = <<>>
  /\ process = [p \in Processes |-> Idle]
  /\ cut = {} /\ crashes = 0

Goes(p, record) == process' = [process EXCEPT ![p] = record]
At(p, place) == process[p].at = place
Steps(p, place) == Goes(p, [process[p] EXCEPT !.at = place])

\* A process that recorded, or passed over, the answer it was at.
Onward(p) ==
  IF process[p].imports
  THEN [process[p] EXCEPT !.at = "next", !.task = "none", !.todo = Tail(@)]
  ELSE Idle

Free(p, t) == OneDoor => \A q \in Processes \ {p} : process[q].task # t

\* What a process does with a file: it empties it, and fills it.
Empties(files, t) == [files EXCEPT ![t] = Torn]
Fills(files, t, content) == [files EXCEPT ![t] = content]

-----------------------------------------------------------------------------
\* label seed: add_task, the questions first and then the probes of some.
Seed(p, t) ==
  /\ At(p, "idle") /\ queue[t] = NoFile /\ t \notin batch /\ Free(p, t)
  /\ t \in Probes => Loads(queue[RepeatOf[t]])
  /\ queue' = Empties(queue, t)
  /\ Goes(p, [Idle EXCEPT !.at = "seeding", !.task = t])
  /\ UNCHANGED <<answers, pairs, published, batch, page, cut, crashes>>
SeedFills(p) ==
  /\ At(p, "seeding")
  /\ queue' = Fills(queue, process[p].task, "task")
  /\ Goes(p, Idle)
  /\ UNCHANGED <<answers, pairs, published, batch, page, cut, crashes>>

\* label batch: unanswered tasks, a probe only with the question it repeats.
MakeBatch ==
  /\ batch = {} /\ Readable(queue) /\ Readable(answers)
  /\ \E kept \in SUBSET Questions :
       batch' = {t \in Pending : Original(t) \in kept}
  /\ batch' # {}
  /\ UNCHANGED <<queue, answers, pairs, published, page, process, cut, crashes>>

\* The hosted page, whose file may say anything of the right shape.
PageAnswers(t, s) ==
  /\ t \in batch /\ \A i \in DOMAIN page : page[i].task # t
  /\ page' = Append(page, [task |-> t, said |-> s])
  /\ UNCHANGED <<queue, answers, pairs, published, batch, process, cut, crashes>>

\* POST /api/labels/tasks/{id}/answer and `label pair`: a task of the ledger, and
\* an answer that is one; anything else is refused and nothing is written.
Answer(p, t, s) ==
  /\ At(p, "idle") /\ Free(p, t)
  /\ Loads(queue[t]) /\ WellFormed(s)
  /\ Goes(p, [Idle EXCEPT !.at = "asked", !.task = t, !.said = s])
  /\ UNCHANGED <<queue, answers, pairs, published, batch, page, cut, crashes>>

\* label import: the file's answers, in the order they were clicked.
Import(p) ==
  /\ At(p, "idle") /\ page # <<>>
  /\ Goes(p, [Idle EXCEPT !.at = "next", !.todo = page, !.imports = TRUE])
  /\ UNCHANGED <<queue, answers, pairs, published, batch, page, cut, crashes>>

\* The loop of import_answers has the next answer in hand, or is at its end.
ImportEnds(p) ==
  /\ At(p, "next") /\ process[p].todo = <<>>
  /\ Goes(p, Idle)
  /\ UNCHANGED <<queue, answers, pairs, published, batch, page, cut, crashes>>

Given(p) == Head(process[p].todo)
Takes(p, t) == At(p, "next") /\ process[p].todo # <<>> /\ t = Given(p).task /\ Free(p, t)
InHand(p) == [process[p] EXCEPT !.task = Given(p).task, !.said = Given(p).said]
\* record_pair_answer on what is in hand: refused answers are reported, and passed over.
Asks(p, record) ==
  IF WellFormed(record.said) THEN [record EXCEPT !.at = "asked"]
  ELSE [record EXCEPT !.at = "next", !.task = "none", !.todo = Tail(@)]

\* A task or an answer that is torn ends the whole import.
ImportRaises(p, t) ==
  /\ Takes(p, t) /\ Torn \in {queue[t], answers[t]}
  /\ Goes(p, Idle)
  /\ UNCHANGED <<queue, answers, pairs, published, batch, page, cut, crashes>>

\* An answer the ledger holds stands, the same or another; an answer to a task it
\* holds is recorded.
ImportMeets(p, t) ==
  /\ Takes(p, t) /\ Loads(queue[t]) /\ answers[t] # Torn
  /\ Goes(p, IF Loads(answers[t]) THEN Onward(p) ELSE Asks(p, InHand(p)))
  /\ UNCHANGED <<queue, answers, pairs, published, batch, page, cut, crashes>>

\* A task the ledger does not hold is added before its answer is recorded.
ImportAdds(p, t) ==
  /\ Takes(p, t) /\ queue[t] = NoFile /\ answers[t] # Torn
  /\ IF Loads(answers[t])
     THEN Goes(p, Onward(p)) /\ UNCHANGED queue
     ELSE /\ queue' = Empties(queue, t)
          /\ Goes(p, [InHand(p) EXCEPT !.at = "adding"])
  /\ UNCHANGED <<answers, pairs, published, batch, page, cut, crashes>>
ImportFills(p) ==
  /\ At(p, "adding")
  /\ queue' = Fills(queue, process[p].task, "task")
  /\ Goes(p, Asks(p, process[p]))
  /\ UNCHANGED <<answers, pairs, published, batch, page, cut, crashes>>

-----------------------------------------------------------------------------
\* record_answer: a file that exists is an answer, whatever is in it.  The door
\* says so, and an import that meets one here ends.
Answered(t) == answers[t] # NoFile

Refuse(p) ==
  /\ At(p, "asked") /\ Answered(process[p].task)
  /\ Goes(p, Idle)
  /\ UNCHANGED <<queue, answers, pairs, published, batch, page, cut, crashes>>
CheckNothing(p) ==   \* a bug: whatever was answered is replaced
  /\ At(p, "asked") /\ Steps(p, "unanswered")
  /\ UNCHANGED <<queue, answers, pairs, published, batch, page, cut, crashes>>
Check(p) ==
  /\ At(p, "asked") /\ ~Answered(process[p].task)
  /\ Steps(p, "unanswered")
  /\ UNCHANGED <<queue, answers, pairs, published, batch, page, cut, crashes>>

Truncate(p) ==
  /\ At(p, "unanswered")
  /\ answers' = Empties(answers, process[p].task)
  /\ Steps(p, "writing")
  /\ UNCHANGED <<queue, pairs, published, batch, page, cut, crashes>>
Write(p) ==
  LET t == process[p].task
      s == process[p].said
  IN  /\ At(p, "writing")
      /\ answers' = Fills(answers, t, s)
      /\ IF MakesPair(t, s) THEN Steps(p, "written")
         ELSE Goes(p, Onward(p))
      /\ UNCHANGED <<queue, pairs, published, batch, page, cut, crashes>>

TruncatePair(p) ==
  /\ At(p, "written")
  /\ pairs' = Empties(pairs, process[p].task)
  /\ Steps(p, "pairing")
  /\ UNCHANGED <<queue, answers, published, batch, page, cut, crashes>>
WritePair(p) ==
  /\ At(p, "pairing")
  /\ pairs' = Fills(pairs, process[p].task, process[p].said)
  /\ Goes(p, Onward(p))
  /\ UNCHANGED <<queue, answers, published, batch, page, cut, crashes>>

\* label publish: each answer's pair, made again from the task and the answer.  It
\* may die after any number of them.
Due(t) ==
  /\ Loads(queue[t]) /\ Loads(answers[t]) /\ MakesPair(t, answers[t])
  /\ published[t] # answers[t]
Publish ==
  /\ Readable(answers)
  /\ \E some \in SUBSET {t \in Tasks : Due(t)} :
       published' = [t \in Tasks |-> IF t \in some THEN answers[t] ELSE published[t]]
  /\ UNCHANGED <<queue, answers, pairs, batch, page, process, cut, crashes>>

Crash(p) ==
  /\ ~At(p, "idle") /\ crashes < MaxCrashes
  /\ cut' = IF process[p].at \in InAnswer THEN cut \cup {process[p].task} ELSE cut
  /\ Goes(p, Idle) /\ crashes' = crashes + 1
  /\ UNCHANGED <<queue, answers, pairs, published, batch, page>>

Records(p) == Refuse(p) \/ Check(p) \/ Truncate(p) \/ Write(p) \/ TruncatePair(p) \/ WritePair(p)
Imports(p) ==
  \/ ImportEnds(p) \/ ImportFills(p)
  \/ \E t \in Tasks : ImportRaises(p, t) \/ ImportMeets(p, t) \/ ImportAdds(p, t)

Next ==
  \/ \E p \in Processes :
       \/ \E t \in Tasks : Seed(p, t) \/ \E s \in Sayings : Answer(p, t, s)
       \/ SeedFills(p) \/ Import(p) \/ Imports(p) \/ Records(p) \/ Crash(p)
  \/ \E t \in Tasks, s \in Sayings : PageAnswers(t, s)
  \/ MakeBatch \/ Publish

Spec == Init /\ [][Next]_vars

-----------------------------------------------------------------------------
Files(contents) == [Tasks -> contents \cup {NoFile, Torn}]
Answering == [task : Tasks, said : Sayings]

\* Type invariant.
TypeOK ==
  /\ queue \in Files({"task"}) /\ answers \in Files(Sayings)
  /\ pairs \in Files(Sayings) /\ published \in Files(Sayings)
  /\ batch \subseteq Tasks /\ page \in Seq(Answering)
  /\ process \in [Processes -> [at : Places, task : Tasks \cup {"none"},
                               said : Sayings \cup {NoFile},
                               todo : Seq(Answering), imports : BOOLEAN]]
  /\ cut \subseteq Tasks /\ crashes \in 0 .. MaxCrashes

\* An answer that is in the ledger never changes, whichever doors the person and
\* their machine go through, and whatever dies: record_answer and import_answers.
FirstAnswerStands ==
  [][\A t \in Tasks : Loads(answers[t]) => answers'[t] = answers[t]]_vars

\* What tune and the evaluation are given is what the person said: a pair, in the
\* ledger or published, is the answer to its question, which has one, and never
\* counts a probe.  An answer that names a line has its pair, unless it is being
\* written or its writer died: record_answer, `label publish`.
PairsAreAnswers ==
  \A t \in Tasks :
    /\ \A file \in {pairs[t], published[t]} :
         Loads(file) => t \in Questions /\ file.prefer \in Lines /\ answers[t] = file
    /\ t \in Questions /\ Loads(answers[t]) /\ answers[t].prefer \in Lines /\ ~Loads(pairs[t])
         => t \in cut \/ \E p \in Processes :
              process[p].task = t /\ process[p].at \in {"written", "pairing"}

\* An answer is to a task the ledger holds, and one that can be an answer.  A file
\* that cannot be read, which takes the whole queue with it, is one that a process
\* is at, or died at: record_answer.
AnswersAreOfTasks ==
  \A t \in Tasks :
    /\ answers[t] = Torn => t \in cut \/ \E p \in Processes :
         process[p].task = t /\ At(p, "writing")
    /\ Loads(answers[t]) =>
         queue[t] = "task" /\ (answers[t].prefer \in Lines <=> answers[t].strength \in Strengths)

LedgerAgrees == PairsAreAnswers /\ AnswersAreOfTasks
=============================================================================
