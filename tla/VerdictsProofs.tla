---------------------------- MODULE VerdictsProofs ----------------------------
(***************************************************************************)
(* What a runner said is what is read, for any questions, sayings,         *)
(* processes and goldens.                                                  *)
(*                                                                         *)
(* Of the pairs: where a question is answered through one door at a time,  *)
(* a process that is at an answer is alone with its files, so what it      *)
(* found there is still so when it writes.  Of the verdicts: what was      *)
(* checked travels with the verdict, from the plan it was measured on to   *)
(* the golden it is published for.                                         *)
(***************************************************************************)
EXTENDS Verdicts, FiniteSetTheorems, SequenceTheorems, TLAPS

ProcessType == [at : Places, task : Tasks \cup {"none"}, said : Sayings \cup {NoFile},
                todo : Seq(Answering), imports : BOOLEAN]

\* What a process at a place knows of the files of its task.
Recording == {"asked", "unanswered"} \cup InAnswer
Proper(r, q, a) ==
  /\ r \in ProcessType
  /\ r.task = "none" <=> r.at \in {"idle", "next"}
  /\ (r.imports /\ r.at \in Recording) \/ r.at = "adding" => r.todo # <<>>
  /\ r.at \in Recording \cup {"adding"} => r.said \in Sayings
  /\ r.at \in Recording => q[r.task] = "task" /\ WellFormed(r.said)
  /\ r.at = "unanswered" => a[r.task] = NoFile
  /\ r.at = "writing" => a[r.task] = Torn
  /\ r.at \in {"written", "pairing"} => MakesPair(r.task, r.said) /\ a[r.task] = r.said

\* Nobody else is at the task of a process.
AllAlone == \A p \in Processes : \A q \in Processes \ {p} :
              process[p].task # "none" => process[q].task # process[p].task
Alone(p, t) == \A q \in Processes \ {p} : process[q].task # t

LedgerInv ==
  /\ TypeOK
  /\ \A p \in Processes : Proper(process[p], queue, answers)
  /\ AllAlone
  /\ LedgerAgrees

-----------------------------------------------------------------------------
LEMMA Contents ==
  /\ \A s \in Sayings : Loads(s) /\ s \in AllSayings
  /\ Loads("task") /\ ~Loads(NoFile) /\ ~Loads(Torn) /\ NoFile # Torn
  /\ \A t \in Tasks : t # "none"
BY LedgerAssumption DEF Loads

\* A process keeps what it knows while its own answer is left alone.
LEMMA ProperStays ==
  ASSUME NEW r, NEW q, NEW a, NEW qq, NEW aa, Proper(r, q, a),
         r.task # "none" => aa[r.task] = a[r.task] /\ (q[r.task] = "task" => qq[r.task] = "task")
  PROVE  Proper(r, qq, aa)
<1>1. r.at \in Recording => r.task # "none"
  BY DEF Proper, Recording, InAnswer
<1> QED  BY <1>1 DEF Proper, Recording, InAnswer

\* A process that is done with an answer knows nothing of any.
LEMMA OnwardIsProper ==
  ASSUME NEW p, process[p] \in ProcessType, process[p].imports => process[p].todo # <<>>, NEW q, NEW a
  PROVE  Proper(Onward(p), q, a) /\ Onward(p).task = "none"
<1>1. Idle \in ProcessType
  BY LedgerAssumption, EmptySeq DEF Idle, ProcessType, Places
<1>2. CASE process[p].imports
  <2>1. Tail(process[p].todo) \in Seq(Answering)
    BY <1>2, HeadTailProperties DEF ProcessType
  <2> QED  BY <1>2, <2>1 DEF Onward, Proper, ProcessType, Places, Recording, InAnswer
<1>3. CASE ~process[p].imports
  BY <1>1, <1>3 DEF Onward, Proper, Idle, Recording, InAnswer
<1> QED  BY <1>2, <1>3

LEMMA IdleIsProper ==
  ASSUME NEW q, NEW a
  PROVE  Proper(Idle, q, a) /\ Idle.task = "none" /\ Idle.at = "idle"
<1>1. Idle \in ProcessType
  BY LedgerAssumption, EmptySeq DEF Idle, ProcessType, Places
<1> QED  BY <1>1 DEF Proper, Idle, Recording, InAnswer

\* An answer in hand is asked for, if it can be an answer.
LEMMA AsksIsProper ==
  ASSUME NEW p, NEW r \in ProcessType, r.task \in Tasks, r.said \in Sayings, r.todo # <<>>,
         NEW q, NEW a, q[r.task] = "task"
  PROVE  Proper(Asks(p, r), q, a) /\ Asks(p, r).task \in {r.task, "none"}
<1>1. Tail(r.todo) \in Seq(Answering)
  BY HeadTailProperties DEF ProcessType
<1>2. r.task # "none"
  BY Contents
<1>3. CASE WellFormed(r.said)
  BY <1>2, <1>3 DEF Asks, Proper, ProcessType, Places, Recording, InAnswer
<1>4. CASE ~WellFormed(r.said)
  BY <1>1, <1>4 DEF Asks, Proper, ProcessType, Places, Recording, InAnswer
<1> QED  BY <1>3, <1>4

-----------------------------------------------------------------------------
\* A step of a process that is not inside an answer, and comes to no other's task.
LEMMA QuietKeeps ==
  ASSUME LedgerInv, NEW p \in Processes, NEW r,
         process' = [process EXCEPT ![p] = r],
         UNCHANGED <<answers, pairs, published, batch, page, cut, crashes>>,
         queue' \in Files({"task"}), \A t \in Tasks : queue[t] = "task" => queue'[t] = "task",
         process[p].at \notin InAnswer, Proper(r, queue', answers),
         r.task \in {"none", process[p].task} \/ Alone(p, r.task)
  PROVE  LedgerInv'
<1>1. /\ process'[p] = r /\ DOMAIN process' = Processes
      /\ \A q \in Processes \ {p} : process'[q] = process[q]
      /\ process' \in [Processes -> ProcessType]
  BY DEF LedgerInv, TypeOK, ProcessType, Proper
<1>2. TypeOK'
  BY <1>1 DEF LedgerInv, TypeOK, ProcessType
<1>3. ASSUME NEW q \in Processes PROVE Proper(process'[q], queue', answers')
  <2>1. CASE q = p
    BY <1>1, <2>1
  <2>2. CASE q # p
    <3>1. Proper(process[q], queue, answers) /\ process[q].task \in Tasks \cup {"none"}
      BY DEF LedgerInv, Proper, ProcessType
    <3>2. Proper(process[q], queue', answers')
      BY <3>1, ProperStays
    <3> QED  BY <1>1, <2>2, <3>2
  <2> QED  BY <2>1, <2>2
<1>4. AllAlone'
  BY <1>1 DEF LedgerInv, AllAlone, Alone
<1>5. \A q \in Processes : process[q].at \in InAnswer => process'[q] = process[q]
  BY <1>1
<1>6. PairsAreAnswers'
  BY <1>5 DEF LedgerInv, LedgerAgrees, PairsAreAnswers, InAnswer
<1>7. AnswersAreOfTasks'
  BY <1>5 DEF LedgerInv, LedgerAgrees, AnswersAreOfTasks, InAnswer, At
<1> QED  BY <1>2, <1>3, <1>4, <1>6, <1>7 DEF LedgerInv, LedgerAgrees

\* The steps that are not inside an answer.
LEMMA SeedKeeps ==
  ASSUME LedgerInv, NEW p \in Processes, NEW t \in Tasks, OneDoor, Seed(p, t) PROVE LedgerInv'
<1> DEFINE r == [Idle EXCEPT !.at = "seeding", !.task = t]
<1>1. /\ process' = [process EXCEPT ![p] = r] /\ queue' = [queue EXCEPT ![t] = Torn]
      /\ UNCHANGED <<answers, pairs, published, batch, page, cut, crashes>>
      /\ queue[t] = NoFile /\ process[p].at = "idle" /\ Alone(p, t)
  BY DEF Seed, Goes, Empties, At, Free, Alone
<1>2. queue' \in Files({"task"}) /\ \A u \in Tasks : queue[u] = "task" => queue'[u] = "task"
  BY <1>1, Contents DEF LedgerInv, TypeOK, Files
<1>3. r.at = "seeding" /\ r.task = t /\ r.imports = FALSE
  BY DEF Idle
<1>4. r \in ProcessType /\ t # "none"
  BY Contents, EmptySeq DEF Idle, ProcessType, Places
<1>5. Proper(r, queue', answers)
  BY <1>3, <1>4 DEF Proper, Recording, InAnswer
<1> HIDE DEF r
<1>6. process[p].at \notin InAnswer
  BY <1>1 DEF InAnswer
<1> QED  BY <1>1, <1>2, <1>3, <1>5, <1>6, QuietKeeps

LEMMA FilledQueue ==
  ASSUME LedgerInv, NEW t \in Tasks, queue' = Fills(queue, t, "task")
  PROVE  /\ queue' \in Files({"task"}) /\ queue'[t] = "task"
         /\ \A u \in Tasks : queue[u] = "task" => queue'[u] = "task"
BY DEF LedgerInv, TypeOK, Files, Fills

LEMMA SeedFillsKeeps == ASSUME LedgerInv, NEW p \in Processes, SeedFills(p) PROVE LedgerInv'
<1>1. /\ process' = [process EXCEPT ![p] = Idle] /\ queue' = Fills(queue, process[p].task, "task")
      /\ UNCHANGED <<answers, pairs, published, batch, page, cut, crashes>>
      /\ process[p].at = "seeding"
  BY DEF SeedFills, Goes, At
<1>2. process[p].task \in Tasks /\ process[p].at \notin InAnswer
  BY <1>1 DEF LedgerInv, Proper, ProcessType, InAnswer
<1> QED  BY <1>1, <1>2, FilledQueue, IdleIsProper, QuietKeeps

\* A step that leaves the queue alone too.
LEMMA MoveKeeps ==
  ASSUME LedgerInv, NEW p \in Processes, NEW r,
         process' = [process EXCEPT ![p] = r],
         UNCHANGED <<queue, answers, pairs, published, batch, page, cut, crashes>>,
         process[p].at \notin InAnswer, Proper(r, queue, answers),
         r.task \in {"none", process[p].task} \/ Alone(p, r.task)
  PROVE  LedgerInv'
<1>1. queue' = queue /\ queue' \in Files({"task"})
  BY DEF LedgerInv, TypeOK
<1>2. Proper(r, queue', answers)
  BY <1>1
<1> QED  BY <1>1, <1>2, QuietKeeps

LEMMA AnswerKeeps ==
  ASSUME LedgerInv, NEW p \in Processes, NEW t \in Tasks, NEW s \in Sayings, OneDoor, Answer(p, t, s)
  PROVE  LedgerInv'
<1> DEFINE r == [Idle EXCEPT !.at = "asked", !.task = t, !.said = s]
<1>1. /\ process' = [process EXCEPT ![p] = r]
      /\ UNCHANGED <<queue, answers, pairs, published, batch, page, cut, crashes>>
      /\ Loads(queue[t]) /\ WellFormed(s) /\ process[p].at = "idle" /\ Alone(p, t)
  BY DEF Answer, Goes, At, Free, Alone
<1>2. queue[t] = "task"
  BY <1>1 DEF LedgerInv, TypeOK, Files, Loads
<1>3. r.at = "asked" /\ r.task = t /\ r.said = s /\ r.imports = FALSE
  BY DEF Idle
<1>4. r \in ProcessType /\ t # "none"
  BY Contents, EmptySeq DEF Idle, ProcessType, Places
<1>5. Proper(r, queue, answers)
  BY <1>1, <1>2, <1>3, <1>4 DEF Proper, Recording, InAnswer
<1> HIDE DEF r
<1>6. process[p].at \notin InAnswer
  BY <1>1 DEF InAnswer
<1> QED  BY <1>1, <1>3, <1>5, <1>6, MoveKeeps

LEMMA ImportKeeps == ASSUME LedgerInv, NEW p \in Processes, Import(p) PROVE LedgerInv'
<1> DEFINE r == [Idle EXCEPT !.at = "next", !.todo = page, !.imports = TRUE]
<1>1. /\ process' = [process EXCEPT ![p] = r] /\ process[p].at = "idle"
      /\ UNCHANGED <<queue, answers, pairs, published, batch, page, cut, crashes>>
  BY DEF Import, Goes, At
<1>2. r.at = "next" /\ r.task = "none" /\ r.imports = TRUE
  BY DEF Idle
<1>3. r \in ProcessType
  BY DEF Idle, LedgerInv, TypeOK, ProcessType, Places
<1>4. Proper(r, queue, answers)
  BY <1>2, <1>3 DEF Proper, Recording, InAnswer
<1> HIDE DEF r
<1>5. process[p].at \notin InAnswer
  BY <1>1 DEF InAnswer
<1> QED  BY <1>1, <1>2, <1>4, <1>5, MoveKeeps

\* What is taken from a file is of a task, and something a person may send.
LEMMA InHandIs ==
  ASSUME LedgerInv, NEW p \in Processes, NEW t \in Tasks, OneDoor, Takes(p, t)
  PROVE  /\ InHand(p) \in ProcessType /\ InHand(p).task = t /\ InHand(p).said \in Sayings
         /\ InHand(p).todo # <<>> /\ process[p].todo # <<>> /\ process[p] \in ProcessType
         /\ Alone(p, t) /\ process[p].at \notin InAnswer
<1>1. process[p].at = "next" /\ process[p].todo # <<>> /\ t = Given(p).task /\ Alone(p, t)
  BY DEF Takes, At, Free, Alone
<1>2. process[p] \in ProcessType
  BY DEF LedgerInv, TypeOK, ProcessType
<1>3. Given(p) \in Answering
  BY <1>1, <1>2, HeadTailProperties DEF Given, ProcessType
<1>4. Given(p).said \in Sayings
  BY <1>3 DEF Answering
<1> QED  BY <1>1, <1>2, <1>4 DEF InHand, ProcessType, InAnswer

LEMMA ImportStepKeeps ==
  ASSUME LedgerInv, NEW p \in Processes, OneDoor, Imports(p) PROVE LedgerInv'
<1>1. CASE ImportEnds(p)
  <2>1. /\ process' = [process EXCEPT ![p] = Idle] /\ process[p].at \notin InAnswer
        /\ UNCHANGED <<queue, answers, pairs, published, batch, page, cut, crashes>>
    BY <1>1 DEF ImportEnds, Goes, At, InAnswer
  <2> QED  BY <2>1, IdleIsProper, MoveKeeps
<1>2. ASSUME NEW t \in Tasks, ImportRaises(p, t) PROVE LedgerInv'
  <2>1. /\ process' = [process EXCEPT ![p] = Idle] /\ process[p].at \notin InAnswer
        /\ UNCHANGED <<queue, answers, pairs, published, batch, page, cut, crashes>>
    BY <1>2, InHandIs DEF ImportRaises, Goes
  <2> QED  BY <2>1, IdleIsProper, MoveKeeps
<1>3. ASSUME NEW t \in Tasks, ImportMeets(p, t) PROVE LedgerInv'
  <2>1. /\ Loads(queue[t]) /\ Takes(p, t)
        /\ UNCHANGED <<queue, answers, pairs, published, batch, page, cut, crashes>>
        /\ process' = [process EXCEPT ![p] = IF Loads(answers[t]) THEN Onward(p) ELSE Asks(p, InHand(p))]
    BY <1>3 DEF ImportMeets, Goes
  <2>2. queue[t] = "task"
    BY <2>1 DEF LedgerInv, TypeOK, Files, Loads
  <2>3. Proper(Onward(p), queue, answers) /\ Onward(p).task = "none"
    BY <2>1, InHandIs, OnwardIsProper
  <2>4. Proper(Asks(p, InHand(p)), queue, answers) /\ Asks(p, InHand(p)).task \in {t, "none"}
    BY <2>1, <2>2, InHandIs, AsksIsProper
  <2>5. Alone(p, t) /\ process[p].at \notin InAnswer
    BY <2>1, InHandIs
  <2>6. CASE Loads(answers[t])
    BY <2>1, <2>3, <2>5, <2>6, MoveKeeps
  <2>7. CASE ~Loads(answers[t])
    BY <2>1, <2>4, <2>5, <2>7, MoveKeeps
  <2> QED  BY <2>6, <2>7
<1>4. ASSUME NEW t \in Tasks, ImportAdds(p, t) PROVE LedgerInv'
  <2>1. /\ Takes(p, t) /\ queue[t] = NoFile
        /\ UNCHANGED <<answers, pairs, published, batch, page, cut, crashes>>
    BY <1>4 DEF ImportAdds
  <2>2. Alone(p, t) /\ process[p].at \notin InAnswer
    BY <2>1, InHandIs
  <2>3. CASE Loads(answers[t])
    <3>1. process' = [process EXCEPT ![p] = Onward(p)] /\ UNCHANGED queue
      BY <1>4, <2>3 DEF ImportAdds, Goes
    <3>2. Proper(Onward(p), queue, answers) /\ Onward(p).task = "none"
      BY <2>1, InHandIs, OnwardIsProper
    <3> QED  BY <2>1, <2>2, <3>1, <3>2, MoveKeeps
  <2>4. CASE ~Loads(answers[t])
    <3> DEFINE r == [InHand(p) EXCEPT !.at = "adding"]
    <3>1. process' = [process EXCEPT ![p] = r] /\ queue' = [queue EXCEPT ![t] = Torn]
      BY <1>4, <2>4 DEF ImportAdds, Goes, Empties
    <3>2. queue' \in Files({"task"}) /\ \A u \in Tasks : queue[u] = "task" => queue'[u] = "task"
      BY <2>1, <3>1, Contents DEF LedgerInv, TypeOK, Files
    <3>3. InHand(p) \in ProcessType /\ InHand(p).task = t /\ InHand(p).said \in Sayings
          /\ InHand(p).todo # <<>> /\ t # "none"
      BY <2>1, InHandIs, Contents
    <3>4. Proper(r, queue', answers) /\ r.task = t
      BY <3>3 DEF Proper, Recording, InAnswer, ProcessType, Places
    <3> HIDE DEF r
    <3> QED  BY <2>1, <2>2, <3>1, <3>2, <3>4, QuietKeeps
  <2> QED  BY <2>3, <2>4
<1>5. CASE ImportFills(p)
  <2>1. /\ process[p].at = "adding" /\ queue' = Fills(queue, process[p].task, "task")
        /\ process' = [process EXCEPT ![p] = Asks(p, process[p])]
        /\ UNCHANGED <<answers, pairs, published, batch, page, cut, crashes>>
    BY <1>5 DEF ImportFills, Goes, At
  <2>2. /\ process[p] \in ProcessType /\ process[p].task \in Tasks /\ process[p].said \in Sayings
        /\ process[p].todo # <<>> /\ process[p].at \notin InAnswer
    BY <2>1 DEF LedgerInv, Proper, ProcessType, InAnswer
  <2>3. /\ queue' \in Files({"task"}) /\ queue'[process[p].task] = "task"
        /\ \A u \in Tasks : queue[u] = "task" => queue'[u] = "task"
    BY <2>1, <2>2, FilledQueue
  <2>4. Proper(Asks(p, process[p]), queue', answers)
        /\ Asks(p, process[p]).task \in {process[p].task, "none"}
    BY <2>2, <2>3, AsksIsProper
  <2> QED  BY <2>1, <2>2, <2>3, <2>4, QuietKeeps
<1> QED  BY <1>1, <1>2, <1>3, <1>4, <1>5 DEF Imports

\* record_answer finds an answer, or finds none.
LEMMA LookKeeps ==
  ASSUME LedgerInv, NEW p \in Processes, Refuse(p) \/ Check(p) PROVE LedgerInv'
<1>1. CASE Refuse(p)
  <2>1. /\ process' = [process EXCEPT ![p] = Idle] /\ process[p].at \notin InAnswer
        /\ UNCHANGED <<queue, answers, pairs, published, batch, page, cut, crashes>>
    BY <1>1 DEF Refuse, Goes, At, InAnswer
  <2> QED  BY <2>1, IdleIsProper, MoveKeeps
<1>2. CASE Check(p)
  <2> DEFINE r == [process[p] EXCEPT !.at = "unanswered"]
  <2>1. /\ process' = [process EXCEPT ![p] = r] /\ process[p].at = "asked"
        /\ answers[process[p].task] = NoFile
        /\ UNCHANGED <<queue, answers, pairs, published, batch, page, cut, crashes>>
    BY <1>2 DEF Check, Steps, Goes, At, Answered
  <2>2. Proper(process[p], queue, answers)
    BY DEF LedgerInv
  <2>3. Proper(r, queue, answers) /\ r.task = process[p].task
    BY <2>1, <2>2 DEF Proper, ProcessType, Places, Recording, InAnswer
  <2> HIDE DEF r
  <2>4. process[p].at \notin InAnswer
    BY <2>1 DEF InAnswer
  <2> QED  BY <2>1, <2>3, <2>4, MoveKeeps
<1> QED  BY <1>1, <1>2

-----------------------------------------------------------------------------
\* A process that changes the files of its own task alone leaves every other process right.
LEMMA OneMoves ==
  ASSUME LedgerInv, NEW p \in Processes, NEW r, process' = [process EXCEPT ![p] = r],
         UNCHANGED <<queue, batch, page, crashes>>,
         \A t \in Tasks : t = process[p].task \/ answers'[t] = answers[t],
         answers' \in Files(Sayings), pairs' \in Files(Sayings), published' \in Files(Sayings),
         cut' \subseteq Tasks,
         Proper(r, queue, answers'), r.task \in {"none", process[p].task}
  PROVE  /\ TypeOK' /\ AllAlone' /\ \A q \in Processes : Proper(process'[q], queue', answers')
         /\ process'[p] = r /\ \A q \in Processes \ {p} : process'[q] = process[q]
<1>1. /\ process'[p] = r /\ \A q \in Processes \ {p} : process'[q] = process[q]
      /\ process' \in [Processes -> ProcessType]
  BY DEF LedgerInv, TypeOK, ProcessType, Proper
<1>2. TypeOK'
  BY <1>1 DEF LedgerInv, TypeOK, ProcessType
<1>3. AllAlone'
  BY <1>1 DEF LedgerInv, AllAlone
<1>4. ASSUME NEW q \in Processes PROVE Proper(process'[q], queue', answers')
  <2>1. CASE q = p
    BY <1>1, <2>1
  <2>2. CASE q # p
    <3>1. Proper(process[q], queue, answers) /\ process[q].task \in Tasks \cup {"none"}
      BY DEF LedgerInv, Proper, ProcessType
    <3>2. process[q].task # "none" => process[q].task # process[p].task
      BY <2>2 DEF LedgerInv, AllAlone
    <3>3. Proper(process[q], queue', answers')
      BY <3>1, <3>2, ProperStays
    <3> QED  BY <1>1, <2>2, <3>3
  <2> QED  BY <2>1, <2>2
<1> QED  BY <1>1, <1>2, <1>3, <1>4

\* record_answer empties the file it found nobody's, and fills it.
LEMMA TruncateKeeps == ASSUME LedgerInv, NEW p \in Processes, Truncate(p) PROVE LedgerInv'
<1> DEFINE t == process[p].task
           r == [process[p] EXCEPT !.at = "writing"]
<1>1. /\ process[p].at = "unanswered" /\ answers' = [answers EXCEPT ![t] = Torn]
      /\ process' = [process EXCEPT ![p] = r]
      /\ UNCHANGED <<queue, pairs, published, batch, page, cut, crashes>>
  BY DEF Truncate, Steps, Goes, At, Empties
<1>2. Proper(process[p], queue, answers) /\ t \in Tasks /\ answers[t] = NoFile
  BY <1>1 DEF LedgerInv, Proper, ProcessType, Recording
<1>3. /\ answers' \in Files(Sayings) /\ answers'[t] = Torn
      /\ \A u \in Tasks \ {t} : answers'[u] = answers[u]
  BY <1>1, <1>2 DEF LedgerInv, TypeOK, Files
<1>4. Proper(r, queue, answers') /\ r.task = t /\ r.at = "writing"
  BY <1>1, <1>2, <1>3 DEF Proper, ProcessType, Places, Recording, InAnswer
<1> HIDE DEF r
<1>5. /\ TypeOK' /\ AllAlone' /\ \A q \in Processes : Proper(process'[q], queue', answers')
      /\ process'[p] = r /\ \A q \in Processes \ {p} : process'[q] = process[q]
  BY <1>1, <1>3, <1>4, OneMoves DEF LedgerInv, TypeOK
<1>6. PairsAreAnswers'
  BY <1>1, <1>2, <1>3, <1>5, Contents DEF LedgerInv, LedgerAgrees, PairsAreAnswers, Loads
<1>7. AnswersAreOfTasks'
  BY <1>1, <1>2, <1>3, <1>4, <1>5, Contents DEF LedgerInv, LedgerAgrees, AnswersAreOfTasks, At
<1> QED  BY <1>5, <1>6, <1>7 DEF LedgerInv, LedgerAgrees

LEMMA WriteKeeps == ASSUME LedgerInv, NEW p \in Processes, Write(p) PROVE LedgerInv'
<1> DEFINE t == process[p].task
           s == process[p].said
           r == IF MakesPair(t, s) THEN [process[p] EXCEPT !.at = "written"] ELSE Onward(p)
<1>1. /\ process[p].at = "writing" /\ answers' = [answers EXCEPT ![t] = s]
      /\ process' = [process EXCEPT ![p] = r]
      /\ UNCHANGED <<queue, pairs, published, batch, page, cut, crashes>>
  BY DEF Write, Steps, Goes, At, Fills
<1>2. /\ Proper(process[p], queue, answers) /\ t \in Tasks /\ answers[t] = Torn /\ s \in Sayings
      /\ queue[t] = "task" /\ WellFormed(s) /\ process[p] \in ProcessType
      /\ process[p].imports => process[p].todo # <<>>
  BY <1>1 DEF LedgerInv, Proper, ProcessType, Recording, InAnswer
<1>3. /\ answers' \in Files(Sayings) /\ answers'[t] = s
      /\ \A u \in Tasks \ {t} : answers'[u] = answers[u]
  BY <1>1, <1>2 DEF LedgerInv, TypeOK, Files
<1>4. Proper(r, queue, answers') /\ r.task \in {t, "none"}
      /\ (MakesPair(t, s) => r.task = t /\ r.at = "written")
  <2>1. CASE MakesPair(t, s)
    BY <1>1, <1>2, <1>3, <2>1 DEF Proper, ProcessType, Places, Recording, InAnswer
  <2>2. CASE ~MakesPair(t, s)
    BY <1>2, <2>2, OnwardIsProper
  <2> QED  BY <2>1, <2>2
<1> HIDE DEF r
<1>5. /\ TypeOK' /\ AllAlone' /\ \A q \in Processes : Proper(process'[q], queue', answers')
      /\ process'[p] = r /\ \A q \in Processes \ {p} : process'[q] = process[q]
  BY <1>1, <1>3, <1>4, OneMoves DEF LedgerInv, TypeOK
<1>6. ASSUME NEW u \in Tasks
      PROVE  /\ \A file \in {pairs'[u], published'[u]} :
                  Loads(file) => u \in Questions /\ file.prefer \in Lines /\ answers'[u] = file
             /\ u \in Questions /\ Loads(answers'[u]) /\ answers'[u].prefer \in Lines /\ ~Loads(pairs'[u])
                  => u \in cut' \/ \E q \in Processes :
                       process'[q].task = u /\ process'[q].at \in {"written", "pairing"}
  <2>1. CASE u = t
    BY <1>1, <1>2, <1>3, <1>4, <1>5, <2>1, Contents
      DEF LedgerInv, LedgerAgrees, PairsAreAnswers, MakesPair
  <2>2. CASE u # t
    BY <1>1, <1>2, <1>3, <1>5, <2>2, Contents DEF LedgerInv, LedgerAgrees, PairsAreAnswers
  <2> QED  BY <2>1, <2>2
<1>7. PairsAreAnswers'
  BY <1>6 DEF PairsAreAnswers, Loads
<1>8. AnswersAreOfTasks'
  <2>1. ASSUME NEW u \in Tasks
        PROVE  /\ answers'[u] = Torn => u \in cut' \/ \E q \in Processes :
                    process'[q].task = u /\ process'[q].at = "writing"
               /\ Loads(answers'[u]) => queue'[u] = "task" /\ WellFormed(answers'[u])
    <3>1. CASE u = t
      BY <1>1, <1>2, <1>3, <3>1, Contents DEF Loads
    <3>2. CASE u # t
      BY <1>1, <1>2, <1>3, <1>5, <3>2
        DEF LedgerInv, LedgerAgrees, AnswersAreOfTasks, At, WellFormed
    <3> QED  BY <3>1, <3>2
  <2> QED  BY <2>1 DEF AnswersAreOfTasks, At, WellFormed, Loads
<1> QED  BY <1>5, <1>7, <1>8 DEF LedgerInv, LedgerAgrees

\* And so its pair, which is the answer that was written.
LEMMA PairKeeps ==
  ASSUME LedgerInv, NEW p \in Processes, TruncatePair(p) \/ WritePair(p) PROVE LedgerInv'
<1> DEFINE t == process[p].task
           s == process[p].said
<1>1. /\ process[p].at \in {"written", "pairing"}
      /\ UNCHANGED <<queue, answers, published, batch, page, cut, crashes>>
  BY DEF TruncatePair, WritePair, At
<1>2. /\ Proper(process[p], queue, answers) /\ t \in Tasks /\ s \in Sayings /\ answers[t] = s
      /\ MakesPair(t, s) /\ process[p] \in ProcessType
      /\ process[p].imports => process[p].todo # <<>>
  BY <1>1 DEF LedgerInv, Proper, ProcessType, Recording, InAnswer
<1>3. PICK r, content :
        /\ process' = [process EXCEPT ![p] = r] /\ pairs' = [pairs EXCEPT ![t] = content]
        /\ Proper(r, queue, answers) /\ r.task \in {t, "none"}
        /\ (content = Torn /\ r.task = t /\ r.at = "pairing") \/ content = s
  <2>1. CASE TruncatePair(p)
    <3> DEFINE r == [process[p] EXCEPT !.at = "pairing"]
    <3>1. process[p].at = "written" /\ process' = [process EXCEPT ![p] = r]
          /\ pairs' = [pairs EXCEPT ![t] = Torn]
      BY <2>1 DEF TruncatePair, Steps, Goes, At, Empties
    <3>2. Proper(r, queue, answers) /\ r.task = t /\ r.at = "pairing"
      BY <1>2, <3>1 DEF Proper, ProcessType, Places, Recording, InAnswer
    <3> HIDE DEF r
    <3> QED  BY <3>1, <3>2
  <2>2. CASE WritePair(p)
    <3>1. process' = [process EXCEPT ![p] = Onward(p)] /\ pairs' = [pairs EXCEPT ![t] = s]
      BY <2>2 DEF WritePair, Goes, Fills
    <3>2. Proper(Onward(p), queue, answers) /\ Onward(p).task = "none"
      BY <1>2, OnwardIsProper
    <3> QED  BY <3>1, <3>2
  <2> QED  BY <2>1, <2>2
<1>4. /\ pairs' \in Files(Sayings) /\ pairs'[t] = content
      /\ \A u \in Tasks \ {t} : pairs'[u] = pairs[u]
  BY <1>2, <1>3 DEF LedgerInv, TypeOK, Files
<1>5. /\ TypeOK' /\ AllAlone' /\ \A q \in Processes : Proper(process'[q], queue', answers')
      /\ process'[p] = r /\ \A q \in Processes \ {p} : process'[q] = process[q]
  BY <1>1, <1>3, <1>4, OneMoves DEF LedgerInv, TypeOK
<1>6. ASSUME NEW u \in Tasks
      PROVE  /\ \A file \in {pairs'[u], published'[u]} :
                  Loads(file) => u \in Questions /\ file.prefer \in Lines /\ answers'[u] = file
             /\ u \in Questions /\ Loads(answers'[u]) /\ answers'[u].prefer \in Lines /\ ~Loads(pairs'[u])
                  => u \in cut' \/ \E q \in Processes :
                       process'[q].task = u /\ process'[q].at \in {"written", "pairing"}
  <2>1. CASE u = t
    BY <1>1, <1>2, <1>3, <1>4, <1>5, <2>1, Contents
      DEF LedgerInv, LedgerAgrees, PairsAreAnswers, MakesPair
  <2>2. CASE u # t
    BY <1>1, <1>2, <1>3, <1>4, <1>5, <2>2 DEF LedgerInv, LedgerAgrees, PairsAreAnswers
  <2> QED  BY <2>1, <2>2
<1>7. PairsAreAnswers'
  BY <1>6 DEF PairsAreAnswers, Loads
<1>8. AnswersAreOfTasks'
  BY <1>1, <1>2, <1>5 DEF LedgerInv, LedgerAgrees, AnswersAreOfTasks, At
<1> QED  BY <1>5, <1>7, <1>8 DEF LedgerInv, LedgerAgrees

\* A death in an answer is remembered, and any other loses nothing.
LEMMA CrashKeeps == ASSUME LedgerInv, NEW p \in Processes, Crash(p) PROVE LedgerInv'
<1>1. /\ crashes' = crashes + 1 /\ crashes < MaxCrashes /\ process' = [process EXCEPT ![p] = Idle]
      /\ cut' = IF process[p].at \in InAnswer THEN cut \cup {process[p].task} ELSE cut
      /\ UNCHANGED <<queue, answers, pairs, published, batch, page>>
  BY DEF Crash, Goes
<1>2. /\ process'[p] = Idle /\ DOMAIN process' = Processes
      /\ \A q \in Processes \ {p} : process'[q] = process[q]
      /\ Proper(Idle, queue, answers) /\ Idle.task = "none" /\ Idle \in ProcessType
  BY <1>1, IdleIsProper DEF LedgerInv, TypeOK, Proper
<1>3. process[p].at \in InAnswer => process[p].task \in Tasks
  BY DEF LedgerInv, Proper, ProcessType, InAnswer
<1>4. crashes' \in 0 .. MaxCrashes /\ cut' \subseteq Tasks /\ cut \subseteq cut'
  BY <1>1, <1>3, LedgerAssumption DEF LedgerInv, TypeOK
<1>5. TypeOK'
  BY <1>1, <1>2, <1>4 DEF LedgerInv, TypeOK, ProcessType
<1>6. AllAlone'
  BY <1>2 DEF LedgerInv, AllAlone
<1>7. \A q \in Processes : Proper(process'[q], queue', answers')
  BY <1>1, <1>2 DEF LedgerInv
<1>8. \A q \in Processes : process[q].at \in InAnswer => process'[q] = process[q] \/ process[q].task \in cut'
  BY <1>1, <1>2
<1>9. PairsAreAnswers'
  BY <1>1, <1>4, <1>8 DEF LedgerInv, LedgerAgrees, PairsAreAnswers, InAnswer
<1>10. AnswersAreOfTasks'
  BY <1>1, <1>4, <1>8 DEF LedgerInv, LedgerAgrees, AnswersAreOfTasks, InAnswer, At
<1> QED  BY <1>5, <1>6, <1>7, <1>9, <1>10 DEF LedgerInv, LedgerAgrees

\* A batch, a click and a publishing touch no process.
LEMMA AsideKeeps ==
  ASSUME LedgerInv,
         \/ MakeBatch \/ Publish \/ UNCHANGED vars
         \/ \E t \in Tasks, s \in Sayings : PageAnswers(t, s)
  PROVE  LedgerInv'
<1>1. UNCHANGED <<queue, answers, pairs, process, cut, crashes>>
  BY DEF MakeBatch, Publish, PageAnswers, vars
<1>2. batch' \subseteq Tasks
  BY DEF MakeBatch, Publish, PageAnswers, vars, LedgerInv, TypeOK, Pending
<1>3. page' \in Seq(Answering)
  <2>1. CASE \E t \in Tasks, s \in Sayings : PageAnswers(t, s)
    BY <2>1, AppendProperties DEF PageAnswers, LedgerInv, TypeOK, Answering
  <2>2. CASE MakeBatch \/ Publish \/ UNCHANGED vars
    BY <2>2 DEF MakeBatch, Publish, vars, LedgerInv, TypeOK
  <2> QED  BY <2>1, <2>2
<1>4. published' \in [Tasks -> Sayings \cup {NoFile, Torn}]
      /\ \A t \in Tasks : published'[t] = published[t] \/ (Due(t) /\ published'[t] = answers[t])
  <2>1. CASE Publish
    <3>1. PICK some \in SUBSET {t \in Tasks : Due(t)} :
            published' = [t \in Tasks |-> IF t \in some THEN answers[t] ELSE published[t]]
      BY <2>1 DEF Publish
    <3> QED  BY <3>1 DEF LedgerInv, TypeOK, Files
  <2>2. CASE UNCHANGED published
    BY <2>2 DEF LedgerInv, TypeOK, Files
  <2> QED  BY <2>1, <2>2 DEF MakeBatch, PageAnswers, vars
<1>5. TypeOK'
  BY <1>1, <1>2, <1>3, <1>4 DEF LedgerInv, TypeOK, Files
<1>6. ASSUME NEW t \in Tasks, Loads(published'[t])
      PROVE  t \in Questions /\ published'[t].prefer \in Lines /\ answers[t] = published'[t]
  BY <1>4, <1>6 DEF LedgerInv, LedgerAgrees, PairsAreAnswers, Due, MakesPair
<1>7. PairsAreAnswers'
  BY <1>1, <1>6 DEF LedgerInv, LedgerAgrees, PairsAreAnswers, Loads
<1>8. AnswersAreOfTasks'
  BY <1>1 DEF LedgerInv, LedgerAgrees, AnswersAreOfTasks, At
<1>9. AllAlone'
  BY <1>1 DEF LedgerInv, AllAlone
<1> QED  BY <1>1, <1>5, <1>7, <1>8, <1>9 DEF LedgerInv, LedgerAgrees

LEMMA LedgerInitially == Init => LedgerInv
<1> SUFFICES ASSUME Init PROVE LedgerInv
  OBVIOUS
<1>1. /\ Idle \in ProcessType /\ \A p \in Processes : process[p] = Idle
      /\ \A p \in Processes : Proper(process[p], queue, answers) /\ process[p].task = "none"
  BY IdleIsProper DEF Init, Proper
<1>2. TypeOK
  BY <1>1, LedgerAssumption, EmptySeq DEF Init, TypeOK, Files, ProcessType
<1>3. AllAlone
  BY <1>1 DEF AllAlone
<1>4. LedgerAgrees
  BY Contents DEF Init, LedgerAgrees, PairsAreAnswers, AnswersAreOfTasks
<1> QED  BY <1>1, <1>2, <1>3, <1>4 DEF LedgerInv

LEMMA LedgerStep == ASSUME OneDoor, LedgerInv, [Next]_vars PROVE LedgerInv'
<1>1. ASSUME NEW p \in Processes,
             \/ \E t \in Tasks : Seed(p, t) \/ \E s \in Sayings : Answer(p, t, s)
             \/ SeedFills(p) \/ Import(p) \/ Imports(p) \/ Records(p) \/ Crash(p)
      PROVE  LedgerInv'
  BY <1>1, SeedKeeps, AnswerKeeps, SeedFillsKeeps, ImportKeeps, ImportStepKeeps, LookKeeps,
     TruncateKeeps, WriteKeeps, PairKeeps, CrashKeeps DEF Records
<1> QED  BY <1>1, AsideKeeps DEF Next

\* A file is written where there was no answer, by the one process that is at its task.
LEMMA LedgerStands ==
  ASSUME LedgerInv, [Next]_vars
  PROVE  \A t \in Tasks : Loads(answers[t]) => answers'[t] = answers[t]
<1>1. CASE \E p \in Processes : Truncate(p) \/ Write(p)
  <2>1. PICK p \in Processes : Truncate(p) \/ Write(p)
    BY <1>1
  <2>2. /\ ~Loads(answers[process[p].task])
        /\ \E content : answers' = [answers EXCEPT ![process[p].task] = content]
    BY <2>1, Contents DEF Truncate, Write, At, Empties, Fills, LedgerInv, Proper
  <2> QED  BY <2>2 DEF LedgerInv, TypeOK, Files
<1>2. CASE UNCHANGED answers
  BY <1>2
<1> QED
  BY <1>1, <1>2 DEF Next, vars, Seed, Answer, SeedFills, Import, Imports, ImportEnds, ImportFills,
     ImportRaises, ImportMeets, ImportAdds, Records, Refuse, Check, TruncatePair, WritePair,
     Crash, MakeBatch, Publish, PageAnswers

-----------------------------------------------------------------------------
(***************************************************************************)
(* The verdicts.  Each was checked on the numbers it is kept with, and     *)
(* any of them that there are have a last.                                 *)
(***************************************************************************)
Measured(r) ==
  \E s, m, n : /\ r \in {[at |-> "judged", said |-> s, measured |-> m, stamp |-> n],
                         [at |-> "writing", said |-> s, measured |-> m, stamp |-> n]}
               /\ Stands(s, m) /\ n \in Nat
Kind(v) ==
  \E n \in Nat : \/ v = [stamp |-> n, file |-> Torn]
                 \/ \E s, m : v = [stamp |-> n, file |-> [said |-> s, measured |-> m]] /\ Stands(s, m)
Last(S, v) == v \in S /\ \A w \in S : w.stamp <= v.stamp

VerdictsInv ==
  /\ judging = [p \in Processes |-> judging[p]]
  /\ \A p \in Processes : judging[p] = Nothing \/ Measured(judging[p])
  /\ IsFiniteSet(verdicts) /\ \A v \in verdicts : Kind(v)
  /\ \A S \in SUBSET verdicts : S # {} => \E v \in S : Last(S, v)
  /\ CasesAreJudged

\* One verdict more, and there is a last of any.
LEMMA OneMoreHasLast ==
  ASSUME NEW V, NEW x, x.stamp \in Nat, \A v \in V : v.stamp \in Nat,
         \A S \in SUBSET V : S # {} => \E v \in S : Last(S, v),
         NEW S \in SUBSET (V \cup {x}), S # {}
  PROVE  \E v \in S : Last(S, v)
<1>1. CASE x \notin S
  BY <1>1
<1>2. CASE S = {x}
  BY <1>2 DEF Last
<1>3. CASE x \in S /\ S # {x}
  <2>1. PICK v \in S \ {x} : Last(S \ {x}, v)
    BY <1>3
  <2>2. CASE x.stamp <= v.stamp
    BY <2>1, <2>2 DEF Last
  <2>3. CASE ~(x.stamp <= v.stamp)
    <3>1. v.stamp \in Nat /\ \A w \in S \ {x} : w.stamp \in Nat /\ w.stamp <= x.stamp
      BY <2>1, <2>3 DEF Last
    <3> QED  BY <1>3, <3>1 DEF Last
  <2> QED  BY <2>2, <2>3
<1> QED  BY <1>1, <1>2, <1>3

LEMMA KindStamped == ASSUME NEW v, Kind(v) PROVE v.stamp \in Nat
BY DEF Kind

LEMMA CasesStay ==
  ASSUME VerdictsInv, UNCHANGED case PROVE CasesAreJudged'
BY DEF VerdictsInv, CasesAreJudged

\* One process judges, and adds a verdict perhaps, or replaces its own.
LEMMA OneJudges ==
  ASSUME VerdictsInv, NEW p \in Processes, NEW r, r = Nothing \/ Measured(r),
         judging' = [judging EXCEPT ![p] = r], UNCHANGED case,
         NEW old \in SUBSET verdicts, NEW x, Kind(x),
         verdicts' = verdicts \/ verdicts' = old \cup {x}
  PROVE  VerdictsInv'
<1>1. judging' = [q \in Processes |-> judging'[q]]
      /\ \A q \in Processes : judging'[q] = Nothing \/ Measured(judging'[q])
  BY DEF VerdictsInv
<1>2. IsFiniteSet(old) /\ IsFiniteSet(old \cup {x})
  BY FS_Subset, FS_AddElement DEF VerdictsInv
<1>3. \A v \in verdicts' : Kind(v)
  BY DEF VerdictsInv
<1>4. \A S \in SUBSET old : S # {} => \E v \in S : Last(S, v)
  BY DEF VerdictsInv
<1>5. x.stamp \in Nat /\ \A v \in old : v.stamp \in Nat
  BY KindStamped DEF VerdictsInv
<1>6. \A S \in SUBSET (old \cup {x}) : S # {} => \E v \in S : Last(S, v)
  BY <1>4, <1>5, OneMoreHasLast
<1>7. IsFiniteSet(verdicts') /\ \A S \in SUBSET verdicts' : S # {} => \E v \in S : Last(S, v)
  BY <1>2, <1>6 DEF VerdictsInv
<1> QED  BY <1>1, <1>3, <1>7, CasesStay DEF VerdictsInv

LEMMA JudgeKeeps ==
  ASSUME VerdictsInv, NEW p \in Processes, NEW s \in Submissions, Judge(p, s) PROVE VerdictsInv'
<1> DEFINE n == Cardinality(verdicts) + Cardinality({q \in Processes : judging[q] # Nothing})
           r == [at |-> "judged", said |-> s, measured |-> shown, stamp |-> n]
<1>1. /\ judging' = [judging EXCEPT ![p] = r] /\ Stands(s, shown) /\ UNCHANGED <<verdicts, case>>
  BY DEF Judge
<1>2. n \in Nat
  <2>1. IsFiniteSet({q \in Processes : judging[q] # Nothing}) /\ IsFiniteSet(verdicts)
    BY LedgerAssumption, FS_Subset DEF VerdictsInv
  <2> QED  BY <2>1, FS_CardinalityType
<1> HIDE DEF n
<1>3. Measured(r)
  BY <1>1, <1>2 DEF Measured
<1> HIDE DEF r
<1>4. Kind([stamp |-> 0, file |-> Torn]) /\ {} \in SUBSET verdicts
  BY DEF Kind
<1> QED  BY <1>1, <1>3, <1>4, OneJudges

\* ledger.record_verdict empties a file of its own, and fills it with what was checked.
LEMMA VerdictKeeps ==
  ASSUME VerdictsInv, NEW p \in Processes, EmptyVerdict(p) \/ WriteVerdict(p) \/ DieJudging(p)
  PROVE  VerdictsInv'
<1>1. judging[p] # Nothing /\ UNCHANGED case
  BY DEF EmptyVerdict, WriteVerdict, DieJudging, Nothing
<1>2. PICK s, m, n :
        /\ judging[p] \in {[at |-> "judged", said |-> s, measured |-> m, stamp |-> n],
                           [at |-> "writing", said |-> s, measured |-> m, stamp |-> n]}
        /\ Stands(s, m) /\ n \in Nat
  BY <1>1 DEF VerdictsInv, Measured
<1>3. /\ judging[p].stamp = n /\ Verdict(p) = [said |-> s, measured |-> m]
      /\ Kind(Kept(p, Torn)) /\ Kind(Kept(p, Verdict(p)))
  BY <1>2 DEF Verdict, Kept, Kind
<1>4. CASE EmptyVerdict(p)
  <2> DEFINE r == [judging[p] EXCEPT !.at = "writing"]
  <2>1. verdicts' = verdicts \cup {Kept(p, Torn)} /\ judging' = [judging EXCEPT ![p] = r]
    BY <1>4 DEF EmptyVerdict
  <2>2. r = [at |-> "writing", said |-> s, measured |-> m, stamp |-> n]
    BY <1>2
  <2>3. Measured(r)
    BY <1>2, <2>2 DEF Measured
  <2> HIDE DEF r
  <2> QED  BY <1>1, <1>3, <2>1, <2>3, OneJudges
<1>5. CASE WriteVerdict(p)
  BY <1>1, <1>3, <1>5, OneJudges DEF WriteVerdict
<1>6. CASE DieJudging(p)
  BY <1>1, <1>3, <1>6, OneJudges DEF DieJudging
<1> QED  BY <1>4, <1>5, <1>6

\* label publish takes the last that is about the golden, checked on the golden's numbers.
LEMMA PublishKeeps == ASSUME VerdictsInv, PublishVerdict PROVE VerdictsInv'
<1> DEFINE about_golden == {v \in verdicts : v.file.said.golden}
           latest == Latest(about_golden)
<1>1. /\ \A v \in verdicts : v.file # Torn
      /\ about_golden # {} /\ latest.file.measured = golden
      /\ case' = [at |-> "written", verdict |-> latest.file, numbers |-> golden]
      /\ UNCHANGED <<verdicts, judging>>
  BY DEF PublishVerdict, Differ
<1>2. \E v \in about_golden : Last(about_golden, v)
  BY <1>1 DEF VerdictsInv
<1>3. latest \in about_golden
  BY <1>2 DEF Latest, Last
<1> HIDE DEF latest
<1>4. Stands(latest.file.said, latest.file.measured)
  BY <1>1, <1>3 DEF VerdictsInv, Kind
<1>5. Stands(latest.file.said, golden)
  BY <1>1, <1>4
<1>6. CasesAreJudged'
  <2>1. case'.verdict.said = latest.file.said /\ case'.numbers = golden
    BY <1>1
  <2> DEFINE said == latest.file.said
             broken == {b \in said.bounds : golden[b.metric] = Unmeasured \/ Outside(b, golden[b.metric])}
  <2>2. broken = Breaches(said.bounds, golden)
    BY <1>5 DEF Stands, Unmeasurable, Breaches
  <2>3. IF said.would = "no" /\ said.gap = NoGap THEN broken # {} ELSE broken = {}
    BY <1>5, <2>2 DEF Stands
  <2> QED  BY <2>1, <2>3 DEF CasesAreJudged
<1> QED  BY <1>1, <1>6 DEF VerdictsInv

LEMMA VerdictsStep == ASSUME VerdictsInv, NextVerdicts PROVE VerdictsInv'
<1>1. CASE UNCHANGED <<verdicts, judging, case>>
  BY <1>1 DEF VerdictsInv, CasesAreJudged
<1> QED
  BY <1>1, JudgeKeeps, VerdictKeeps, PublishKeeps
  DEF NextVerdicts, CodeChanges, PlanEdited, Freeze, Show

-----------------------------------------------------------------------------
BothInv == LedgerInv /\ VerdictsInv

LEMMA BothInitially == InitBoth => BothInv
<1> SUFFICES ASSUME InitBoth PROVE BothInv
  OBVIOUS
<1>1. VerdictsInv
  BY FS_EmptySet DEF InitBoth, InitVerdicts, VerdictsInv, CasesAreJudged
<1> QED  BY <1>1, LedgerInitially DEF InitBoth, BothInv

LEMMA BothKept == OneDoor /\ BothInv /\ [NextBoth]_allVars => BothInv'
<1> SUFFICES ASSUME OneDoor, BothInv, [NextBoth]_allVars PROVE BothInv'
  OBVIOUS
<1>1. CASE Next /\ UNCHANGED verdictVars
  <2>1. LedgerInv'
    BY <1>1, LedgerStep DEF BothInv
  <2>2. VerdictsInv'
    BY <1>1 DEF BothInv, verdictVars, VerdictsInv, CasesAreJudged
  <2> QED  BY <2>1, <2>2 DEF BothInv
<1>2. CASE NextVerdicts /\ UNCHANGED vars
  BY <1>2, LedgerStep, VerdictsStep DEF BothInv
<1>3. CASE UNCHANGED allVars
  <2>1. LedgerInv'
    BY <1>3, LedgerStep DEF BothInv, allVars
  <2>2. VerdictsInv'
    BY <1>3 DEF BothInv, allVars, verdictVars, VerdictsInv, CasesAreJudged
  <2> QED  BY <2>1, <2>2 DEF BothInv
<1> QED  BY <1>1, <1>2, <1>3 DEF NextBoth

\* The ledger's step, of any step of both.
LEMMA BothStands ==
  BothInv /\ [NextBoth]_allVars => [\A t \in Tasks : Loads(answers[t]) => answers'[t] = answers[t]]_vars
<1>1. [NextBoth]_allVars => [Next]_vars
  BY DEF NextBoth, allVars
<1> QED  BY <1>1, LedgerStands DEF BothInv

\* Where a question is answered through one door at a time, what tune and the evaluation
\* read - pairs, published pairs and the cases of judged goldens - is what a person said,
\* of what they were shown (record_answer, record_verdict, label publish).
THEOREM SaidAndRead == ASSUME OneDoor PROVE SpecBoth => []WhatWasSaidIsRead
<1>1. BothInv => WhatWasSaidIsRead
  BY DEF BothInv, LedgerInv, VerdictsInv, WhatWasSaidIsRead
<1>2. BothInv /\ [NextBoth]_allVars => BothInv'
  BY BothKept
<1> QED  BY <1>1, <1>2, BothInitially, PTL DEF SpecBoth

\* And there an answer in the ledger never changes, whoever dies (Ledger.record_answer,
\* import_answers).
THEOREM FirstAnswerIsKept == ASSUME OneDoor PROVE SpecBoth => FirstAnswerStands
<1>1. BothInv /\ [NextBoth]_allVars => BothInv'
  BY BothKept
<1>2. BothInv /\ [NextBoth]_allVars
        => [\A t \in Tasks : Loads(answers[t]) => answers'[t] = answers[t]]_vars
  BY BothStands
<1> QED  BY <1>1, <1>2, BothInitially, PTL DEF SpecBoth, FirstAnswerStands

=============================================================================
