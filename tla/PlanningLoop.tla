---------------------------- MODULE PlanningLoop ----------------------------
(***************************************************************************)
(* Scope 8.1's planning loop (agent/loop.py) over the scratchpad it saves  *)
(* and resumes from (core/plan/scratchpad.py).                             *)
(*                                                                         *)
(* One plan is modelled: the first leg, which plan_route runs from a       *)
(* request, the pauses in which the runner answers a question, the legs    *)
(* that resume from the stored scratchpad, and a leg being lost because    *)
(* its process died or raised.                                             *)
(*                                                                         *)
(* A route is the sequence of its segments, each one metre long: ground[c] *)
(* names the stretch of street under segment c and flags[c] is its worst   *)
(* flag, with its position weight applied.  Segment c is the range from    *)
(* c - 1 to c of the line, which is how a lock names it, and two routes    *)
(* share ground where the names agree.                                     *)
(***************************************************************************)
EXTENDS Arbitration, FiniteSets, Functions, SequencesExt

CONSTANTS
  Routes,         \* every line the router or the runner may draw
  RequestLocks,   \* the lists of locks a request may arrive with
  RequestRounds,  \* the values of --rounds a request may arrive with
  Candidates,     \* CANDIDATES_PER_ROUND
  MaxRounds,      \* MAX_ROUNDS, which a resumed leg runs under
  MaxQuestions,   \* MAX_QUESTIONS_PER_PLAN
  Streets,        \* the names of stretches of street
  MaxLost         \* bound on lost legs, for model checking only

VARIABLES
  pc,        \* "idle", or "looping" then "returned" while plan_route has a pad
  pad,       \* the scratchpad in memory
  store,     \* the scratchpad on disk
  cap,       \* max_rounds of the leg that is running
  lost,      \* legs lost so far
  \* History, which no action reads:
  request,   \* the line, the rounds and the locks the plan began with
  settled    \* the <<route, segment>> pairs the runner has answered about

vars == <<pc, pad, store, cap, lost, request, settled>>

-----------------------------------------------------------------------------
NoFlag == [tier |-> 0, hard |-> FALSE, weight |-> 0]
Flags == [tier : 1 .. 3, hard : BOOLEAN, weight : Nat] \cup {NoFlag}

SegmentsOf(r) == 1 .. Len(r.ground)
Flagged(r) == {c \in SegmentsOf(r) : r.flags[c] # NoFlag}
InTier(r, t) == {c \in Flagged(r) : r.flags[c].tier = t}

\* score_candidate and Candidate.tier_key: hard flags, then severity, per tier.
TierKey(r) ==
  [i \in KeyPosition |->
     LET mine == InTier(r, (i + 1) \div 2)
     IN  IF i \in HardPosition
         THEN Cardinality({c \in mine : r.flags[c].hard})
         ELSE SumFunctionOnSet([c \in SegmentsOf(r) |-> r.flags[c].weight], mine)]

ScoredLine == {r \in [ground : Seq(Streets), flags : Seq(Flags)] : Len(r.ground) = Len(r.flags)}
Locks == [from : Nat, to : Nat, by : {"user", "loop"}]

Lock(from, to, by) == [from |-> from, to |-> to, by |-> by]

\* locked_segment_ids: overlap, not containment.
LockCovers(lock, c) == c - 1 < lock.to /\ c > lock.from
LockedByLoop(p, c) ==   \* a bug: only the loop's own locks are looked at
  \E i \in DOMAIN p.locked : p.locked[i].by = "loop" /\ LockCovers(p.locked[i], c)
Locked(p, c) == \E i \in DOMAIN p.locked : LockCovers(p.locked[i], c)

\* Scratchpad.lock, through lock_range: append, never merge.
WithLock(p, c, by) == [p EXCEPT !.locked = Append(@, Lock(c - 1, c, by))]

\* RankedFlag.sort_key: tier, then hard first, then severity, then segment id.
RanksBefore(r, c, d) ==
  LET f == r.flags[c]  g == r.flags[d]
  IN  \/ f.tier < g.tier
      \/ f.tier = g.tier /\ f.hard /\ ~g.hard
      \/ f.tier = g.tier /\ f.hard = g.hard /\ f.weight > g.weight
      \/ f.tier = g.tier /\ f.hard = g.hard /\ f.weight = g.weight /\ c < d

\* _worst_segment: the first flag in that order outside every locked range.
Open(p) == {c \in Flagged(p.route) : ~Locked(p, c)}
Worst(p, c) == c \in Open(p) /\ \A d \in Open(p) \ {c} : RanksBefore(p.route, c, d)

\* What _arbitrate compares: the line as it stands, then the router's answer.
Proposals == BoundedSeq(Routes, Candidates)
KeyOf == [r \in Routes |-> TierKey(r)]
Lines(p, proposed) == <<p.route>> \o proposed
Field(p, proposed) == [i \in 1 .. Len(proposed) + 1 |-> KeyOf[Lines(p, proposed)[i]]]

\* The constants are what the loop is handed: lines with one flag per segment,
\* and the locks and rounds of a request.
ASSUME LoopAssumption ==
  /\ Routes \subseteq ScoredLine
  /\ RequestLocks \subseteq Seq(Locks)
  /\ RequestRounds \subseteq Nat
  /\ Candidates \in Nat /\ MaxRounds \in Nat /\ MaxQuestions \in Nat /\ MaxLost \in Nat

-----------------------------------------------------------------------------
NoRoute == [ground |-> <<>>, flags |-> <<>>]
NoQuestion == [kind |-> "none", segment |-> 0, options |-> {}]
NoAnswer == 0
NoPad == [route |-> NoRoute, locked |-> <<>>, question |-> NoQuestion,
          answer |-> NoAnswer, round |-> 0, asked |-> 0, status |-> "none"]

\* _fresh: nothing asked, nothing spent, and the request's own locks.
Fresh(r, locks, status) ==
  [NoPad EXCEPT !.route = r, !.locked = locks, !.status = status]

\* _ask: a preference question about the original and the first alternative
\* when scope 6.3 permits one, and the trade-off itself otherwise.  Whether
\* one preference explains how those two differ is the profile's business.
AskOnceMore(p, proposed, c) ==   \* a bug: the cap is off by one
  /\ p.asked <= MaxQuestions
  /\ proposed # <<>> /\ proposed[1] # p.route
  /\ pad' = [p EXCEPT !.asked = @ + 1, !.status = "needs_input",
                      !.question = [kind |-> "preference", segment |-> c,
                                    options |-> {1, 2}]]
AskPreference(p, proposed, c) ==
  /\ p.asked < MaxQuestions
  /\ proposed # <<>> /\ proposed[1] # p.route
  /\ pad' = [p EXCEPT !.asked = @ + 1, !.status = "needs_input",
                      !.question = [kind |-> "preference", segment |-> c,
                                    options |-> {1, 2}]]

AskTradeOff(p, i, j, c) ==
  pad' = [p EXCEPT !.status = "needs_input",
                   !.question = [kind |-> "trade_off", segment |-> c,
                                 options |-> {i, j}]]

\* Bugs: the answer does not lock, or leaves the pad parked.
AppliedParked(p) ==
  WithLock([p EXCEPT !.question = NoQuestion, !.answer = NoAnswer, !.round = @ + 1],
           p.question.segment, "user")

\* _apply_answer: the segment the question was about is locked, the question
\* is closed, and the answer costs a round.
Applied(p) ==
  LET spent == [p EXCEPT !.question = NoQuestion, !.answer = NoAnswer,
                         !.status = "running", !.round = @ + 1]
  IN  IF p.question.segment \in SegmentsOf(p.route)
      THEN WithLock(spent, p.question.segment, "user")
      ELSE spent

-----------------------------------------------------------------------------
Init ==
  /\ pc = "idle" /\ pad = NoPad /\ store = NoPad
  /\ cap = 0 /\ lost = 0
  /\ request = [route |-> NoRoute, rounds |-> 0, locks |-> <<>>]
  /\ settled = {}

\* plan_route from a request that has a route, or can get one.
Begin(r, locks, rounds) ==
  /\ pc = "idle" /\ store = NoPad
  /\ pc' = "looping" /\ cap' = rounds
  /\ pad' = Fresh(r, locks, "running")
  /\ request' = [route |-> r, rounds |-> rounds, locks |-> locks]
  /\ UNCHANGED <<store, lost, settled>>

\* _route found nothing: the pad is returned as failed, without a plan.
BeginUnrouted(locks, rounds) ==
  /\ pc = "idle" /\ store = NoPad
  /\ pc' = "returned" /\ cap' = rounds
  /\ pad' = Fresh(NoRoute, locks, "failed")
  /\ request' = [route |-> NoRoute, rounds |-> rounds, locks |-> locks]
  /\ UNCHANGED <<store, lost, settled>>

InRound(c) == pc = "looping" /\ pad.round < cap /\ Worst(pad, c)

\* A round that adopts alternative w - 1.  The lock it leaves is the span of
\* the old line's segment c, in the old line's metres.
Improve(c, proposed, w) ==
  /\ InRound(c)
  /\ Adopts(Field(pad, proposed), w)
  /\ pad' = WithLock([pad EXCEPT !.route = Lines(pad, proposed)[w], !.round = @ + 1],
                     c, "loop")
  /\ UNCHANGED <<pc, store, cap, lost, request, settled>>

\* A round whose best two routes are too close: the leg returns, asking.
Park(c, proposed, i, j) ==
  /\ InRound(c)
  /\ TradeOff(Field(pad, proposed), i, j)
  /\ AskPreference(pad, proposed, c) \/ AskTradeOff(pad, i, j, c)
  /\ pc' = "returned"
  /\ UNCHANGED <<store, cap, lost, request, settled>>

ExhaustedByRounds == pad.round >= cap   \* a bug: nothing but the cap ends a leg
\* No rounds left, nothing left to fix, or nothing better on offer.
Exhausted ==
  \/ pad.round >= cap
  \/ Open(pad) = {}
  \/ \E proposed \in Proposals :
       LET field == Field(pad, proposed)
       IN  ~NeedsInput(field) /\ \A w \in DOMAIN field : ~Adopts(field, w)

Complete ==
  /\ pc = "looping" /\ Exhausted
  /\ pad' = [pad EXCEPT !.status = "complete"]
  /\ pc' = "returned"
  /\ UNCHANGED <<store, cap, lost, request, settled>>

\* The caller files the scratchpad that plan_route returned.
Save ==
  /\ pc = "returned"
  /\ store' = pad /\ pad' = NoPad
  /\ pc' = "idle"
  /\ UNCHANGED <<cap, lost, request, settled>>

\* answer(): the runner's choice, written to the stored scratchpad.
Answer(choice) ==
  /\ pc = "idle" /\ choice \in store.question.options
  /\ store' = [store EXCEPT !.answer = choice]
  /\ UNCHANGED <<pc, pad, cap, lost, request, settled>>

\* plan_route(resume=...) on what is stored, under the default cap.
Resume ==
  /\ pc = "idle" /\ store.answer # NoAnswer
  /\ pad' = Applied(store)
  /\ pc' = "looping" /\ cap' = MaxRounds
  /\ settled' = settled \cup {<<store.route, store.question.segment>>}
  /\ UNCHANGED <<store, lost, request>>

\* The process dies, or the leg raises: its pad is gone.
Lose ==
  /\ pc # "idle" /\ lost < MaxLost
  /\ lost' = lost + 1
  /\ pc' = "idle" /\ pad' = NoPad
  /\ UNCHANGED <<store, cap, request, settled>>

Round ==
  \E c \in SegmentsOf(pad.route), proposed \in Proposals :
    \/ \E w \in 1 .. Candidates + 1 : Improve(c, proposed, w)
    \/ \E i, j \in 1 .. Candidates + 1 : Park(c, proposed, i, j)

Start ==
  \E locks \in RequestLocks, rounds \in RequestRounds :
    \/ \E r \in Routes : Begin(r, locks, rounds)
    \/ BeginUnrouted(locks, rounds)

Reply == \E choice \in 1 .. Candidates + 1 : Answer(choice)

Next == Start \/ Round \/ Complete \/ Save \/ Reply \/ Resume \/ Lose

Spec == Init /\ [][Next]_vars

\* The program keeps going, and the runner answers what is asked.
Fairness ==
  /\ WF_vars(Round \/ Complete) /\ WF_vars(Save)
  /\ WF_vars(Reply) /\ WF_vars(Resume)

FairSpec == Spec /\ Fairness

-----------------------------------------------------------------------------
Question == [kind : {"none", "preference", "trade_off"}, segment : Nat,
             options : SUBSET (1 .. Candidates + 1)]
Pad == [route : Routes \cup {NoRoute}, locked : Seq(Locks), question : Question,
        answer : 0 .. Candidates + 1, round : Nat, asked : Nat,
        status : {"none", "running", "needs_input", "complete", "failed"}]

\* The shape of the loop's state.
TypeOK ==
  /\ pc \in {"idle", "looping", "returned"}
  /\ pad \in Pad /\ store \in Pad
  /\ cap \in Nat /\ lost \in Nat
  /\ request \in [route : Routes \cup {NoRoute}, rounds : Nat, locks : Seq(Locks)]
  /\ settled \subseteq Routes \X Nat

\* A parked plan can say what it is waiting for: on disk, and in memory once
\* the loop has returned, the status is needs_input exactly when a question is
\* pending, and the question is about a segment of the stored line that is
\* flagged and not locked (Scratchpad.question, jobs.resume's refusals).
Asks(p) == /\ p.status = "needs_input" <=> p.question # NoQuestion
           /\ p.question # NoQuestion => p.question.segment \in Open(p)
ParkedMeansAsked == Asks(pad) /\ Asks(store)

\* Whatever the legs, the losses and the answers, every round a plan has spent
\* left exactly one lock, after the locks it came with, which are still there
\* in order: an adopted detour and a runner's choice both lock, nothing else
\* does, and nothing is unlocked (plan_route, _apply_answer).
Kept(p) ==
  /\ Len(p.locked) = Len(request.locks) + p.round
  /\ \A i \in DOMAIN request.locks : p.locked[i] = request.locks[i]
OneLockPerRound == (pad # NoPad => Kept(pad)) /\ (store # NoPad => Kept(store))

\* A choice once answered is not asked again about the same segment of the
\* same line, in any later round or leg, also when the leg that took the
\* answer was lost and started over (_apply_answer: "must not be silently
\* reopened on the next iteration").
NeverReasked ==
  pad.question # NoQuestion => <<pad.route, pad.question.segment>> \notin settled

\* However many legs a plan takes, the runner is never asked more preference questions
\* about it than MAX_QUESTIONS_PER_PLAN (elicitation.py), and it spends no more rounds
\* than its two caps allow, questions included: a resume starts neither count over.
PreferenceCap == pad.asked <= MaxQuestions /\ store.asked <= MaxQuestions
RoundsBounded ==
  \A p \in {pad, store} : p.round <= request.rounds \/ p.round <= MaxRounds
CapsAreKept == PreferenceCap /\ RoundsBounded

\* The loop never hands back a line worse than the one the plan began with, by
\* tier key, after any number of adopted detours, questions and lost legs: in
\* particular never one with more hard safety flags (_arbitrate: "strictly
\* better, or not at all").
NotWorse(p) ==
  p = NoPad \/ p.route = request.route \/ Better(KeyOf[p.route], KeyOf[request.route])
NoWorseThanAsked == NotWorse(pad) /\ NotWorse(store)

\* Whoever is answered gets a plan: a plan that parks is in the end complete
\* on disk, unless it waits for ever for a leg that keeps being lost.
Settles == store.status = "needs_input" ~> store.status = "complete"
=============================================================================
