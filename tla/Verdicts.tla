------------------------------- MODULE Verdicts -------------------------------
(***************************************************************************)
(* "Would you run this?" (core/labels/bounds.py, verdicts.py, publish.py): *)
(* a person judges the plan a golden gives, or a stored one they say was   *)
(* seeded from it, through `label verdict` or the Judge panel; the verdict *)
(* is kept with the numbers it was written against, and `label publish`    *)
(* makes the latest one a case of the evaluation.  Meanwhile the code that *)
(* scores changes, goldens are frozen again and plans are edited.          *)
(*                                                                         *)
(* It shares a root with the pairs of LabelLedger, and not a file, so a    *)
(* run is about one or the other.                                          *)
(***************************************************************************)
EXTENDS LabelLedger

CONSTANTS
  Numbers,      \* what a scoring may come to: of each metric a number, or Unmeasured
  Submissions,  \* what a person may say: [would, bounds, gap, golden]
  Unmeasured, NoGap,
  MaxChanges, MaxVerdicts   \* bounds, for model checking only

VARIABLES
  about,    \* whether the ledger is used for pairs or for verdicts
  code,     \* what scoring the golden comes to now
  golden,   \* expected.json
  shown,    \* the plan the person has before them
  verdicts, \* verdicts/<id>.json
  judging,  \* what each process has measured and checked, or Nothing
  case,     \* history: tests/eval/cases/<golden>/label.yaml, and the golden it was made for
  changes

verdictVars == <<code, golden, shown, verdicts, judging, case, changes>>
allVars == <<vars, about, verdictVars>>

Nothing == [at |-> "idle"]
NoCase == [at |-> "none"]

-----------------------------------------------------------------------------
\* ---- bounds.py
WouldRun == {"yes", "no", "unsure"}
Metrics == {"hard_flags", "worst_exit_m", "residual_flags"}
BoundNames == (Metrics \ {"residual_flags"}) \X {"max", "min"}
Outside(bound, value) == IF bound.side = "max" THEN value > bound.limit ELSE value < bound.limit
\* breaches: a bound on what was not measured is not looked at.
Breaches(bounds, measured) ==
  {b \in bounds : measured[b.metric] # Unmeasured /\ Outside(b, measured[b.metric])}
Unmeasurable(bounds, measured) == {b \in bounds : measured[b.metric] = Unmeasured}
Named(bounds) == \A b \in bounds : <<b.metric, b.side>> \in BoundNames

\* check_verdict: whether nothing is wrong with it.
Stands(s, measured) ==
  /\ s.would \in WouldRun
  /\ Named(s.bounds) /\ Unmeasurable(s.bounds, measured) = {}
  /\ IF s.gap # NoGap
     THEN s.gap # "" /\ s.would = "no" /\ Breaches(s.bounds, measured) = {}
     ELSE /\ s.bounds # {}
          /\ s.would = "no" <=> Breaches(s.bounds, measured) # {}
          /\ s.would = "yes" => measured["residual_flags"] # Unmeasured

\* ---- publish.py
DifferWhereMeasured(judged, current) ==   \* a bug: what either does not have is no difference
  \E k \in Metrics : judged[k] # Unmeasured /\ current[k] # Unmeasured /\ judged[k] # current[k]
Differ(judged, current) == judged # current
Latest(about_golden) == CHOOSE v \in about_golden : \A w \in about_golden : w.stamp <= v.stamp

-----------------------------------------------------------------------------
InitVerdicts ==
  /\ code \in Numbers /\ golden = code /\ shown = NoFile
  /\ verdicts = {} /\ judging = [p \in Processes |-> Nothing]
  /\ case = NoCase /\ changes = 0
InitBoth == /\ Init /\ InitVerdicts /\ about \in {"pairs", "verdicts"}
            /\ about = "verdicts" => batch = {}

Changes == changes < MaxChanges /\ changes' = changes + 1
CodeChanges(numbers) ==
  /\ numbers # code /\ Changes /\ code' = numbers
  /\ UNCHANGED <<golden, shown, verdicts, judging, case>>
Freeze ==
  /\ golden # code /\ golden' = code
  /\ UNCHANGED <<code, shown, verdicts, judging, case, changes>>
\* label show: the golden scored as its test does.
Show ==
  /\ shown # code /\ shown' = code
  /\ UNCHANGED <<code, golden, verdicts, judging, case, changes>>
\* The stored plan of the Judge panel is any plan, and is edited while it is open.
PlanEdited(numbers) ==
  /\ numbers # shown /\ Changes /\ shown' = numbers
  /\ UNCHANGED <<code, golden, verdicts, judging, case>>

\* record_verdict: the plan is read and measured now, whatever it was when it was looked at.
Judge(p, s) ==
  /\ judging[p] = Nothing /\ shown # NoFile
  /\ Cardinality(verdicts) + Cardinality({q \in Processes : judging[q] # Nothing}) < MaxVerdicts
  /\ Stands(s, shown)
  /\ judging' = [judging EXCEPT ![p] =
       [at |-> "judged", said |-> s, measured |-> shown,
        stamp |-> Cardinality(verdicts) + Cardinality({q \in Processes : judging[q] # Nothing})]]
  /\ UNCHANGED <<code, golden, shown, verdicts, case, changes>>
Kept(p, file) == [stamp |-> judging[p].stamp, file |-> file]
Verdict(p) == [said |-> judging[p].said, measured |-> judging[p].measured]
EmptyVerdict(p) ==
  /\ judging[p].at = "judged"
  /\ verdicts' = verdicts \cup {Kept(p, Torn)}
  /\ judging' = [judging EXCEPT ![p].at = "writing"]
  /\ UNCHANGED <<code, golden, shown, case, changes>>
WriteVerdict(p) ==
  /\ judging[p].at = "writing"
  /\ verdicts' = (verdicts \ {Kept(p, Torn)}) \cup {Kept(p, Verdict(p))}
  /\ judging' = [judging EXCEPT ![p] = Nothing]
  /\ UNCHANGED <<code, golden, shown, case, changes>>

\* label publish: the latest verdict that names the golden, if the golden still has the
\* numbers it was written against.
PublishVerdict ==
  LET about_golden == {v \in verdicts : v.file.said.golden}
      latest == Latest(about_golden)
      written == [at |-> "written", verdict |-> latest.file, numbers |-> golden]
  IN  /\ \A v \in verdicts : v.file # Torn
      /\ about_golden # {} /\ ~Differ(latest.file.measured, golden)
      /\ case # written /\ case' = written
      /\ UNCHANGED <<code, golden, shown, verdicts, judging, changes>>

DieJudging(p) ==
  /\ judging[p] # Nothing /\ Changes
  /\ judging' = [judging EXCEPT ![p] = Nothing]
  /\ UNCHANGED <<code, golden, shown, verdicts, case>>

NextVerdicts ==
  \/ \E n \in Numbers : CodeChanges(n) \/ PlanEdited(n)
  \/ Freeze \/ Show \/ PublishVerdict
  \/ \E p \in Processes : (\E s \in Submissions : Judge(p, s)) \/ EmptyVerdict(p) \/ WriteVerdict(p) \/ DieJudging(p)

NextBoth ==
  /\ UNCHANGED about
  /\ \/ about = "pairs" /\ Next /\ UNCHANGED verdictVars
     \/ about = "verdicts" /\ NextVerdicts /\ UNCHANGED vars
SpecBoth == InitBoth /\ [][NextBoth]_allVars

-----------------------------------------------------------------------------
\* A case of the evaluation says of its golden what its person said of it: it was judged on
\* the numbers the golden had when the case was written, and on those numbers a "yes" keeps
\* all of its bounds, and a "no" that names no gap breaks one (ADR 0048).
CasesAreJudged ==
  case # NoCase =>
    LET said == case.verdict.said
        broken == {b \in said.bounds : case.numbers[b.metric] = Unmeasured \/ Outside(b, case.numbers[b.metric])}
    IN  IF said.would = "no" /\ said.gap = NoGap THEN broken # {} ELSE broken = {}

\* What tune and the evaluation read is what was said (LabelLedger's, of the pairs).
WhatWasSaidIsRead == LedgerAgrees /\ CasesAreJudged
=============================================================================
