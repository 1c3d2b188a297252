---------------------------- MODULE LabelLedgerMC ----------------------------
(* One question, and a probe of it; or one golden, judged twice.            *)
EXTENDS Verdicts

MC_Questions == {"q"}
MC_Probes == {"again"}
MC_RepeatOf == [t \in MC_Probes |-> "q"]
\* The last is what a page's file may say and no door records.
MC_Sayings == {[prefer |-> "a", strength |-> "clear"],
               [prefer |-> "none", strength |-> "unsaid"],
               [prefer |-> "b", strength |-> "unsaid"]}

Numbered(flags, exit, residual) ==
  [m \in Metrics |-> CASE m = "hard_flags" -> flags [] m = "worst_exit_m" -> exit [] OTHER -> residual]
MC_Numbers == {Numbered(0, 5, 0), Numbered(2, 5, 0), Numbered(0, Unmeasured, 0), Numbered(0, 5, Unmeasured)}
Most(metric, limit) == [metric |-> metric, side |-> "max", limit |-> limit]
Says(would, bounds, gap, of) == [would |-> would, bounds |-> bounds, gap |-> gap, golden |-> of]
\* Some of them stand for some numbers and not for others, and the last two are of no golden
\* and of no metric.
MC_Submissions ==
  {Says("yes", {Most("worst_exit_m", 5)}, NoGap, TRUE), Says("unsure", {Most("hard_flags", 1)}, NoGap, TRUE),
   Says("no", {Most("worst_exit_m", 3), Most("hard_flags", 1)}, NoGap, TRUE), Says("no", {}, "too loud", TRUE),
   Says("yes", {Most("hard_flags", 1)}, NoGap, FALSE), Says("yes", {Most("residual_flags", 0)}, NoGap, TRUE)}
=============================================================================
