----------------------------- MODULE OpeningHours -----------------------------
(***************************************************************************)
(* core/scorers/_hours.py: whether a place is open at an arrival, from its *)
(* opening_hours tag.  The text is already cut at its semicolons into      *)
(* parts, each a sequence of rules or one that could not be read; a rule   *)
(* selects days, covers spans of time and says open, closed or unknown.    *)
(* A span's end may be Unknown: a sun event that nobody can resolve.       *)
(***************************************************************************)
EXTENDS Scoring, Sequences, SequencesExt

CONSTANT DayLength  \* the moments of a day

ASSUME HoursAssumption == DayLength \in Nat \ {0}

Weekdays == 0 .. 6
Moments == 0 .. DayLength - 1
Unread == <<>>     \* a part the parser gave up on: _Unread

\* _Rule.
Times == Int \cup {Unknown}
Rule == [days : SUBSET Weekdays, spans : SUBSET (Times \X Times), state : {TRUE, FALSE, Unknown},
         additional : BOOLEAN]

\* _Rule.covers: a rule with no spans covers its own day, and never the day after.
\* A span that ends before it starts runs past midnight; both ends are inside it.
Resolved(span) == span[1] # Unknown /\ span[2] # Unknown
Until(span) == IF span[2] < span[1] THEN span[2] + DayLength ELSE span[2]
Covers(rule, moment) ==
  IF rule.spans = {} THEN moment \in Moments
  ELSE IF \E span \in rule.spans : Resolved(span) /\ span[1] <= moment /\ moment <= Until(span)
  THEN TRUE
  ELSE IF \A span \in rule.spans : Resolved(span) THEN FALSE ELSE Unknown

\* The rules that hold on a day: from the last that starts afresh, with what is added to it.
Effective(rules, day) ==
  LET chosen == {i \in DOMAIN rules : day \in rules[i].days}
  IN  {i \in chosen : \A j \in chosen : j > i => rules[j].additional}

\* _state_on: a later rule that covers the moment decides it; one that may cover
\* it leaves the answer alone only if it says the same.
StateOn(rules, day, moment) ==
  LET state[n \in 0 .. Len(rules)] ==
        IF n = 0 THEN FALSE
        ELSE IF n \notin Effective(rules, day) THEN state[n - 1]
        ELSE CASE Covers(rules[n], moment) = TRUE -> rules[n].state
               [] Covers(rules[n], moment) = Unknown /\ state[n - 1] # rules[n].state -> Unknown
               [] OTHER -> state[n - 1]
  IN  state[Len(rules)]

\* read_hours: a part that goes on about the same days adds to the one before it.
SameDays(before, after) == before.days = after.days
ReadPart(rules, part) ==
  IF part = Unread THEN rules
  ELSE IF rules # <<>> /\ SameDays(Last(rules), Head(part)) /\ Head(part).spans # {}
  THEN rules \o <<[Head(part) EXCEPT !.additional = TRUE]>> \o Tail(part)
  ELSE rules \o part
RulesOf(parts) ==
  LET read[n \in 0 .. Len(parts)] == IF n = 0 THEN <<>> ELSE ReadPart(read[n - 1], parts[n])
  IN  read[Len(parts)]
ReadHours(parts) == [rules |-> RulesOf(parts), unread |-> \E i \in DOMAIN parts : parts[i] = Unread]

\* Hours.state: the day's own rules, and what the day before runs over into this one.
DayBefore(day) == (day + 6) % 7
StateUnlessUnread(hours, day, moment) ==   \* a bug: what was not read does not count
  LET today == StateOn(hours.rules, day, moment)
      spill == StateOn(hours.rules, DayBefore(day), moment + DayLength)
  IN  IF TRUE \in {today, spill} THEN TRUE
      ELSE IF Unknown \in {today, spill} THEN Unknown ELSE FALSE
State(hours, day, moment) ==
  LET today == StateOn(hours.rules, day, moment)
      spill == StateOn(hours.rules, DayBefore(day), moment + DayLength)
  IN  IF TRUE \in {today, spill} THEN TRUE
      ELSE IF Unknown \in {today, spill} \/ hours.unread THEN Unknown ELSE FALSE

\* is_open: a place that says nothing of its hours is open.
IsOpen(parts, day, moment) == IF parts = <<>> THEN TRUE ELSE State(ReadHours(parts), day, moment)

\* next_open: the first of the moments a rule opens at that is after this one and reads
\* open, later the same day or at the next midnight; Unknown if there is none.
OpensAt(hours, day) ==
  UNION {IF rule.spans = {} THEN {0} ELSE {span[1] : span \in rule.spans} \ {Unknown} :
           rule \in {hours.rules[i] : i \in {j \in DOMAIN hours.rules :
                       hours.rules[j].state = TRUE /\ day \in hours.rules[j].days}}}
LaterToday(hours, day, moment) ==
  {m \in OpensAt(hours, day) : moment < m /\ m < DayLength /\ State(hours, day, m) = TRUE}
NextOpen(hours, day, moment) ==
  IF State(hours, day, moment) = TRUE THEN moment
  ELSE IF LaterToday(hours, day, moment) = {} THEN Unknown
  ELSE CHOOSE m \in LaterToday(hours, day, moment) : \A n \in LaterToday(hours, day, moment) : m <= n

-----------------------------------------------------------------------------
\* Every way that what is unknown of a rule could turn out.
Guesses(spans) ==
  {{<<IF s[1] = Unknown THEN m ELSE s[1], IF s[2] = Unknown THEN n ELSE s[2]>> : s \in spans} :
     m \in Moments, n \in Moments}
Fillings(rule) ==
  {[days |-> rule.days, spans |-> spans, state |-> state, additional |-> rule.additional] :
     spans \in Guesses(rule.spans), state \in IF rule.state = Unknown THEN BOOLEAN ELSE {rule.state}}
FilledRules(rules) == {filled \in [DOMAIN rules -> UNION {Fillings(rules[i]) : i \in DOMAIN rules}] :
                         \A i \in DOMAIN rules : filled[i] \in Fillings(rules[i])}

\* A place is called closed only if it is closed however the unknown parts of its
\* hours turn out, and never if a part was not read (ADR 0046 section 5).
ClosedForCertain(parts, day, moment) ==
  IsOpen(parts, day, moment) = FALSE =>
    /\ \A i \in DOMAIN parts : parts[i] # Unread
    /\ \A rules \in FilledRules(ReadHours(parts).rules) :
         State([rules |-> rules, unread |-> FALSE], day, moment) = FALSE
=============================================================================
