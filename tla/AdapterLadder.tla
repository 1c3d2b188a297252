---------------------------- MODULE AdapterLadder ----------------------------
(***************************************************************************)
(* adapters/registry.py: who is asked about a line, of one kind and for    *)
(* one day.  A plan keeps one registry, and asks it about every candidate  *)
(* line.  An adapter claims ids of jurisdictions; the adapters that claim  *)
(* an id, of one facet, are a ladder, climbed tier by tier until a rung    *)
(* answers.  What was asked once is remembered, and a ceiling bounds what  *)
(* a plan may ask.  What no ladder answers goes to an extraction.          *)
(***************************************************************************)
EXTENDS Integers, FiniteSets, Sequences

CONSTANTS
  Adapters,        \* a range of numbers, in the order of their names
  TierOf, Claims, FacetOf, \* of an adapter: 1 to 4, the ids it claims, its ladder
  Complete,        \* the adapters whose answer ends a ladder
  Keyless,         \* those that need a credential which is not set
  ScopeOf,         \* what an answer depends on: "feed", "jurisdictions" or "polygon"
  Jurisdictions, Ids, \* and the ids each answers to: its own, and those it lies within
  Lines, Crosses, Bounds, \* of a line: the jurisdictions in order, the corridor's extent
  Live,            \* whether the extractor goes to the network
  MaxJurisdictions, MaxFetches,
  MaxLines         \* a bound: how many lines a plan asks about

Tiers == 1 .. 4
None == "none"

ASSUME RegistryAssumption ==
  /\ TierOf \in [Adapters -> Tiers]
  /\ None \notin Lines /\ Crosses \in [Lines -> Seq(Jurisdictions)]
  /\ Live \in BOOLEAN /\ MaxFetches \in Nat

VARIABLES
  line,       \* the line being asked about, or None
  tier,       \* the tier being climbed, and 5 when every ladder is done
  results,    \* AdapterRegistry._climb: what each adapter asked said
  climbing,   \* the ladders that are still open, each with its jurisdiction
  answers,    \* the jurisdictions answered so far
  memo, extracted, fetches,  \* _memo, _extracted_memo and _fetches, for the whole plan
  late,       \* whether the plan's deadline has passed
  history     \* every line asked about, with its answers

vars == <<line, tier, results, climbing, answers, memo, extracted, fetches, late, history>>

NoMap == [x \in {} |-> None]
With(map, key, value) == [k \in DOMAIN map \cup {key} |-> IF k = key THEN value ELSE map[k]]

\* fetch: the first of them are considered, and the rest answered with a reason.
Considered(l) == {Crosses[l][i] : i \in {k \in DOMAIN Crosses[l] : k <= MaxJurisdictions}}
Dropped(l) == {Crosses[l][i] : i \in DOMAIN Crosses[l]} \ Considered(l)

\* _ladders: one for each id a jurisdiction answers to and each facet.
Ladders(j) ==
  {{a \in Adapters : id \in Claims[a] /\ FacetOf[a] = facet} :
     id \in Ids[j], facet \in {FacetOf[a] : a \in Adapters}} \ {{}}
Open(l) == UNION {{j} \X Ladders(j) : j \in Considered(l)}

\* The adapters of a tier that are on an open ladder, with whom each is asked for.
Wanted == {a \in Adapters : TierOf[a] = tier /\ a \notin DOMAIN results /\ \E p \in climbing : a \in p[2]}
Covered(a) == {p[1] : p \in {q \in climbing : a \in q[2]}}
\* Whoever covers the most is asked first, and then by name.
First(a) ==
  \A b \in Wanted : \/ Cardinality(Covered(a)) > Cardinality(Covered(b))
                    \/ Cardinality(Covered(a)) = Cardinality(Covered(b)) /\ a <= b

\* _memo_key: what an answer depends on.
MemoKey(a) ==
  CASE ScopeOf[a] = "feed" -> <<a, None>>
    [] ScopeOf[a] = "jurisdictions" -> <<a, Covered(a)>>
    [] OTHER -> <<a, Bounds[line]>>

\* _outcome: an answer the deadline kept from being asked for reads as the ceiling.
Outcome(said) == IF said = "deadline" THEN "ceiling" ELSE said
Says == {"answered", "failed"} \cup (IF late THEN {"deadline"} ELSE {})
Replays == {"skipped", "answered", "failed"}   \* nothing recorded, or what is, or what fails to read
AtCeilingLate == fetches > MaxFetches   \* a bug: off by one
AtCeiling == fetches >= MaxFetches

\* _ask: a question that was asked is not asked again; one without its credential may only
\* be answered from what was recorded, and costs nothing; one over the ceiling is not asked,
\* nor remembered.
RememberAnswers(a, said) ==   \* a bug: a failure is forgotten, and asked for again
  memo' = IF said = "answered" THEN With(memo, MemoKey(a), said) ELSE memo
Remember(a, said) == memo' = With(memo, MemoKey(a), said)
Heard(a, said) == results' = With(results, a, Outcome(said))
AskAgain(a) == /\ MemoKey(a) \in DOMAIN memo
               /\ Heard(a, memo[MemoKey(a)])
               /\ UNCHANGED <<memo, fetches>>
AskKeyless(a) == /\ MemoKey(a) \notin DOMAIN memo /\ a \in Keyless
                 /\ \E said \in Replays : Heard(a, said) /\ Remember(a, said)
                 /\ UNCHANGED fetches
AskOver(a) == /\ MemoKey(a) \notin DOMAIN memo /\ a \notin Keyless /\ AtCeiling
              /\ Heard(a, "ceiling")
              /\ UNCHANGED <<memo, fetches>>
AskNow(a) == /\ MemoKey(a) \notin DOMAIN memo /\ a \notin Keyless /\ ~AtCeiling
             /\ \E said \in Says : Heard(a, said) /\ Remember(a, said)
             /\ fetches' = fetches + 1

Ask ==
  /\ line # None
  /\ \E a \in Wanted : First(a) /\ (AskAgain(a) \/ AskKeyless(a) \/ AskOver(a) \/ AskNow(a))
  /\ UNCHANGED <<line, tier, climbing, answers, extracted, late, history>>

\* A ladder closes when a rung answered it in full or could not be asked, or when it ends.
Rung(ladder) == {a \in ladder : TierOf[a] = tier /\ a \in DOMAIN results}
ClosesAnswered(ladder) ==   \* a bug: a rung that could not be asked is taken for a failure
  \/ \E a \in Rung(ladder) : results[a] = "answered" /\ a \in Complete
  \/ \A a \in ladder : TierOf[a] <= tier
Closes(ladder) ==
  \/ \E a \in Rung(ladder) : results[a] = "answered" /\ a \in Complete
  \/ \E a \in Rung(ladder) : results[a] = "ceiling"
  \/ \A a \in ladder : TierOf[a] <= tier
NextTier ==
  /\ line # None /\ tier \in Tiers /\ Wanted = {}
  /\ tier' = tier + 1
  /\ climbing' = {p \in climbing : ~Closes(p[2])}
  /\ UNCHANGED <<line, results, answers, memo, extracted, fetches, late, history>>

\* _answer: what every rung said, whichever ladder it is on.
Asked(j) == {a \in UNION Ladders(j) : a \in DOMAIN results}
AnsweredBy(j) == {a \in Asked(j) : results[a] = "answered"}
Ceilinged(j) == \E a \in Asked(j) : results[a] = "ceiling"
Answer(checked, by, rungs) == [checked |-> checked, by |-> by, rungs |-> rungs, search |-> None]
Rungs(j) == [a \in Asked(j) |-> results[a]]
Unanswered == {j \in Considered(line) : j \notin DOMAIN answers}
InTurn(j) ==
  LET at(k) == CHOOSE i \in DOMAIN Crosses[line] : Crosses[line][i] = k
  IN  j \in Unanswered /\ \A k \in Unanswered : at(j) <= at(k)
Answers(j, answer) == answers' = With(answers, j, answer)

AnswerByRung(j) ==
  /\ AnsweredBy(j) # {}
  /\ Answers(j, Answer(TRUE, "ladder", Rungs(j)))
  /\ UNCHANGED <<extracted, fetches>>
AnswerCut(j) ==
  /\ AnsweredBy(j) = {} /\ Ceilinged(j)
  /\ Answers(j, Answer(FALSE, "ceiling", Rungs(j)))
  /\ UNCHANGED <<extracted, fetches>>
\* _extracted: remembered like a rung, unless the ceiling kept it from being tried.
Extracts(j, said) == Answers(j, [Answer(said = "answered", "extraction", Rungs(j)) EXCEPT !.search = Outcome(said)])
Extract(j) ==
  /\ AnsweredBy(j) = {} /\ ~Ceilinged(j)
  /\ \/ j \in DOMAIN extracted /\ Extracts(j, extracted[j]) /\ UNCHANGED <<extracted, fetches>>
     \/ j \notin DOMAIN extracted /\ Live /\ AtCeiling /\ Extracts(j, "ceiling") /\ UNCHANGED <<extracted, fetches>>
     \/ /\ j \notin DOMAIN extracted /\ ~(Live /\ AtCeiling)
        /\ \E said \in IF Live THEN Says ELSE {"failed"} :
             Extracts(j, said) /\ extracted' = With(extracted, j, said)
        /\ fetches' = IF Live THEN fetches + 1 ELSE fetches
GiveAnswer ==
  /\ line # None /\ tier \notin Tiers
  /\ \E j \in Unanswered : InTurn(j) /\ (AnswerByRung(j) \/ AnswerCut(j) \/ Extract(j))
  /\ UNCHANGED <<line, tier, results, climbing, memo, late, history>>

Begin(l) ==
  /\ line = None /\ Len(history) < MaxLines
  /\ line' = l /\ tier' = 1 /\ climbing' = Open(l)
  /\ results' = NoMap /\ answers' = NoMap
  /\ UNCHANGED <<memo, extracted, fetches, late, history>>
Finish ==
  /\ line # None /\ tier \notin Tiers /\ Unanswered = {}
  /\ history' = Append(history, [line |-> line, answers |->
       [j \in Considered(line) \cup Dropped(line) |->
          IF j \in Considered(line) THEN answers[j] ELSE Answer(FALSE, "dropped", NoMap)]])
  /\ line' = None /\ tier' = 1 /\ results' = NoMap /\ answers' = NoMap
  /\ UNCHANGED <<climbing, memo, extracted, fetches, late>>
Deadline == ~late /\ late' = TRUE
            /\ UNCHANGED <<line, tier, results, climbing, answers, memo, extracted, fetches, history>>

Init ==
  /\ line = None /\ tier = 1 /\ results = NoMap /\ climbing = {} /\ answers = NoMap
  /\ memo = NoMap /\ extracted = NoMap /\ fetches = 0 /\ late = FALSE /\ history = <<>>
Next == (\E l \in Lines : Begin(l)) \/ Ask \/ NextTier \/ GiveAnswer \/ Finish \/ Deadline
Spec == Init /\ [][Next]_vars

-----------------------------------------------------------------------------
Told == {history[i] : i \in DOMAIN history}

\* What a plan pays for is never over the ceiling, and each adapter and extraction that it
\* paid for is one question with one remembered answer: nothing is asked twice.
PaidOnce ==
  /\ fetches <= MaxFetches
  /\ fetches = Cardinality({k \in DOMAIN memo : k[1] \notin Keyless})
                 + (IF Live THEN Cardinality(DOMAIN extracted) ELSE 0)

\* Two candidates over the same ground are compared on the same word: a line that is asked
\* about twice in a plan is answered the same, whatever was asked in between.
SameGroundSameAnswer == \A t, u \in Told : t.line = u.line => t.answers = u.answers

\* A rung is climbed only by a ladder whose better rungs were all asked, and of which none
\* answered it in full or could not be asked - though its word then counts for every
\* jurisdiction that has the adapter on a ladder, one that ended sooner too; and a
\* jurisdiction goes to an extraction only if its every rung was asked and none answered
\* (scope 7.10: the ladder is climbed in order, and search comes last).
FellThrough(t, k, b) ==
  /\ b \in DOMAIN t.answers[k].rungs /\ t.answers[k].rungs[b] # "ceiling"
  /\ t.answers[k].rungs[b] = "answered" => b \notin Complete
BetterRungsFirst ==
  \A t \in Told : \A j \in DOMAIN t.answers :
    LET rungs == t.answers[j].rungs
    IN  /\ \A a \in DOMAIN rungs : \E k \in DOMAIN t.answers : \E ladder \in Ladders(k) :
             a \in ladder /\ \A b \in ladder : TierOf[b] < TierOf[a] => FellThrough(t, k, b)
        /\ t.answers[j].by = "extraction" =>
             \A a \in UNION Ladders(j) : a \in DOMAIN rungs /\ rungs[a] \in {"failed", "skipped"}
=============================================================================
