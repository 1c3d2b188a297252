------------------------- MODULE AdapterLadderProofs -------------------------
(***************************************************************************)
(* What a plan's questions cost and how they are answered, for any         *)
(* adapters, jurisdictions and lines.                                      *)
(*                                                                         *)
(* A climb remembers only what every adapter said (results).  The          *)
(* invariant says that the rest follows from it: which ladders are open at *)
(* a tier, who is asked there, and on whose behalf.  What an adapter said  *)
(* follows from the plan's memory, or it was over the ceiling, and then no *)
(* later question under the same key is asked.  So the same line is        *)
(* climbed the same way again.                                             *)
(***************************************************************************)
EXTENDS AdapterLadder, FiniteSetTheorems, SequenceTheorems, TLAPS

\* Closes, of the ladders of another climb: of results r, at tier n.
ClosesAt(r, ladder, n) ==
  \/ \E a \in ladder : /\ TierOf[a] = n /\ a \in DOMAIN r
                       /\ r[a] = "ceiling" \/ (r[a] = "answered" /\ a \in Complete)
  \/ \A a \in ladder : TierOf[a] <= n

\* The ladders of line l that are open at tier n, after results r.
OpenAt(l, r, n) == {p \in Open(l) : \A i \in Tiers : i < n => ~ClosesAt(r, p[2], i)}
Due(l, r, a) == \E p \in OpenAt(l, r, TierOf[a]) : a \in p[2]
KeyOf(l, r, a) ==
  CASE ScopeOf[a] = "feed" -> <<a, None>>
    [] ScopeOf[a] = "jurisdictions" -> <<a, {p[1] : p \in {q \in OpenAt(l, r, TierOf[a]) : a \in q[2]}}>>
    [] OTHER -> <<a, Bounds[l]>>

\* What a said is what the plan remembers of its question, or it was over the ceiling.
Word(l, r, a, m, paid) ==
  IF KeyOf(l, r, a) \in DOMAIN m THEN r[a] = Outcome(m[KeyOf(l, r, a)])
  ELSE r[a] = "ceiling" /\ a \notin Keyless /\ paid >= MaxFetches

\* Results r of line l, climbed up to tier n, and half of that tier perhaps.
Climbed(l, r, n, m, paid) ==
  /\ r = [a \in DOMAIN r |-> r[a]] /\ DOMAIN r \subseteq Adapters
  /\ \A a \in DOMAIN r : TierOf[a] <= n /\ Due(l, r, a) /\ Word(l, r, a, m, paid)
  /\ \A a \in Adapters : TierOf[a] < n /\ Due(l, r, a) => a \in DOMAIN r

\* What a jurisdiction is told follows from what was said, and from what was searched.
Of(r, j) == {a \in UNION Ladders(j) : a \in DOMAIN r}
RungsOf(r, j) == [a \in Of(r, j) |-> r[a]]
Searched(r, j, said) ==
  [Answer(said = "answered", "extraction", RungsOf(r, j)) EXCEPT !.search = Outcome(said)]
Tells(r, j, x, e, paid) ==
  IF \E a \in Of(r, j) : r[a] = "answered" THEN x = Answer(TRUE, "ladder", RungsOf(r, j))
  ELSE IF \E a \in Of(r, j) : r[a] = "ceiling" THEN x = Answer(FALSE, "ceiling", RungsOf(r, j))
  ELSE IF j \in DOMAIN e THEN x = Searched(r, j, e[j])
  ELSE x = Searched(r, j, "ceiling") /\ Live /\ paid >= MaxFetches

Entry(t, m, e, paid) ==
  /\ DOMAIN t.answers = Considered(t.line) \cup Dropped(t.line)
  /\ t.answers = [j \in DOMAIN t.answers |-> t.answers[j]]
  /\ \A j \in Dropped(t.line) : t.answers[j] = Answer(FALSE, "dropped", NoMap)
  /\ \E r : /\ Climbed(t.line, r, 5, m, paid)
            /\ \A j \in Considered(t.line) : Tells(r, j, t.answers[j], e, paid)

Paid ==
  /\ fetches \in 0 .. MaxFetches
  /\ IsFiniteSet(DOMAIN memo) /\ IsFiniteSet(DOMAIN extracted)
  /\ fetches = Cardinality({k \in DOMAIN memo : k[1] \notin Keyless})
                 + (IF Live THEN Cardinality(DOMAIN extracted) ELSE 0)

Climbing ==
  line # None =>
    /\ line \in Lines /\ tier \in 1 .. 5
    /\ climbing = OpenAt(line, results, tier)
    /\ Climbed(line, results, tier, memo, fetches)
    /\ tier \in Tiers => DOMAIN answers = {}
    /\ DOMAIN answers \subseteq Considered(line)
    /\ \A j \in DOMAIN answers : Tells(results, j, answers[j], extracted, fetches)

Histories == \A t \in Told : Entry(t, memo, extracted, fetches)

\* The history is a sequence.
Listed == \E S : history \in Seq(S)

\* What is remembered is something an adapter says.
Worded == \A k \in DOMAIN memo : memo[k] \in {"answered", "failed", "skipped", "deadline"}

Inv == Paid /\ Climbing /\ Histories /\ Listed /\ Worded

-----------------------------------------------------------------------------
\* An open ladder is one of a jurisdiction that is considered.
LEMMA OpenIs ==
  ASSUME NEW l
  PROVE  /\ \A p \in Open(l) : /\ p[1] \in Considered(l) /\ p[2] \in Ladders(p[1])
                               /\ p[2] \in SUBSET Adapters
         /\ \A j \in Considered(l) : \A ladder \in Ladders(j) :
              <<j, ladder>> \in Open(l) /\ <<j, ladder>>[1] = j /\ <<j, ladder>>[2] = ladder
<1>1. \A j : Ladders(j) \subseteq SUBSET Adapters
  BY DEF Ladders
<1> QED  BY <1>1 DEF Open

\* Two climbs that heard the same below tier n.
Upto(r, s, n) ==
  \A a \in Adapters : TierOf[a] < n =>
    /\ a \in DOMAIN r <=> a \in DOMAIN s
    /\ a \in DOMAIN r => r[a] = s[a]

\* They have the same ladders open, up to there.
LEMMA SameOpen ==
  ASSUME NEW l, NEW r, NEW s, NEW n \in 1 .. 5, Upto(r, s, n), NEW k \in 1 .. 5, k <= n
  PROVE  OpenAt(l, r, k) = OpenAt(l, s, k)
<1>1. ASSUME NEW p \in Open(l), NEW i \in Tiers, i < k
      PROVE  ClosesAt(r, p[2], i) <=> ClosesAt(s, p[2], i)
  <2>1. \A a \in p[2] : a \in Adapters
    BY OpenIs
  <2>2. i < n
    BY <1>1 DEF Tiers
  <2>3. \A a \in p[2] : TierOf[a] = i =>
          /\ a \in DOMAIN r <=> a \in DOMAIN s
          /\ a \in DOMAIN r => r[a] = s[a]
    BY <2>1, <2>2 DEF Upto
  <2> QED  BY <2>3 DEF ClosesAt
<1> QED  BY <1>1 DEF OpenAt

\* What was open at a tier was open before.
LEMMA OpenBefore ==
  ASSUME NEW l, NEW r, NEW n \in 1 .. 5, NEW k \in 1 .. 5, k <= n
  PROVE  OpenAt(l, r, n) \subseteq OpenAt(l, r, k)
BY DEF OpenAt, Tiers

\* So at tier n they ask the same adapters, the same questions.
LEMMA SameQuestions ==
  ASSUME NEW l, NEW r, NEW s, NEW n \in 1 .. 5, Upto(r, s, n), NEW a \in Adapters, TierOf[a] <= n
  PROVE  (Due(l, r, a) <=> Due(l, s, a)) /\ KeyOf(l, r, a) = KeyOf(l, s, a)
<1>1. TierOf[a] \in 1 .. 5
  BY RegistryAssumption DEF Tiers
<1>2. OpenAt(l, r, TierOf[a]) = OpenAt(l, s, TierOf[a])
  BY <1>1, SameOpen
<1> QED  BY <1>2 DEF Due, KeyOf

\* And from one memory they hear the same.
LEMMA SameTier ==
  ASSUME NEW l, NEW r, NEW s, NEW m, NEW paid, NEW n \in Tiers, Upto(r, s, n),
         Climbed(l, r, 5, m, paid), Climbed(l, s, 5, m, paid)
  PROVE  Upto(r, s, n + 1)
<1> SUFFICES ASSUME NEW a \in Adapters, TierOf[a] < n + 1
             PROVE  /\ a \in DOMAIN r <=> a \in DOMAIN s
                    /\ a \in DOMAIN r => r[a] = s[a]
  BY DEF Upto
<1>1. TierOf[a] \in Tiers
  BY RegistryAssumption
<1>2. TierOf[a] < 5 /\ TierOf[a] <= n /\ n \in 1 .. 5
  BY <1>1 DEF Tiers
<1>3. (Due(l, r, a) <=> Due(l, s, a)) /\ KeyOf(l, r, a) = KeyOf(l, s, a)
  BY <1>2, SameQuestions
<1>4. (a \in DOMAIN r <=> Due(l, r, a)) /\ (a \in DOMAIN s <=> Due(l, s, a))
  BY <1>2 DEF Climbed
<1>5. a \in DOMAIN r => Word(l, r, a, m, paid) /\ Word(l, s, a, m, paid)
  BY <1>3, <1>4 DEF Climbed
<1> QED  BY <1>3, <1>4, <1>5 DEF Word

\* So a line is climbed in one way.
LEMMA OneClimb ==
  ASSUME NEW l, NEW r, NEW s, NEW m, NEW paid,
         Climbed(l, r, 5, m, paid), Climbed(l, s, 5, m, paid)
  PROVE  r = s
<1>1. Upto(r, s, 1)
  BY RegistryAssumption DEF Upto, Tiers
<1>2. Upto(r, s, 2)
  BY <1>1, SameTier DEF Tiers
<1>3. Upto(r, s, 3)
  BY <1>2, SameTier DEF Tiers
<1>4. Upto(r, s, 4)
  BY <1>3, SameTier DEF Tiers
<1>5. Upto(r, s, 5)
  BY <1>4, SameTier DEF Tiers
<1>6. \A a \in Adapters : TierOf[a] < 5
  BY RegistryAssumption DEF Tiers
<1>7. DOMAIN r = DOMAIN s /\ \A a \in DOMAIN r : r[a] = s[a]
  BY <1>5, <1>6 DEF Upto, Climbed
<1>8. r = [a \in DOMAIN r |-> r[a]] /\ s = [a \in DOMAIN s |-> s[a]]
  BY DEF Climbed
<1> QED  BY <1>7, <1>8

-----------------------------------------------------------------------------
(***************************************************************************)
(* What is remembered stays, and past the ceiling only a question that     *)
(* costs nothing is remembered anew.                                       *)
(***************************************************************************)
Remembers(m, paid, mm, now) ==
  /\ paid \in Nat /\ now \in Nat /\ paid <= now
  /\ \A k \in DOMAIN m : k \in DOMAIN mm /\ mm[k] = m[k]
  /\ \A k \in DOMAIN mm : k \in DOMAIN m \/ k[1] \in Keyless \/ paid < MaxFetches
Keeps(e, paid, ee, now) ==
  /\ paid \in Nat /\ now \in Nat /\ paid <= now
  /\ \A j \in DOMAIN e : j \in DOMAIN ee /\ ee[j] = e[j]
  /\ \A j \in DOMAIN ee : j \in DOMAIN e \/ ~Live \/ paid < MaxFetches

LEMMA KeyNames ==
  ASSUME NEW l, NEW r, NEW a
  PROVE  KeyOf(l, r, a)[1] = a
BY DEF KeyOf

LEMMA ClimbedStays ==
  ASSUME NEW l, NEW r, NEW n, NEW m, NEW paid, NEW mm, NEW now,
         Climbed(l, r, n, m, paid), Remembers(m, paid, mm, now)
  PROVE  Climbed(l, r, n, mm, now)
<1>1. ASSUME NEW a \in DOMAIN r  PROVE Word(l, r, a, mm, now)
  <2>1. Word(l, r, a, m, paid) /\ MaxFetches \in Nat
    BY RegistryAssumption DEF Climbed
  <2>2. CASE KeyOf(l, r, a) \in DOMAIN m
    BY <2>1, <2>2 DEF Word, Remembers
  <2>3. CASE KeyOf(l, r, a) \notin DOMAIN m
    <3>1. r[a] = "ceiling" /\ a \notin Keyless /\ paid >= MaxFetches
      BY <2>1, <2>3 DEF Word
    <3>2. KeyOf(l, r, a) \notin DOMAIN mm
      BY <2>1, <2>3, <3>1, KeyNames DEF Remembers
    <3> QED  BY <2>1, <3>1, <3>2 DEF Word, Remembers
  <2> QED  BY <2>2, <2>3
<1> QED  BY <1>1 DEF Climbed

LEMMA TellsStays ==
  ASSUME NEW r, NEW j, NEW x, NEW e, NEW paid, NEW ee, NEW now,
         Tells(r, j, x, e, paid), Keeps(e, paid, ee, now)
  PROVE  Tells(r, j, x, ee, now)
<1>1. MaxFetches \in Nat
  BY RegistryAssumption
<1>2. CASE \E a \in Of(r, j) : r[a] = "answered" \/ r[a] = "ceiling"
  BY <1>2 DEF Tells
<1>3. CASE ~(\E a \in Of(r, j) : r[a] = "answered" \/ r[a] = "ceiling") /\ j \in DOMAIN e
  BY <1>3 DEF Tells, Keeps
<1>4. CASE ~(\E a \in Of(r, j) : r[a] = "answered" \/ r[a] = "ceiling") /\ j \notin DOMAIN e
  <2>1. x = Searched(r, j, "ceiling") /\ Live /\ paid >= MaxFetches
    BY <1>4 DEF Tells
  <2>2. j \notin DOMAIN ee /\ now >= MaxFetches
    BY <1>1, <1>4, <2>1 DEF Keeps
  <2> QED  BY <1>4, <2>1, <2>2 DEF Tells
<1> QED  BY <1>2, <1>3, <1>4

LEMMA EntryStays ==
  ASSUME NEW t, NEW m, NEW e, NEW paid, NEW mm, NEW ee, NEW now,
         Entry(t, m, e, paid), Remembers(m, paid, mm, now), Keeps(e, paid, ee, now)
  PROVE  Entry(t, mm, ee, now)
<1>1. PICK r : /\ Climbed(t.line, r, 5, m, paid)
               /\ \A j \in Considered(t.line) : Tells(r, j, t.answers[j], e, paid)
  BY DEF Entry
<1>2. Climbed(t.line, r, 5, mm, now)
  BY <1>1, ClimbedStays
<1>3. \A j \in Considered(t.line) : Tells(r, j, t.answers[j], ee, now)
  BY <1>1, TellsStays
<1> QED  BY <1>2, <1>3 DEF Entry

\* Told the same, of the same.
LEMMA TellsOnce ==
  ASSUME NEW r, NEW j, NEW x, NEW y, NEW e, NEW paid,
         Tells(r, j, x, e, paid), Tells(r, j, y, e, paid)
  PROVE  x = y
<1>1. CASE \E a \in Of(r, j) : r[a] = "answered"
  BY <1>1 DEF Tells
<1>2. CASE ~(\E a \in Of(r, j) : r[a] = "answered") /\ \E a \in Of(r, j) : r[a] = "ceiling"
  BY <1>2 DEF Tells
<1>3. CASE /\ ~(\E a \in Of(r, j) : r[a] = "answered") /\ ~(\E a \in Of(r, j) : r[a] = "ceiling")
           /\ j \in DOMAIN e
  BY <1>3 DEF Tells
<1>4. CASE /\ ~(\E a \in Of(r, j) : r[a] = "answered") /\ ~(\E a \in Of(r, j) : r[a] = "ceiling")
           /\ j \notin DOMAIN e
  <2>1. x = Searched(r, j, "ceiling")
    BY <1>4 DEF Tells
  <2>2. y = Searched(r, j, "ceiling")
    BY <1>4 DEF Tells
  <2> QED  BY <2>1, <2>2
<1> QED  BY <1>1, <1>2, <1>3, <1>4

-----------------------------------------------------------------------------
\* Nothing is forgotten when nothing changes, or when something is added before the ceiling.
LEMMA NothingNew ==
  ASSUME fetches \in Nat
  PROVE  Remembers(memo, fetches, memo, fetches) /\ Keeps(extracted, fetches, extracted, fetches)
BY DEF Remembers, Keeps

LEMMA OneMore ==
  ASSUME NEW map, NEW key, NEW value, key \notin DOMAIN map, NEW paid \in Nat, NEW now \in Nat,
         paid <= now
  PROVE  /\ key[1] \in Keyless \/ paid < MaxFetches => Remembers(map, paid, With(map, key, value), now)
         /\ ~Live \/ paid < MaxFetches => Keeps(map, paid, With(map, key, value), now)
BY DEF Remembers, Keeps, With

\* What was told stays told, whatever is asked and searched after it.
LEMMA HistoriesStay ==
  ASSUME Histories, UNCHANGED history,
         Remembers(memo, fetches, memo', fetches'), Keeps(extracted, fetches, extracted', fetches')
  PROVE  Histories'
<1>1. Told' = Told
  BY DEF Told
<1> QED  BY <1>1, EntryStays DEF Histories

\* The key of a question is the one of this climb.
LEMMA KeyOfThisClimb ==
  ASSUME line # None, climbing = OpenAt(line, results, tier), NEW a, TierOf[a] = tier
  PROVE  MemoKey(a) = KeyOf(line, results, a)
BY DEF MemoKey, KeyOf, Covered

\* One rung more is heard, and its word is what is remembered or the ceiling.
LEMMA HeardClimbs ==
  ASSUME Climbing, line # None, NEW a \in Wanted, NEW word,
         results' = With(results, a, word),
         Remembers(memo, fetches, memo', fetches'),
         IF MemoKey(a) \in DOMAIN memo' THEN word = Outcome(memo'[MemoKey(a)])
         ELSE word = "ceiling" /\ a \notin Keyless /\ fetches' >= MaxFetches
  PROVE  /\ tier \in Tiers
         /\ climbing = OpenAt(line, results', tier)
         /\ Climbed(line, results', tier, memo', fetches')
<1>1. /\ a \in Adapters /\ TierOf[a] = tier /\ a \notin DOMAIN results
      /\ \E p \in climbing : a \in p[2]
  BY DEF Wanted
<1>2. tier \in Tiers /\ tier \in 1 .. 5
  BY <1>1, RegistryAssumption DEF Tiers
<1>3. climbing = OpenAt(line, results, tier) /\ Climbed(line, results, tier, memo, fetches)
  BY DEF Climbing
<1>4. /\ DOMAIN results' = DOMAIN results \cup {a} /\ results'[a] = word
      /\ \A b \in DOMAIN results : results'[b] = results[b]
  BY <1>1 DEF With
<1>12. results' = [b \in DOMAIN results' |-> results'[b]]
  BY DEF With
<1>5. Upto(results, results', tier)
  BY <1>1, <1>2, <1>4 DEF Upto, Tiers
<1>6. climbing = OpenAt(line, results', tier)
  BY <1>2, <1>3, <1>5, SameOpen DEF Tiers
<1>7. \A b \in Adapters : TierOf[b] <= tier =>
        (Due(line, results, b) <=> Due(line, results', b)) /\ KeyOf(line, results, b) = KeyOf(line, results', b)
  BY <1>2, <1>5, SameQuestions
<1>8. Climbed(line, results, tier, memo', fetches')
  BY <1>3, ClimbedStays
<1>9. ASSUME NEW b \in DOMAIN results'
      PROVE  /\ b \in Adapters /\ TierOf[b] <= tier /\ Due(line, results', b)
             /\ Word(line, results', b, memo', fetches')
  <2>1. CASE b \in DOMAIN results
    BY <1>4, <1>7, <1>8, <2>1 DEF Climbed, Word
  <2>2. CASE b = a
    <3>1. MemoKey(a) = KeyOf(line, results', a)
      BY <1>1, <1>2, <1>3, <1>7, KeyOfThisClimb DEF Tiers
    <3>2. Due(line, results', a)
      BY <1>1, <1>6 DEF Due
    <3> QED  BY <1>1, <1>2, <1>4, <2>2, <3>1, <3>2 DEF Word, Tiers
  <2> QED  BY <1>4, <2>1, <2>2
<1>10. ASSUME NEW b \in Adapters, TierOf[b] < tier, Due(line, results', b)
       PROVE  b \in DOMAIN results'
  BY <1>2, <1>4, <1>7, <1>8, <1>10, RegistryAssumption DEF Climbed, Tiers
<1>11. Climbed(line, results', tier, memo', fetches')
  BY <1>4, <1>9, <1>10, <1>12 DEF Climbed
<1> QED  BY <1>2, <1>6, <1>11

\* A question that was answered is one more that is paid for, and one that could not be
\* asked is none.
LEMMA PaidMore ==
  ASSUME Paid, NEW key, key \notin DOMAIN memo, NEW value, memo' = With(memo, key, value),
         UNCHANGED extracted,
         IF key[1] \in Keyless THEN UNCHANGED fetches ELSE ~AtCeiling /\ fetches' = fetches + 1
  PROVE  Paid'
<1> DEFINE counted(m) == {k \in m : k[1] \notin Keyless}
<1>1. DOMAIN memo' = DOMAIN memo \cup {key} /\ IsFiniteSet(DOMAIN memo')
  <2>1. DOMAIN memo' = DOMAIN memo \cup {key}
    BY DEF With
  <2> QED  BY <2>1, FS_AddElement DEF Paid
<1>2. fetches' \in 0 .. MaxFetches
  BY RegistryAssumption DEF Paid, AtCeiling
<1>3. IsFiniteSet(counted(DOMAIN memo)) /\ Cardinality(counted(DOMAIN memo)) \in Nat
  BY FS_Subset, FS_CardinalityType DEF Paid
<1>4. Cardinality(DOMAIN extracted) \in Nat
  BY FS_CardinalityType DEF Paid
<1>5. CASE key[1] \in Keyless
  <2>1. counted(DOMAIN memo') = counted(DOMAIN memo)
    BY <1>1, <1>5
  <2> QED  BY <1>1, <1>2, <1>5, <2>1 DEF Paid
<1>6. CASE key[1] \notin Keyless
  <2>1. counted(DOMAIN memo') = counted(DOMAIN memo) \cup {key} /\ key \notin counted(DOMAIN memo)
    BY <1>1, <1>6
  <2>2. Cardinality(counted(DOMAIN memo')) = Cardinality(counted(DOMAIN memo)) + 1
    BY <1>3, <2>1, FS_AddElement
  <2> QED  BY <1>1, <1>2, <1>3, <1>4, <1>6, <2>2 DEF Paid
<1> QED  BY <1>5, <1>6

\* Ask: the word of the rung, and the price of it.
LEMMA AskKeeps == ASSUME Inv, Ask PROVE Inv'
<1>1. PICK a \in Wanted : AskAgain(a) \/ AskKeyless(a) \/ AskOver(a) \/ AskNow(a)
  BY DEF Ask
<1>2. line # None /\ UNCHANGED <<line, tier, climbing, answers, extracted, late, history>>
  BY DEF Ask
<1>3. fetches \in Nat /\ MaxFetches \in Nat
  BY RegistryAssumption DEF Inv, Paid
<1>4. MemoKey(a)[1] = a
  BY DEF MemoKey
<1>5. Remembers(memo, fetches, memo, fetches)
  BY <1>3, NothingNew
<1>6. /\ Remembers(memo, fetches, memo', fetches') /\ Paid'
      /\ \E word : /\ results' = With(results, a, word)
                   /\ IF MemoKey(a) \in DOMAIN memo' THEN word = Outcome(memo'[MemoKey(a)])
                      ELSE word = "ceiling" /\ a \notin Keyless /\ fetches' >= MaxFetches
  <2>1. CASE AskAgain(a)
    <3>1. /\ UNCHANGED <<memo, fetches>> /\ MemoKey(a) \in DOMAIN memo
          /\ results' = With(results, a, Outcome(memo[MemoKey(a)]))
      BY <2>1 DEF AskAgain, Heard
    <3> QED  BY <1>2, <1>5, <3>1 DEF Inv, Paid
  <2>2. CASE AskOver(a)
    <3>1. UNCHANGED <<memo, fetches>> /\ MemoKey(a) \notin DOMAIN memo
          /\ a \notin Keyless /\ fetches >= MaxFetches /\ results' = With(results, a, "ceiling")
      BY <2>2 DEF AskOver, Heard, AtCeiling, Outcome
    <3> QED  BY <1>2, <1>5, <3>1 DEF Inv, Paid
  <2>3. CASE AskKeyless(a)
    <3>1. PICK said : memo' = With(memo, MemoKey(a), said) /\ results' = With(results, a, Outcome(said))
      BY <2>3 DEF AskKeyless, Heard, Remember
    <3>2. MemoKey(a) \notin DOMAIN memo /\ a \in Keyless /\ UNCHANGED fetches
      BY <2>3 DEF AskKeyless
    <3>3. Remembers(memo, fetches, memo', fetches')
      BY <1>3, <1>4, <3>1, <3>2, OneMore
    <3>4. Paid'
      BY <1>2, <1>4, <3>1, <3>2, PaidMore DEF Inv
    <3> QED  BY <3>1, <3>3, <3>4 DEF With
  <2>4. CASE AskNow(a)
    <3>1. PICK said : memo' = With(memo, MemoKey(a), said) /\ results' = With(results, a, Outcome(said))
      BY <2>4 DEF AskNow, Heard, Remember
    <3>2. MemoKey(a) \notin DOMAIN memo /\ a \notin Keyless /\ ~AtCeiling /\ fetches' = fetches + 1
      BY <2>4 DEF AskNow
    <3>3. Remembers(memo, fetches, memo', fetches')
      BY <1>3, <3>1, <3>2, OneMore DEF AtCeiling
    <3>4. Paid'
      BY <1>2, <1>4, <3>1, <3>2, PaidMore DEF Inv
    <3> QED  BY <3>1, <3>3, <3>4 DEF With
  <2> QED  BY <1>1, <2>1, <2>2, <2>3, <2>4
<1>7. /\ tier \in Tiers /\ climbing = OpenAt(line, results', tier)
      /\ Climbed(line, results', tier, memo', fetches')
  BY <1>2, <1>6, HeardClimbs DEF Inv
<1>8. Climbing'
  BY <1>2, <1>7 DEF Inv, Climbing
<1>9. Keeps(extracted, fetches, extracted', fetches')
  BY <1>2, <1>6 DEF Remembers, Keeps
<1>10. Worded'
  <2>1. PICK said \in {"answered", "failed", "skipped", "deadline"} :
          memo' = memo \/ memo' = With(memo, MemoKey(a), said)
    BY <1>1 DEF AskAgain, AskKeyless, AskOver, AskNow, Remember, Says, Replays
  <2> QED  BY <2>1 DEF Inv, Worded, With
<1> QED  BY <1>2, <1>6, <1>8, <1>9, <1>10, HistoriesStay DEF Inv, Listed

\* NextTier: the ladders that do not end at this tier are those open at the next, and who
\* was due was asked.
LEMMA NextTierKeeps == ASSUME Inv, NextTier PROVE Inv'
<1>1. /\ line # None /\ tier \in Tiers /\ Wanted = {} /\ tier' = tier + 1
      /\ climbing' = {p \in climbing : ~Closes(p[2])}
      /\ UNCHANGED <<line, results, answers, memo, extracted, fetches, late, history>>
  BY DEF NextTier
<1>2. climbing = OpenAt(line, results, tier) /\ Climbed(line, results, tier, memo, fetches)
  BY <1>1 DEF Inv, Climbing
<1>3. \A ladder : Closes(ladder) <=> ClosesAt(results, ladder, tier)
  BY DEF Closes, ClosesAt, Rung
<1>4. tier \in Nat /\ tier + 1 \in 1 .. 5 /\ \A i \in Tiers : i < tier + 1 <=> i < tier \/ i = tier
  BY <1>1 DEF Tiers
<1>5. climbing' = OpenAt(line, results, tier + 1)
  BY <1>1, <1>2, <1>3, <1>4 DEF OpenAt
<1>6. ASSUME NEW a \in Adapters, TierOf[a] < tier + 1, Due(line, results, a)
      PROVE  a \in DOMAIN results
  <2>1. TierOf[a] \in Tiers
    BY RegistryAssumption
  <2>2. CASE TierOf[a] < tier
    BY <1>2, <1>6, <2>2 DEF Climbed
  <2>3. CASE TierOf[a] = tier
    BY <1>1, <1>2, <1>6, <2>3 DEF Due, Wanted
  <2> QED  BY <1>4, <1>6, <2>1, <2>2, <2>3
<1>7. \A a \in DOMAIN results : TierOf[a] <= tier + 1
  <2>1. \A a \in DOMAIN results : a \in Adapters /\ TierOf[a] <= tier
    BY <1>2 DEF Climbed
  <2> QED  BY <1>4, <2>1, RegistryAssumption DEF Tiers
<1>8. Climbed(line, results, tier + 1, memo, fetches)
  BY <1>2, <1>6, <1>7 DEF Climbed
<1>9. Climbing'
  BY <1>1, <1>4, <1>5, <1>8 DEF Inv, Climbing
<1>10. Histories'
  BY <1>1, NothingNew, HistoriesStay DEF Inv, Paid
<1> QED  BY <1>1, <1>9, <1>10 DEF Inv, Paid, Listed, Worded

\* What a jurisdiction is answered follows from what was said.
LEMMA AnswersTell ==
  ASSUME NEW j, AnswerByRung(j) \/ AnswerCut(j) \/ Extract(j), Paid
  PROVE  /\ \E x : answers' = With(answers, j, x) /\ Tells(results, j, x, extracted', fetches')
         /\ Keeps(extracted, fetches, extracted', fetches')
         /\ fetches' \in 0 .. MaxFetches /\ IsFiniteSet(DOMAIN extracted')
         /\ fetches' - fetches = IF Live THEN Cardinality(DOMAIN extracted') - Cardinality(DOMAIN extracted) ELSE 0
         /\ fetches <= fetches'
<1>1. Asked(j) = Of(results, j) /\ Rungs(j) = RungsOf(results, j)
  BY DEF Asked, Of, Rungs, RungsOf
<1>2. /\ AnsweredBy(j) # {} <=> \E a \in Of(results, j) : results[a] = "answered"
      /\ Ceilinged(j) <=> \E a \in Of(results, j) : results[a] = "ceiling"
  BY <1>1 DEF AnsweredBy, Ceilinged
<1>3. \A said : Extracts(j, said) => answers' = With(answers, j, Searched(results, j, said))
  BY <1>1 DEF Extracts, Answers, Searched
<1>4. /\ fetches \in Nat /\ MaxFetches \in Nat /\ fetches <= MaxFetches
      /\ IsFiniteSet(DOMAIN extracted) /\ Cardinality(DOMAIN extracted) \in Nat
  BY RegistryAssumption, FS_CardinalityType DEF Paid
<1>5. Keeps(extracted, fetches, extracted, fetches)
  BY <1>4, NothingNew
<1>9. ASSUME UNCHANGED <<extracted, fetches>>
      PROVE  /\ Keeps(extracted, fetches, extracted', fetches')
             /\ fetches' \in 0 .. MaxFetches /\ IsFiniteSet(DOMAIN extracted')
             /\ fetches' - fetches =
                  IF Live THEN Cardinality(DOMAIN extracted') - Cardinality(DOMAIN extracted) ELSE 0
             /\ fetches <= fetches'
  <2>1. extracted' = extracted /\ fetches' = fetches
    BY <1>9
  <2>2. Cardinality(DOMAIN extracted') = Cardinality(DOMAIN extracted)
    BY <2>1
  <2>3. Keeps(extracted, fetches, extracted', fetches')
    BY <1>5, <2>1
  <2> QED  BY <1>4, <2>1, <2>2, <2>3
<1>6. CASE AnswerByRung(j)
  <2>1. /\ answers' = With(answers, j, Answer(TRUE, "ladder", RungsOf(results, j)))
        /\ UNCHANGED <<extracted, fetches>> /\ AnsweredBy(j) # {}
    BY <1>1, <1>6 DEF AnswerByRung, Answers
  <2>2. Tells(results, j, Answer(TRUE, "ladder", RungsOf(results, j)), extracted', fetches')
    BY <1>2, <2>1 DEF Tells
  <2> QED  BY <1>9, <2>1, <2>2
<1>7. CASE AnswerCut(j)
  <2>1. /\ answers' = With(answers, j, Answer(FALSE, "ceiling", RungsOf(results, j)))
        /\ UNCHANGED <<extracted, fetches>> /\ AnsweredBy(j) = {} /\ Ceilinged(j)
    BY <1>1, <1>7 DEF AnswerCut, Answers
  <2>2. Tells(results, j, Answer(FALSE, "ceiling", RungsOf(results, j)), extracted', fetches')
    BY <1>2, <2>1 DEF Tells
  <2> QED  BY <1>9, <2>1, <2>2
<1>8. CASE Extract(j)
  <2>1. ~(\E a \in Of(results, j) : results[a] = "answered")
        /\ ~(\E a \in Of(results, j) : results[a] = "ceiling")
    BY <1>2, <1>8 DEF Extract
  <2>2. CASE j \in DOMAIN extracted /\ Extracts(j, extracted[j]) /\ UNCHANGED <<extracted, fetches>>
    <3>1. Tells(results, j, Searched(results, j, extracted[j]), extracted', fetches')
      BY <2>1, <2>2 DEF Tells
    <3> QED  BY <1>3, <1>9, <2>2, <3>1
  <2>3. CASE /\ j \notin DOMAIN extracted /\ Live /\ AtCeiling /\ Extracts(j, "ceiling")
             /\ UNCHANGED <<extracted, fetches>>
    <3>1. Tells(results, j, Searched(results, j, "ceiling"), extracted', fetches')
      BY <2>1, <2>3 DEF Tells, AtCeiling
    <3> QED  BY <1>3, <1>9, <2>3, <3>1
  <2>4. ASSUME j \notin DOMAIN extracted, ~(Live /\ AtCeiling), NEW said,
               Extracts(j, said), extracted' = With(extracted, j, said),
               fetches' = IF Live THEN fetches + 1 ELSE fetches
        PROVE  /\ \E x : answers' = With(answers, j, x) /\ Tells(results, j, x, extracted', fetches')
               /\ Keeps(extracted, fetches, extracted', fetches')
               /\ fetches' \in 0 .. MaxFetches /\ IsFiniteSet(DOMAIN extracted')
               /\ fetches' - fetches =
                    IF Live THEN Cardinality(DOMAIN extracted') - Cardinality(DOMAIN extracted) ELSE 0
               /\ fetches <= fetches'
    <3>1. j \in DOMAIN extracted' /\ extracted'[j] = said /\ DOMAIN extracted' = DOMAIN extracted \cup {j}
      BY <2>4 DEF With
    <3>2. Tells(results, j, Searched(results, j, said), extracted', fetches')
      BY <2>1, <3>1 DEF Tells
    <3>3. fetches' \in Nat /\ fetches <= fetches' /\ fetches' <= MaxFetches
      BY <1>4, <2>4 DEF AtCeiling
    <3>4. Keeps(extracted, fetches, extracted', fetches')
      BY <1>4, <2>4, <3>3, OneMore DEF AtCeiling
    <3>5. IsFiniteSet(DOMAIN extracted') /\ Cardinality(DOMAIN extracted') = Cardinality(DOMAIN extracted) + 1
      BY <1>4, <2>4, <3>1, FS_AddElement
    <3> QED  BY <1>3, <1>4, <2>4, <3>2, <3>3, <3>4, <3>5
  <2> QED  BY <1>8, <2>2, <2>3, <2>4 DEF Extract
<1> QED  BY <1>6, <1>7, <1>8

LEMMA Carried ==
  ASSUME NEW total \in Nat, NEW now \in Nat, NEW paid \in Nat, NEW before \in Nat, NEW after \in Nat,
         total = paid + (IF Live THEN before ELSE 0),
         now - total = (IF Live THEN after - before ELSE 0)
  PROVE  now = paid + (IF Live THEN after ELSE 0)
<1>1. CASE Live
  BY <1>1
<1>2. CASE ~Live
  BY <1>2
<1> QED  BY <1>1, <1>2

\* GiveAnswer: and what it costs is what is remembered.
LEMMA GiveAnswerKeeps == ASSUME Inv, GiveAnswer PROVE Inv'
<1>1. PICK j \in Unanswered : AnswerByRung(j) \/ AnswerCut(j) \/ Extract(j)
  BY DEF GiveAnswer
<1>2. /\ line # None /\ tier \notin Tiers
      /\ UNCHANGED <<line, tier, results, climbing, memo, late, history>>
  BY DEF GiveAnswer
<1>3. PICK x : answers' = With(answers, j, x) /\ Tells(results, j, x, extracted', fetches')
  BY <1>1, AnswersTell DEF Inv
<1>4. Keeps(extracted, fetches, extracted', fetches') /\ fetches' \in 0 .. MaxFetches
      /\ IsFiniteSet(DOMAIN extracted')
      /\ fetches' - fetches = (IF Live THEN Cardinality(DOMAIN extracted') - Cardinality(DOMAIN extracted) ELSE 0)
      /\ fetches <= fetches'
  BY <1>1, AnswersTell DEF Inv
<1>5. Remembers(memo, fetches, memo', fetches')
  BY <1>2, <1>4, RegistryAssumption DEF Remembers, Inv, Paid
<1>6. Paid'
  <2>1. IsFiniteSet({k \in DOMAIN memo : k[1] \notin Keyless})
    BY FS_Subset DEF Inv, Paid
  <2>2. /\ Cardinality({k \in DOMAIN memo : k[1] \notin Keyless}) \in Nat
        /\ Cardinality(DOMAIN extracted) \in Nat /\ Cardinality(DOMAIN extracted') \in Nat
        /\ fetches \in Nat /\ fetches' \in Nat
    BY <1>4, <2>1, FS_CardinalityType, RegistryAssumption DEF Inv, Paid
  <2>3. memo' = memo /\ IsFiniteSet(DOMAIN memo)
    BY <1>2 DEF Inv, Paid
  <2>4. fetches' = Cardinality({k \in DOMAIN memo : k[1] \notin Keyless})
                     + (IF Live THEN Cardinality(DOMAIN extracted') ELSE 0)
    <3>1. fetches = Cardinality({k \in DOMAIN memo : k[1] \notin Keyless})
                      + (IF Live THEN Cardinality(DOMAIN extracted) ELSE 0)
      BY DEF Inv, Paid
    <3> QED  BY <1>4, <2>2, <3>1, Carried
  <2> QED  BY <1>4, <2>3, <2>4 DEF Paid
<1>7. j \in Considered(line) /\ j \notin DOMAIN answers
  BY <1>1 DEF Unanswered
<1>8. DOMAIN answers' = DOMAIN answers \cup {j} /\ answers'[j] = x
      /\ \A k \in DOMAIN answers : answers'[k] = answers[k]
  BY <1>3, <1>7 DEF With
<1>9. Climbed(line, results, tier, memo', fetches')
  BY <1>2, <1>5, ClimbedStays DEF Inv, Climbing
<1>10. \A k \in DOMAIN answers' : Tells(results, k, answers'[k], extracted', fetches')
  BY <1>2, <1>3, <1>4, <1>8, TellsStays DEF Inv, Climbing
<1>11. Climbing'
  BY <1>2, <1>7, <1>8, <1>9, <1>10 DEF Inv, Climbing
<1> QED  BY <1>2, <1>4, <1>5, <1>6, <1>11, HistoriesStay DEF Inv, Listed, Worded

\* Begin: every ladder is open, and nobody was heard.
LEMMA BeginKeeps == ASSUME Inv, NEW l \in Lines, Begin(l) PROVE Inv'
<1>1. /\ line' = l /\ tier' = 1 /\ climbing' = Open(l) /\ results' = NoMap /\ answers' = NoMap
      /\ UNCHANGED <<memo, extracted, fetches, late, history>>
  BY DEF Begin
<1>2. DOMAIN NoMap = {}
  BY DEF NoMap
<1>3. OpenAt(l, NoMap, 1) = Open(l)
  BY DEF OpenAt, Tiers
<1>4. \A a \in Adapters : ~(TierOf[a] < 1)
  BY RegistryAssumption DEF Tiers
<1>5. NoMap = [a \in DOMAIN NoMap |-> NoMap[a]]
  BY DEF NoMap
<1>6. Climbed(l, NoMap, 1, memo, fetches)
  BY <1>2, <1>4, <1>5 DEF Climbed
<1>7. Climbing'
  BY <1>1, <1>2, <1>3, <1>6 DEF Climbing
<1>8. Histories'
  BY <1>1, NothingNew, HistoriesStay DEF Inv, Paid
<1> QED  BY <1>1, <1>7, <1>8 DEF Inv, Paid, Listed, Worded

\* Finish: the line's answers are listed, and follow from a whole climb.
LEMMA FinishKeeps == ASSUME Inv, Finish PROVE Inv'
<1> DEFINE l == line
           all == Considered(l) \cup Dropped(l)
           told == [j \in all |-> IF j \in Considered(l) THEN answers[j]
                                  ELSE Answer(FALSE, "dropped", NoMap)]
           t == [line |-> l, answers |-> told]
<1>1. /\ line # None /\ tier \notin Tiers /\ Unanswered = {} /\ history' = Append(history, t)
      /\ line' = None /\ UNCHANGED <<climbing, memo, extracted, fetches, late>>
  BY DEF Finish
<1>2. tier = 5
  BY <1>1 DEF Inv, Climbing, Tiers
<1>3. Climbed(l, results, 5, memo, fetches)
  BY <1>1, <1>2 DEF Inv, Climbing
<1>4. \A j \in Considered(l) : j \in DOMAIN answers /\ Tells(results, j, answers[j], extracted, fetches)
  BY <1>1 DEF Unanswered, Inv, Climbing
<1>5. /\ t.line = l /\ t.answers = told /\ DOMAIN told = all
      /\ \A j \in Considered(l) : told[j] = answers[j]
      /\ \A j \in Dropped(l) : told[j] = Answer(FALSE, "dropped", NoMap)
      /\ told = [j \in DOMAIN told |-> told[j]]
  BY DEF Dropped
<1> HIDE DEF told, all, l
<1>6. Entry(t, memo, extracted, fetches)
  BY <1>3, <1>4, <1>5 DEF Entry, all
<1> HIDE DEF t
<1>7. PICK S : history \in Seq(S)
  BY DEF Inv, Listed
<1>8. history \in Seq(S \cup {t})
  BY <1>7
<1>9. history' \in Seq(S \cup {t})
  BY <1>1, <1>8, AppendProperties
<1>10. \A i \in DOMAIN history' : (i \in DOMAIN history /\ history'[i] = history[i]) \/ history'[i] = t
  BY <1>1, <1>8, <1>9, AppendProperties
<1>11. Told' \subseteq Told \cup {t}
  BY <1>10 DEF Told
<1>12. Histories'
  BY <1>1, <1>6, <1>11 DEF Inv, Histories
<1>13. Listed'
  BY <1>9 DEF Listed
<1> QED  BY <1>1, <1>12, <1>13 DEF Inv, Paid, Climbing, Worded

LEMMA InvInitially == Init => Inv
<1> SUFFICES ASSUME Init PROVE Inv
  OBVIOUS
<1>1. DOMAIN NoMap = {}
  BY DEF NoMap
<1>2. {k \in DOMAIN NoMap : k[1] \notin Keyless} = {}
  BY <1>1
<1>3. Paid
  BY <1>1, <1>2, FS_EmptySet, RegistryAssumption DEF Init, Paid
<1>4. history \in Seq({}) /\ Told = {}
  BY DEF Init, Told
<1> QED  BY <1>1, <1>3, <1>4 DEF Init, Inv, Climbing, Histories, Listed, Worded

LEMMA InvKept == Inv /\ [Next]_vars => Inv'
<1> SUFFICES ASSUME Inv, [Next]_vars PROVE Inv'
  OBVIOUS
<1>1. CASE Deadline \/ UNCHANGED vars
  <2>1. UNCHANGED <<line, tier, results, climbing, answers, memo, extracted, fetches, history>>
    BY <1>1 DEF Deadline, vars
  <2>2. Histories'
    BY <2>1, NothingNew, HistoriesStay DEF Inv, Paid
  <2> QED  BY <2>1, <2>2 DEF Inv, Paid, Climbing, Listed, Worded
<1> QED  BY <1>1, BeginKeeps, AskKeeps, NextTierKeeps, GiveAnswerKeeps, FinishKeeps DEF Next

LEMMA Always == Spec => []Inv
BY InvInitially, InvKept, PTL DEF Spec

-----------------------------------------------------------------------------
\* What a plan pays for is never over the ceiling, and is counted by what is remembered:
\* each question that costs something is asked once (AdapterRegistry._ask, _extracted).
THEOREM NothingIsPaidTwice == Spec => []PaidOnce
<1>1. Inv => PaidOnce
  BY RegistryAssumption DEF Inv, Paid, PaidOnce
<1> QED  BY <1>1, Always, PTL

\* A line is answered the same whenever it is asked about, whatever the plan asked in
\* between: a line's climb is determined by what is remembered (fetch, _climb, _answer).
THEOREM OneWordPerLine == Spec => []SameGroundSameAnswer
<1>1. ASSUME Inv, NEW t \in Told, NEW u \in Told, t.line = u.line
      PROVE  t.answers = u.answers
  <2>1. Entry(t, memo, extracted, fetches) /\ Entry(u, memo, extracted, fetches)
    BY <1>1 DEF Inv, Histories
  <2>2. PICK r : /\ Climbed(t.line, r, 5, memo, fetches)
                 /\ \A j \in Considered(t.line) : Tells(r, j, t.answers[j], extracted, fetches)
    BY <2>1 DEF Entry
  <2>3. PICK s : /\ Climbed(u.line, s, 5, memo, fetches)
                 /\ \A j \in Considered(u.line) : Tells(s, j, u.answers[j], extracted, fetches)
    BY <2>1 DEF Entry
  <2>4. r = s
    BY <1>1, <2>2, <2>3, OneClimb
  <2>5. \A j \in Considered(t.line) : t.answers[j] = u.answers[j]
    BY <1>1, <2>2, <2>3, <2>4, TellsOnce
  <2>6. \A j \in Dropped(t.line) : t.answers[j] = u.answers[j]
    BY <1>1, <2>1 DEF Entry
  <2>7. DOMAIN t.answers = DOMAIN u.answers /\ \A j \in DOMAIN t.answers : t.answers[j] = u.answers[j]
    BY <1>1, <2>1, <2>5, <2>6 DEF Entry
  <2>8. t.answers = [j \in DOMAIN t.answers |-> t.answers[j]]
        /\ u.answers = [j \in DOMAIN u.answers |-> u.answers[j]]
    BY <2>1 DEF Entry
  <2> QED  BY <2>7, <2>8
<1>2. Inv => SameGroundSameAnswer
  BY <1>1 DEF SameGroundSameAnswer
<1> QED  BY <1>2, Always, PTL

-----------------------------------------------------------------------------
\* What is on an answer, and when it comes of an extraction.
LEMMA WhatIsTold ==
  ASSUME NEW r, NEW j, NEW x, NEW e, NEW paid, Tells(r, j, x, e, paid)
  PROVE  /\ x.rungs = RungsOf(r, j)
         /\ x.by = "extraction" => \A a \in Of(r, j) : r[a] # "answered" /\ r[a] # "ceiling"
<1>1. CASE \E a \in Of(r, j) : r[a] = "answered"
  BY <1>1 DEF Tells, Answer
<1>2. CASE ~(\E a \in Of(r, j) : r[a] = "answered") /\ \E a \in Of(r, j) : r[a] = "ceiling"
  BY <1>2 DEF Tells, Answer
<1>3. CASE ~(\E a \in Of(r, j) : r[a] = "answered") /\ ~(\E a \in Of(r, j) : r[a] = "ceiling")
  <2>1. PICK said : x = Searched(r, j, said)
    BY <1>3 DEF Tells
  <2>2. x.rungs = RungsOf(r, j)
    BY <2>1 DEF Searched, Answer
  <2> QED  BY <1>3, <2>2
<1> QED  BY <1>1, <1>2, <1>3

\* An adapter is asked on behalf of a ladder whose better rungs did not end it.
LEMMA OnBehalfOf ==
  ASSUME NEW l, NEW r, NEW m, NEW paid, Climbed(l, r, 5, m, paid), NEW a \in DOMAIN r
  PROVE  \E k \in Considered(l) : \E ladder \in Ladders(k) :
           /\ a \in ladder
           /\ \A b \in ladder : TierOf[b] < TierOf[a] =>
                /\ b \in DOMAIN r /\ r[b] # "ceiling"
                /\ r[b] = "answered" => b \notin Complete
<1>1. PICK p \in OpenAt(l, r, TierOf[a]) : a \in p[2]
  BY DEF Climbed, Due
<1>2. p \in Open(l) /\ p[1] \in Considered(l) /\ p[2] \in Ladders(p[1]) /\ p[2] \in SUBSET Adapters
  BY <1>1, OpenIs DEF OpenAt
<1>3. ASSUME NEW b \in p[2], TierOf[b] < TierOf[a]
      PROVE  /\ b \in DOMAIN r /\ r[b] # "ceiling"
             /\ r[b] = "answered" => b \notin Complete
  <2>1. TierOf[a] \in Tiers /\ TierOf[b] \in Tiers /\ b \in Adapters
    BY <1>1, <1>2, RegistryAssumption
  <2>2. TierOf[a] \in 1 .. 5 /\ TierOf[b] \in 1 .. 5 /\ TierOf[b] <= TierOf[a] /\ TierOf[b] < 5
    BY <1>3, <2>1 DEF Tiers
  <2>3. p \in OpenAt(l, r, TierOf[b])
    BY <1>1, <2>2, OpenBefore
  <2>4. b \in DOMAIN r
    BY <2>1, <2>2, <2>3 DEF Climbed, Due
  <2>5. ~ClosesAt(r, p[2], TierOf[b])
    BY <1>1, <1>3, <2>1 DEF OpenAt
  <2> QED  BY <2>4, <2>5 DEF ClosesAt
<1> QED  BY <1>1, <1>2, <1>3

\* Where no rung answered and none was over the ceiling, every rung was asked.
LEMMA AllWereAsked ==
  ASSUME NEW l, NEW r, NEW m, NEW paid, Climbed(l, r, 5, m, paid), NEW j \in Considered(l),
         \A a \in Of(r, j) : r[a] # "answered" /\ r[a] # "ceiling",
         NEW a \in UNION Ladders(j)
  PROVE  a \in Of(r, j)
<1>1. PICK ladder \in Ladders(j) : a \in ladder
  OBVIOUS
<1>2. ladder \in SUBSET Adapters /\ <<j, ladder>> \in Open(l) /\ <<j, ladder>>[2] = ladder
  BY OpenIs
<1>3. TierOf[a] \in Tiers
  BY <1>1, <1>2, RegistryAssumption
<1>4. \A i \in Tiers : i < TierOf[a] => ~ClosesAt(r, ladder, i)
  BY <1>1, <1>3 DEF ClosesAt, Of, Tiers
<1>5. Due(l, r, a)
  BY <1>1, <1>2, <1>4 DEF Due, OpenAt
<1>6. a \in DOMAIN r
  BY <1>1, <1>2, <1>3, <1>5 DEF Climbed, Tiers
<1> QED  BY <1>6 DEF Of

\* A rung is climbed only by a ladder whose better rungs were all asked and did not end it,
\* and a search is made only where every rung was asked and none answered (scope 7.10: the
\* ladder is climbed in order, and search comes last).
THEOREM SearchComesLast == Spec => []BetterRungsFirst
<1>1. ASSUME Inv, NEW t \in Told, NEW j \in DOMAIN t.answers
      PROVE  LET rungs == t.answers[j].rungs
             IN  /\ \A a \in DOMAIN rungs : \E k \in DOMAIN t.answers : \E ladder \in Ladders(k) :
                      a \in ladder /\ \A b \in ladder : TierOf[b] < TierOf[a] => FellThrough(t, k, b)
                 /\ t.answers[j].by = "extraction" =>
                      \A a \in UNION Ladders(j) : a \in DOMAIN rungs /\ rungs[a] \in {"failed", "skipped"}
  <2>1. Entry(t, memo, extracted, fetches)
    BY <1>1 DEF Inv, Histories
  <2>2. PICK r : /\ Climbed(t.line, r, 5, memo, fetches)
                 /\ \A k \in Considered(t.line) : Tells(r, k, t.answers[k], extracted, fetches)
    BY <2>1 DEF Entry
  <2>3. \A k \in Considered(t.line) :
          /\ k \in DOMAIN t.answers /\ t.answers[k].rungs = RungsOf(r, k)
          /\ t.answers[k].by = "extraction" => \A a \in Of(r, k) : r[a] # "answered" /\ r[a] # "ceiling"
    BY <2>1, <2>2, WhatIsTold DEF Entry
  <2>4. CASE j \in Dropped(t.line)
    <3>1. t.answers[j].by = "dropped" /\ t.answers[j].rungs = NoMap
      BY <2>1, <2>4 DEF Entry, Answer
    <3> QED  BY <3>1 DEF NoMap
  <2>5. CASE j \in Considered(t.line)
    <3>1. t.answers[j].rungs = RungsOf(r, j)
      BY <2>3, <2>5
    <3>2. ASSUME NEW a \in Of(r, j)
          PROVE  \E k \in DOMAIN t.answers : \E ladder \in Ladders(k) :
                   a \in ladder /\ \A b \in ladder : TierOf[b] < TierOf[a] => FellThrough(t, k, b)
      <4>0. PICK k \in Considered(t.line) : \E ladder \in Ladders(k) :
              /\ a \in ladder
              /\ \A b \in ladder : TierOf[b] < TierOf[a] =>
                   /\ b \in DOMAIN r /\ r[b] # "ceiling"
                   /\ r[b] = "answered" => b \notin Complete
        BY <2>2, <3>2, OnBehalfOf DEF Of
      <4>1. PICK ladder \in Ladders(k) :
              /\ a \in ladder
              /\ \A b \in ladder : TierOf[b] < TierOf[a] =>
                   /\ b \in DOMAIN r /\ r[b] # "ceiling"
                   /\ r[b] = "answered" => b \notin Complete
        BY <4>0
      <4>2. k \in DOMAIN t.answers /\ t.answers[k].rungs = RungsOf(r, k)
        BY <2>3
      <4>3. \A b \in ladder : TierOf[b] < TierOf[a] => FellThrough(t, k, b)
        BY <4>1, <4>2 DEF FellThrough, RungsOf, Of
      <4> QED  BY <4>1, <4>2, <4>3
    <3>3. ASSUME t.answers[j].by = "extraction", NEW a \in UNION Ladders(j)
          PROVE  a \in Of(r, j) /\ r[a] \in {"failed", "skipped"}
      <4>1. a \in Of(r, j) /\ a \in DOMAIN r
        BY <2>2, <2>3, <2>5, <3>3, AllWereAsked DEF Of
      <4>2. r[a] # "answered" /\ r[a] # "ceiling"
        BY <2>3, <2>5, <3>3, <4>1
      <4>3. Word(t.line, r, a, memo, fetches)
        BY <2>2, <4>1 DEF Climbed
      <4> QED  BY <1>1, <4>1, <4>2, <4>3 DEF Word, Outcome, Inv, Worded
    <3> QED  BY <3>1, <3>2, <3>3 DEF RungsOf
  <2> QED  BY <2>1, <2>4, <2>5 DEF Entry
<1>2. Inv => BetterRungsFirst
  BY <1>1 DEF BetterRungsFirst
<1> QED  BY <1>2, Always, PTL
=============================================================================
