----------------------------- MODULE RouterCache -----------------------------
(***************************************************************************)
(* The router as a plan sees it (core/routing/cached.py over               *)
(* core/data/cache.py and Budget of core/models/context.py): every lookup  *)
(* goes through fetch, which answers from the cache file when it can,      *)
(* charges the plan's budget and asks GraphHopper when it cannot, and      *)
(* records what came back.  Several plans share the file; the graph behind *)
(* the server is rebuilt under them.                                       *)
(*                                                                         *)
(* A recorded answer is what the server said and the graph it said it of.  *)
(* LONGRUN_CACHE_DIR is set: without it each leg has a file of its own.    *)
(***************************************************************************)
EXTENDS Integers, Sequences, FiniteSets

CONSTANTS
  Plans,          \* the plans being made
  Calls,          \* the lookups: a kind, and what it is asked about
  Offline,        \* the plans that run with LONGRUN_OFFLINE
  Pinned,         \* the plans that were given a snapshot of the graph
  Unpinned,       \* graph_identity of a plan that was given none
  Nothing,        \* no recording, and no answer
  ApiCallsMax,    \* api_calls_max
  MaxGraph,       \* bounds the rebuilds of the graph
  MaxLookups,     \* bounds the lookups of a leg
  MaxLegs         \* bounds the legs of all the plans

VARIABLES
  cassette,       \* the cache file: an answer for each key, or Nothing
  graph,          \* the graph GraphHopper has loaded, counted from 0
  leg,            \* each plan: the process that is making it
  asked           \* each plan: the requests it has sent to the server, in all legs

vars == <<cassette, graph, leg, asked>>

-----------------------------------------------------------------------------
Kinds == {"route", "alternatives", "match"}
Graphs == 0 .. MaxGraph
Pins == Graphs \cup {Unpinned}

\* What the server makes of a request: paths, a refusal, or nothing at all.
Sayings == {"paths", "refused", "down"}
Answers == [said : Sayings, graph : Graphs]

ASSUME CacheAssumption ==
  /\ Calls \subseteq [kind : Kinds, about : STRING]
  /\ Offline \subseteq Plans /\ Pinned \subseteq Plans
  /\ Unpinned \notin Nat /\ Nothing \notin Answers
  /\ ApiCallsMax \in Nat /\ MaxGraph \in Nat /\ MaxLookups \in Nat
  /\ MaxLegs \in Nat \ {0}

\* route_args: what a lookup is recorded under.
KeyUnpinned(c, pin) == [call |-> c, pin |-> Unpinned]   \* a bug: the graph is not in it
Key(c, pin) == [call |-> c, pin |-> pin]
Keys == [call : Calls, pin : Pins]

\* A leg: where it is, which of the plan's it is, the graph it keys on, its budget,
\* its requests to the server, the lookup it is at, what it was told,
\* and its record of calls.
Places == {"new", "planning", "asking", "told", "parked", "done", "failed"}
NewLeg == [at |-> "new", number |-> 0, pin |-> Unpinned, used |-> 0,
           sent |-> 0, call |-> Nothing, told |-> Nothing, log |-> <<>>]
Entries == [key : Keys, cached : BOOLEAN]
Legs == [at : Places, number : Nat, pin : Pins, used : 0 .. ApiCallsMax,
         sent : Nat, call : Calls \cup {Nothing}, told : Answers \cup {Nothing},
         log : Seq(Entries)]

\* The lookup goes on: the plan has its answer, or does without.
Back(l) == [l EXCEPT !.at = "planning", !.call = Nothing, !.told = Nothing]
\* The error leaves the plan.
Failed(l) == [l EXCEPT !.at = "failed", !.call = Nothing, !.told = Nothing]

\* _record: trips through the door that ended, not the ones that raised.
Recorded(l, c, cached) ==
  [Back(l) EXCEPT !.log = Append(@, [key |-> Key(c, l.pin), cached |-> cached])]

-----------------------------------------------------------------------------
\* spend_api_call: refused when the cap would be passed.
Refused(used) == used + 1 > ApiCallsMax

\* Who goes on without an answer the budget refused: matched_way_ids does.
Swallows(c) == c.kind = "match"

\* What is left of a saying.  GraphHopperRouter.map_match turns whatever went
\* wrong into the track it was given; paths raises, and nothing is returned.
Returns(c, said) == said = "paths" \/ c.kind = "match"

\* What a plan does when its lookup raised: alternatives is empty, and without a
\* route there is no plan.
Raised(l) == IF l.call.kind = "alternatives" THEN Back(l) ELSE Failed(l)

-----------------------------------------------------------------------------
Init ==
  /\ cassette = [k \in Keys |-> Nothing]
  /\ graph = 0
  /\ leg = [p \in Plans |-> NewLeg]
  /\ asked = [p \in Plans |-> 0]

Goes(p, l) == leg' = [leg EXCEPT ![p] = l]
\* A leg's process opens the cache with a fresh budget and an empty record.
Opens(p, pin) ==
  Goes(p, [NewLeg EXCEPT !.at = "planning", !.number = leg[p].number + 1,
                         !.pin = pin])

LegsLeft == Cardinality({n \in Plans \X (1 .. MaxLegs) : n[2] <= leg[n[1]].number}) < MaxLegs

\* The pin is of the snapshot file the plan was given, as old as that file is.
Begin(p) ==
  /\ leg[p].at = "new" /\ LegsLeft
  /\ \E pin \in (IF p \in Pinned THEN 0 .. graph ELSE {Unpinned}) : Opens(p, pin)
  /\ UNCHANGED <<cassette, graph, asked>>

MayLook(p) == leg[p].at = "planning" /\ Len(leg[p].log) < MaxLookups

\* cache.get finds it: no charge, no request.
Hit(p, c) ==
  /\ MayLook(p) /\ cassette[Key(c, leg[p].pin)] # Nothing
  /\ Goes(p, Recorded(leg[p], c, TRUE))
  /\ UNCHANGED <<cassette, graph, asked>>

Missed(p, c) == MayLook(p) /\ cassette[Key(c, leg[p].pin)] = Nothing

\* Offline, a miss is CacheMiss, and no handler may swallow it.
MissOffline(p, c) ==
  /\ Missed(p, c) /\ p \in Offline
  /\ Goes(p, Failed(leg[p]))
  /\ UNCHANGED <<cassette, graph, asked>>

ChargeRoutes(p, c) ==   \* a bug: matching is not charged
  /\ Missed(p, c) /\ p \notin Offline /\ ~Refused(leg[p].used)
  /\ Goes(p, [leg[p] EXCEPT !.at = "asking", !.call = c,
                            !.used = IF c.kind = "match" THEN @ ELSE @ + 1])
  /\ UNCHANGED <<cassette, graph, asked>>
ChargeAnyone(p, c) ==   \* a bug: the producer is reached whatever the mode
  /\ Missed(p, c) /\ ~Refused(leg[p].used)
  /\ Goes(p, [leg[p] EXCEPT !.at = "asking", !.call = c, !.used = @ + 1])
  /\ UNCHANGED <<cassette, graph, asked>>
\* The producer charges the budget, and then asks.
Charge(p, c) ==
  /\ Missed(p, c) /\ p \notin Offline
  /\ IF Refused(leg[p].used)
     THEN Goes(p, IF Swallows(c) THEN leg[p] ELSE Failed(leg[p]))
     ELSE Goes(p, [leg[p] EXCEPT !.at = "asking", !.call = c, !.used = @ + 1])
  /\ UNCHANGED <<cassette, graph, asked>>

\* httpx.post, which a timeout ends: from the graph that is loaded now.
Ask(p) ==
  /\ leg[p].at = "asking"
  /\ asked' = [asked EXCEPT ![p] = @ + 1]
  /\ \E said \in Sayings :
       LET sent == [leg[p] EXCEPT !.sent = @ + 1] IN
       Goes(p, IF Returns(leg[p].call, said)
               THEN [sent EXCEPT !.at = "told", !.told = [said |-> said, graph |-> graph]]
               ELSE Raised(sent))
  /\ UNCHANGED <<cassette, graph>>

\* INSERT OR REPLACE, whatever another plan has recorded since the miss; nothing
\* is written offline.
PutNowhere(p) ==   \* a bug: the call is recorded in the log and not in the file
  /\ leg[p].at = "told"
  /\ Goes(p, Recorded(leg[p], leg[p].call, FALSE))
  /\ UNCHANGED <<cassette, graph, asked>>
Put(p) ==
  /\ leg[p].at = "told"
  /\ cassette' = IF p \in Offline THEN cassette
                 ELSE [cassette EXCEPT ![Key(leg[p].call, leg[p].pin)] = leg[p].told]
  /\ Goes(p, Recorded(leg[p], leg[p].call, FALSE))
  /\ UNCHANGED <<graph, asked>>

\* The loop parks or is done; a process may die, with an answer it paid for; and
\* a parked plan goes on in a process of its own, with the pin it was given.
End(p) ==
  /\ leg[p].at = "planning"
  /\ \E place \in {"parked", "done"} : Goes(p, [leg[p] EXCEPT !.at = place])
  /\ UNCHANGED <<cassette, graph, asked>>
Die(p) ==
  /\ leg[p].at \in {"planning", "asking", "told"}
  /\ Goes(p, Failed(leg[p]))
  /\ UNCHANGED <<cassette, graph, asked>>
Resume(p) ==
  /\ leg[p].at = "parked" /\ LegsLeft
  /\ Opens(p, leg[p].pin)
  /\ UNCHANGED <<cassette, graph, asked>>

Rebuild ==
  /\ graph < MaxGraph
  /\ graph' = graph + 1
  /\ UNCHANGED <<cassette, leg, asked>>

Lookup(p) == \E c \in Calls : Hit(p, c) \/ MissOffline(p, c) \/ Charge(p, c)
Next ==
  \/ \E p \in Plans : Begin(p) \/ Lookup(p) \/ Ask(p) \/ Put(p)
                      \/ End(p) \/ Die(p) \/ Resume(p)
  \/ Rebuild

Spec == Init /\ [][Next]_vars

-----------------------------------------------------------------------------
TypeOK ==
  /\ cassette \in [Keys -> Answers \cup {Nothing}]
  /\ graph \in Graphs
  /\ leg \in [Plans -> Legs]
  /\ asked \in [Plans -> Nat]

(***************************************************************************)
(* No request reaches the server that the budget was not charged for       *)
(* first, a request that fails is charged like any other, and the charges  *)
(* stay within the cap: CachedRouter.inner_paths and Budget.spend_api_call *)
(***************************************************************************)
Metered == \A p \in Plans : leg[p].sent <= leg[p].used /\ leg[p].used <= ApiCallsMax

NoTwiceIn(log) ==
  \A i, j \in DOMAIN log :
    i # j /\ ~log[i].cached /\ ~log[j].cached => log[i].key # log[j].key

(***************************************************************************)
(* A leg never pays twice for one answer: its record of calls holds a key  *)
(* at most once as a call that was made, whatever the plans it shares the  *)
(* file with record in between.                                            *)
(***************************************************************************)
PaidOnce == \A p \in Plans : NoTwiceIn(leg[p].log)

(***************************************************************************)
(* What is recorded of a route or a detour is paths the server gave: its   *)
(* failures, which alternatives turns into an empty list, are not.         *)
(***************************************************************************)
RecordedRoutesAreRoutes ==
  \A k \in Keys : cassette[k] # Nothing /\ k.call.kind # "match" => cassette[k].said = "paths"

(***************************************************************************)
(* A plan that was given a snapshot of the graph is never replayed a line  *)
(* drawn on an older one, whoever recorded it: the pin is in the key.      *)
(***************************************************************************)
PinsTellGraphsApart ==
  \A p \in Plans, c \in Calls :
    LET found == cassette[Key(c, leg[p].pin)]
    IN  leg[p].pin # Unpinned /\ found # Nothing => found.graph >= leg[p].pin

(***************************************************************************)
(* Whatever a plan may be replayed was an answer, of a graph it may use.   *)
(***************************************************************************)
RecordingsAreTrue == RecordedRoutesAreRoutes /\ PinsTellGraphsApart

(***************************************************************************)
(* An offline plan asks nobody and leaves the cassette as it found it.     *)
(***************************************************************************)
OfflineLeavesNoTrace ==
  [][\A p \in Offline : leg'[p] # leg[p] => UNCHANGED <<cassette, asked>>]_vars
=============================================================================
