----------------------------- MODULE RangeLocks -----------------------------
(***************************************************************************)
(* The lock list of a plan (core/plan/edits.py): ranges of the line, in    *)
(* metres, that no later round may reroute, and whose they are.  A list of *)
(* ranges is read as a set: what overlaps is not merged, and the order and *)
(* the reasons are for the sheet.                                          *)
(***************************************************************************)
EXTENDS Integers

Sources == {"user", "loop"}

\* LockedRange.  Its validator refuses a range without length whenever a plan or
\* a request is read; model_copy, which unlock_range narrows with, does not.
Lock(from, to, source) == [from |-> from, to |-> to, source |-> source]
Locks == [from : Nat, to : Nat, source : Sources]
Valid(lock) == lock.from < lock.to

LockRange(locked, from, to, source) == locked \cup {Lock(from, to, source)}

ReleasesAnyones(lock, from, to, whose) ==   \* a bug: whose lock it is is forgotten
  lock.to > from /\ lock.from < to

\* Whose locks an unlock may take apart: "any" or one source's.
Releases(lock, from, to, whose) ==
  /\ whose \in {"any", lock.source}
  /\ lock.to > from /\ lock.from < to
Freed(locked, from, to, whose) == {lock \in locked : Releases(lock, from, to, whose)}

\* What is left of a lock that was taken apart: its head, and its tail.
HeadsClosed(freed, from) ==   \* a bug: a lock that starts where the release does
  {Lock(lock.from, from, lock.source) : lock \in {l \in freed : l.from <= from}}
Heads(freed, from) ==
  {Lock(lock.from, from, lock.source) : lock \in {l \in freed : l.from < from}}
Tails(freed, to) ==
  {Lock(to, lock.to, lock.source) : lock \in {l \in freed : l.to > to}}

UnlockRange(locked, from, to, whose) ==
  LET freed == Freed(locked, from, to, whose)
  IN  (locked \ freed) \cup Heads(freed, from) \cup Tails(freed, to)

\* Metre m, the ground from m to m + 1, is under a lock of this source.
Holds(locked, m, source) ==
  \E lock \in locked : lock.source = source /\ lock.from <= m /\ m < lock.to
=============================================================================
