----------------------------- MODULE ValueHandles -----------------------------
(* How Value::~Value and Value::replaceAllUsesWith notify the handles of a   *)
(* value (ValueHandleBase::ValueIsDeleted and ValueIsRAUWd, Value.cpp) while *)
(* the callbacks they make create, move and destroy handles and replace or   *)
(* delete other values.                                                      *)
EXTENDS ValueHandleLists, Sequences, FiniteSets

CONSTANTS Kind,        \* Kind[h]: which of the four kinds handle h has
          Iterators,   \* the local handles of the notification loops, by depth
          MaxOps       \* bound: operations of a client between two loop
                       \* steps, destroying handles not counted

ASSUME ValueHandlesAssumption ==
  /\ Kind \in [Handles -> {"Assert", "Callback", "Tracking", "Weak"}]
  /\ IsFiniteSet(Handles) /\ Iterators \in Seq(Handles) /\ MaxOps \in Nat
  /\ \A i \in 1..Len(Iterators) : Kind[Iterators[i]] = "Assert"
  /\ \A i, j \in 1..Len(Iterators) : Iterators[i] = Iterators[j] => i = j

VARIABLES
  lists,     \* the handles' fields and the map: see ValueHandleLists
  alive,     \* values that have not been deleted
  built,     \* handles that have been constructed and not destroyed
  stack,     \* notification loops in progress, innermost first
  ops        \* operations of the client since the last loop step,
             \* destroying handles not counted

vars == <<lists, alive, built, stack, ops>>

(* A loop: its value "old", the value "new" that replaces it (Null: old is   *)
(* being deleted), the handle "entry" it visits, and whether it is inside    *)
(* that handle's callback. History: which handles have been on the list      *)
(* since the start without being touched by a client, and which were visited.*)
Loop == Head(stack)
Iterator == Iterators[Len(stack)]
Client == Handles \ {Iterators[i] : i \in 1..Len(Iterators)}
Free(h) == h \notin built
Watching(v) == {h \in Client : lists.val[h] = v}
Untouched(h) == [i \in 1..Len(stack) |-> [stack[i] EXCEPT !.stayed = @ \ {h}]]

Init ==
  /\ lists = Empty /\ alive = Values /\ built = {} /\ stack = <<>> /\ ops = 0

(* Client code runs when no loop does, or in the callback of the innermost.  *)
ClientsTurn == IF stack = <<>> THEN TRUE ELSE Loop.callback
ClientRuns == /\ ClientsTurn /\ ops < MaxOps
              /\ ops' = IF stack = <<>> THEN 0 ELSE ops + 1

(* A handle may be put on any value there is, for a moment even on one that  *)
(* is being deleted.                                                         *)
MayWatch(v) == v \in alive \cup {Null}

(* What ValueIsDeleted and ValueIsRAUWd ask of the callbacks they make: when *)
(* one returns it has left no new handle on a value that is being deleted,   *)
(* nor a tracking or weak one on a value that is being replaced.             *)
LeavesNoNewHandle ==
  \A h \in Watching(Loop.old) \ (Loop.stayed \cup {Loop.entry}) :
    Loop.new # Null /\ Kind[h] \in {"Assert", "Callback"}

(* A TrackingVH whose value was deleted must not be used again. *)
Usable(h) == Kind[h] = "Tracking" => lists.val[h] # Tombstone

Construct(h, v) ==
  /\ ClientRuns /\ Free(h) /\ MayWatch(v)
  /\ built' = built \cup {h}
  /\ lists' \in AssignValue(lists, h, v)
  /\ stack' = Untouched(h)
  /\ UNCHANGED alive

Destroy(h) ==
  /\ ClientsTurn /\ ~Free(h)
  /\ built' = built \ {h}
  /\ lists' = Drop(lists, h)
  /\ stack' = Untouched(h)
  /\ UNCHANGED <<alive, ops>>

Assign(h, v) ==
  /\ ClientRuns /\ ~Free(h) /\ Usable(h) /\ MayWatch(v)
  /\ lists' \in AssignValue(lists, h, v)
  /\ stack' = IF v = lists.val[h] THEN stack ELSE Untouched(h)
  /\ UNCHANGED <<alive, built>>

(* Copy assignment and, if h is free, copy construction. *)
Copy(h, g) ==
  /\ ClientRuns /\ ~Free(g) /\ Usable(h) /\ Usable(g)
  /\ MayWatch(lists.val[g])
  /\ lists' = AssignHandle(lists, h, g)
  /\ built' = built \cup {h}
  /\ stack' = IF lists.val[g] = lists.val[h] THEN stack ELSE Untouched(h)
  /\ UNCHANGED alive

(* Both loops begin with a local handle just before the head of the list. *)
Begin(old, new) ==
  /\ ClientRuns /\ old \in lists.has /\ Len(stack) < Len(Iterators)
  /\ stack' = <<[old |-> old, new |-> new, entry |-> lists.head[old],
                 callback |-> FALSE, stayed |-> Watching(old), seen |-> {}]>>
              \o stack
  /\ lists' = AssignHandle(lists, Iterators[Len(stack) + 1], lists.head[old])
  /\ UNCHANGED <<alive, built>>

replaceAllUsesWith(old, new) ==
  /\ {old, new} \subseteq alive /\ old # new
  /\ \A i \in 1..Len(stack) : /\ new # stack[i].old
                              /\ stack[i].old = old => stack[i].new # Null
  /\ Begin(old, new)

(* Deleting a value that asserting handles, or loops, still refer to is an   *)
(* error of the client.                                                      *)
DeleteValue(v) ==
  /\ v \in alive /\ \A h \in Watching(v) : Kind[h] # "Assert"
  /\ \A i \in 1..Len(stack) : v \notin {stack[i].old, stack[i].new}
  /\ \/ Begin(v, Null)
     \/ /\ v \notin lists.has /\ ClientRuns
        /\ alive' = alive \ {v}
        /\ UNCHANGED <<lists, built, stack>>
-----------------------------------------------------------------------------
(* Mutant: the local handle is not moved along. *)
LeaveIterator == lists

(* Iterator.RemoveFromUseList(); Iterator.AddToExistingUseListAfter(Entry) *)
MoveIterator ==
  AddToExistingUseListAfter(RemoveFromUseList(lists, Iterator), Iterator,
                            Loop.entry)

(* Mutant: the loop goes on from the entry instead of the iterator. *)
NextOfEntry(S) == S.next[Loop.entry]
NextOfIterator(S) == S.next[Iterator]

(* Visit the entry: weak handles follow the replacement or go null, tracking *)
(* ones follow it or become tombstones, asserting ones stay, and then        *)
(* "Entry = Iterator.Next"; a callback handle has its callback called first. *)
VisitTo(value) ==
  /\ lists' \in AssignValue(MoveIterator, Loop.entry, value)
  /\ stack' = [stack EXCEPT ![1].entry = NextOfIterator(lists'),
                            ![1].seen = @ \cup {Loop.entry}]

Visit ==
  /\ stack # <<>> /\ ~Loop.callback /\ Loop.entry # Null
  /\ CASE Kind[Loop.entry] = "Weak" -> VisitTo(Loop.new)
       [] Kind[Loop.entry] = "Tracking" ->
            VisitTo(IF Loop.new = Null THEN Tombstone ELSE Loop.new)
       [] Kind[Loop.entry] = "Assert" -> VisitTo(Loop.old)
       [] Kind[Loop.entry] = "Callback" ->
            /\ lists' = MoveIterator
            /\ stack' = [stack EXCEPT ![1].callback = TRUE,
                                      ![1].seen = @ \cup {Loop.entry}]
  /\ ops' = 0
  /\ UNCHANGED <<alive, built>>

(* deleted() at the latest takes its handle off the value when it returns,   *)
(* as the default one does; allUsesReplacedWith() need not.                  *)
CallbackReturns ==
  /\ stack # <<>> /\ Loop.callback /\ LeavesNoNewHandle
  /\ lists' = IF Loop.new = Null /\ lists.val[Loop.entry] = Loop.old
                THEN Drop(lists, Loop.entry) ELSE lists
  /\ stack' = [stack EXCEPT ![1].entry = NextOfIterator(lists'),
                            ![1].callback = FALSE]
  /\ ops' = 0
  /\ UNCHANGED <<alive, built>>

(* The loop ends, and its local handle with it. *)
End ==
  /\ stack # <<>> /\ ~Loop.callback /\ Loop.entry = Null
  /\ lists' = Drop(lists, Iterator)
  /\ alive' = IF Loop.new = Null THEN alive \ {Loop.old} ELSE alive
  /\ stack' = Tail(stack)
  /\ ops' = ops
  /\ UNCHANGED built

Next ==
  \/ \E h \in Client : \/ \E v \in Values \cup {Null} : Construct(h, v) \/ Assign(h, v)
                       \/ Destroy(h)
                       \/ \E g \in Client \ {h} : Copy(h, g)
  \/ \E v \in Values : DeleteValue(v) \/ \E w \in Values : replaceAllUsesWith(v, w)
  \/ Visit \/ CallbackReturns \/ End
Spec == Init /\ [][Next]_vars
-----------------------------------------------------------------------------
TypeOK ==
  /\ lists.val \in [Handles -> Values \cup {Null, Tombstone}]
  /\ lists.next \in [Handles -> Handles \cup {Null}]
  /\ lists.head \in [Values -> Handles \cup {Null}]
  /\ lists.has \subseteq Values /\ lists.array \in {0, 1}
  /\ alive \subseteq Values /\ built \subseteq Handles
  /\ Len(stack) <= Len(Iterators) /\ ops \in 0..MaxOps

(* "List invariant broken": whatever callbacks and reallocations of the map  *)
(* intervene, the links of the lists, their heads and the HasValueHandle     *)
(* bits agree.                                                               *)
ListsWellLinked == WellLinked(lists)

(* No handle is lost: every handle of a value can be found from the value's  *)
(* bucket, and none that a client has points to a deleted value.             *)
NoHandleIsLost ==
  /\ \A v \in Values :
       LET at[n \in 0..Cardinality(Handles)] ==
             IF n = 0 THEN lists.head[v]
             ELSE IF at[n - 1] = Null THEN Null ELSE lists.next[at[n - 1]]
       IN {at[n] : n \in DOMAIN at}
            = {h \in Handles : lists.val[h] = v} \cup {Null}
  /\ \A h \in built : lists.val[h] \in alive \cup {Null, Tombstone}

(* "Loop invariant broken": the local handle stays on the list of the loop's *)
(* value, and what the loop visits next is on that list too, although        *)
(* callbacks may destroy any handle.                                         *)
LoopStaysOnItsList ==
  \A i \in 1..Len(stack) :
    /\ lists.val[Iterators[Len(stack) + 1 - i]] = stack[i].old
    /\ i = 1 /\ ~Loop.callback /\ Loop.entry # Null => lists.val[Loop.entry] = Loop.old

(* "All references to V were not removed?" and "A tracking or weak value     *)
(* handle still pointed to the old value!": when a loop ends, only           *)
(* asserting and callback handles watch a replaced value, and none a         *)
(* deleted one.                                                              *)
LoopLeavesNothingBehind ==
  [][End => \A h \in Handles : lists'.val[h] = Loop.old =>
               Loop.new # Null /\ Kind[h] \in {"Assert", "Callback"}]_vars

(* Each handle that stays on the list while the loop runs is visited,        *)
(* exactly once.                                                             *)
EachHandleVisited ==
  [][/\ End => Loop.stayed \subseteq Loop.seen \cup {h \in Handles : lists.val[h] # Loop.old}
     /\ Visit => Loop.entry \notin Loop.stayed \cap Loop.seen]_vars
=============================================================================
