------------------------------- MODULE DenseMap -------------------------------
(* The hash table of the libraries: buckets with quadratic probing, where an *)
(* erased entry leaves a tombstone, and which is moved to a larger array     *)
(* when it is too full of entries, or of tombstones                          *)
(* (include/llvm/ADT/DenseMap.h). One step is one turn of a loop.            *)
EXTENDS Naturals, FiniteSets

CONSTANTS Keys, Values,
          Hash,           \* KeyInfoT::getHashValue
          Empty,          \* KeyInfoT::getEmptyKey()
          Tombstone,      \* KeyInfoT::getTombstoneKey()
          NoValue,        \* what is behind a key that owns no value
          InitBuckets,    \* number of buckets that maps are constructed with
          MinBuckets,     \* 64
          Sizes           \* the powers of two that the model goes up to

ASSUME DenseMapAssumption ==
  /\ Empty \notin Keys /\ Tombstone \notin Keys /\ Empty # Tombstone
  /\ NoValue \notin Values
  /\ Hash \in [Keys -> Nat]
  /\ Sizes \subseteq Nat \ {0} /\ MinBuckets \in Sizes /\ MinBuckets > 2
  /\ InitBuckets \subseteq Sizes \cup {0}

(* "initial buckets must be a power of two": 1 is a size's only odd divisor. *)
SizesArePowersOfTwo ==
  \A n \in Sizes : \A d \in 1..n : n % d = 0 => d = 1 \/ d % 2 = 0

VARIABLES
  numBuckets, numEntries, numTombstones,
  first, second,  \* the two halves of the buckets
  old,            \* while growing: the old buckets, and how far they are moved
  call,           \* the client's call
  answer,         \* what the last call found behind its key
  step,           \* how far the insertion of an absent key is
  probe,          \* the loop of LookupBucketFor
  pc

table == <<numBuckets, first, second>>
counts == <<numEntries, numTombstones>>
vars == <<table, counts, old, call, answer, step, probe, pc>>

Buckets == 0..(numBuckets - 1)
NoOld == [size |-> 0, first |-> <<>>, second |-> <<>>, at |-> 0]
NoCall == [op |-> "none", key |-> NoValue, value |-> NoValue]
NoProbe == [key |-> Empty, no |-> 0, amt |-> 1, tombstone |-> {}]
AllEmpty(n) == [i \in 0..(n - 1) |-> Empty]
NoValues(n) == [i \in 0..(n - 1) |-> NoValue]

Init ==
  /\ numBuckets \in InitBuckets
  /\ first = AllEmpty(numBuckets) /\ second = NoValues(numBuckets)
  /\ numEntries = 0 /\ numTombstones = 0
  /\ old = NoOld /\ call = NoCall /\ answer = NoValue
  /\ step = "answer" /\ probe = NoProbe /\ pc = "idle"
-----------------------------------------------------------------------------
(* LookupBucketFor: the answer is in pc, "found" or "absent", and the bucket *)
(* in probe.no. A table without buckets has nothing in it.                   *)
Lookup(key) ==
  /\ probe' = [NoProbe EXCEPT !.key = key,
                 !.no = IF numBuckets = 0 THEN 0 ELSE Hash[key] % numBuckets]
  /\ pc' = IF numBuckets = 0 THEN "absent" ELSE "probe"

(* find, count, lookup; insert; operator[] and the assignment to it; erase.  *)
Call(op, key, value) ==
  /\ pc = "idle"
  /\ call' = [op |-> op, key |-> key, value |-> value]
  /\ Lookup(key)
  /\ UNCHANGED <<table, counts, old, answer, step>>

(* The first tombstone that was met is the bucket that an absent key gets.   *)
Preferred == IF probe.tombstone = {} THEN probe.no
             ELSE CHOOSE b \in probe.tombstone : TRUE

(* After twice as many turns as there are buckets the search is back at its  *)
(* first one, and begins to repeat itself.                                   *)
NextAmt == IF probe.amt = 2 * numBuckets THEN 1 ELSE probe.amt + 1

(* Mutant: squares instead of triangular numbers, which miss some buckets. *)
ProbeSquares ==
  LET k == first[probe.no] IN
  /\ pc = "probe"
  /\ \/ /\ k = probe.key
        /\ pc' = "found" /\ UNCHANGED probe
     \/ /\ k = Empty
        /\ pc' = "absent" /\ probe' = [probe EXCEPT !.no = Preferred]
     \/ /\ k \notin {probe.key, Empty}
        /\ probe' = [probe EXCEPT
             !.no = (@ + 2 * probe.amt - 1) % numBuckets, !.amt = NextAmt,
             !.tombstone = IF k = Tombstone /\ @ = {} THEN {probe.no} ELSE @]
        /\ UNCHANGED pc
  /\ UNCHANGED <<table, counts, old, call, answer, step>>

(* One turn of the probing loop.                                             *)
Probe ==
  LET k == first[probe.no] IN
  /\ pc = "probe"
  /\ \/ /\ k = probe.key
        /\ pc' = "found" /\ UNCHANGED probe
     \/ /\ k = Empty
        /\ pc' = "absent" /\ probe' = [probe EXCEPT !.no = Preferred]
     \/ /\ k \notin {probe.key, Empty}
        /\ probe' = [probe EXCEPT
             !.no = (@ + probe.amt) % numBuckets, !.amt = NextAmt,
             !.tombstone = IF k = Tombstone /\ @ = {} THEN {probe.no} ELSE @]
        /\ UNCHANGED pc
  /\ UNCHANGED <<table, counts, old, call, answer, step>>
-----------------------------------------------------------------------------
Answered(result, ops) == pc = result /\ old = NoOld /\ call.op \in ops

Return(result) ==
  /\ pc' = "idle" /\ call' = NoCall /\ probe' = NoProbe /\ step' = "answer"
  /\ answer' = result
  /\ UNCHANGED old

Found == second[probe.no]

(* Mutant: the erased bucket is made empty. *)
EraseToEmpty ==
  /\ Answered("found", {"erase"})
  /\ first' = [first EXCEPT ![probe.no] = Empty]
  /\ second' = [second EXCEPT ![probe.no] = NoValue]
  /\ numEntries' = numEntries - 1
  /\ Return(Found) /\ UNCHANGED <<numBuckets, numTombstones>>

(* Mutant: tombstones are not counted. *)
EraseUncounted ==
  /\ Answered("found", {"erase"})
  /\ first' = [first EXCEPT ![probe.no] = Tombstone]
  /\ second' = [second EXCEPT ![probe.no] = NoValue]
  /\ numEntries' = numEntries - 1
  /\ Return(Found) /\ UNCHANGED <<numBuckets, numTombstones>>

EraseFound ==
  /\ Answered("found", {"erase"})
  /\ first' = [first EXCEPT ![probe.no] = Tombstone]
  /\ second' = [second EXCEPT ![probe.no] = NoValue]
  /\ numEntries' = numEntries - 1 /\ numTombstones' = numTombstones + 1
  /\ Return(Found) /\ UNCHANGED numBuckets

AssignFound ==
  /\ Answered("found", {"assign"})
  /\ second' = [second EXCEPT ![probe.no] = call.value]
  /\ Return(Found) /\ UNCHANGED <<numBuckets, first, counts>>

(* The calls that change nothing.                                            *)
AnswerFound ==
  /\ Answered("found", {"find", "insert"})
  /\ Return(Found) /\ UNCHANGED <<table, counts>>

AnswerAbsent ==
  /\ Answered("absent", {"find", "erase"})
  /\ Return(NoValue) /\ UNCHANGED <<table, counts>>
-----------------------------------------------------------------------------
(* grow: allocate at least so many buckets, and start moving the old ones.   *)
(* (Without buckets AtLeast is 0, AtLeast - 1 wraps around, and 64 results.) *)
grow(atLeast) ==
  /\ \E n \in Sizes :
       /\ n >= atLeast /\ n >= MinBuckets
       /\ n = MinBuckets \/ n < 2 * atLeast
       /\ numBuckets' = n
       /\ first' = AllEmpty(n) /\ second' = NoValues(n)
  /\ numEntries' = 0 /\ numTombstones' = 0
  /\ old' = [size |-> numBuckets, first |-> first, second |-> second, at |-> 0]
  /\ probe' = NoProbe /\ pc' = "move"
  /\ UNCHANGED <<call, answer>>

resize(size) ==
  /\ pc = "idle" /\ size > numBuckets
  /\ grow(size) /\ UNCHANGED step

(* moveFromOldBuckets: an entry is looked up in the new buckets ...          *)
LookupMoved ==
  /\ pc = "move" /\ old.at < old.size /\ old.first[old.at] \in Keys
  /\ Lookup(old.first[old.at])
  /\ UNCHANGED <<table, counts, old, call, answer, step>>

(* Mutant: the values stay behind. *)
MoveKeyOnly ==
  /\ pc \in {"found", "absent"} /\ old # NoOld
  /\ first' = [first EXCEPT ![probe.no] = probe.key]
  /\ numEntries' = numEntries + 1
  /\ old' = [old EXCEPT !.at = @ + 1] /\ pc' = "move" /\ probe' = NoProbe
  /\ UNCHANGED <<numBuckets, second, numTombstones, call, answer, step>>

(* ... and put there, ("Key already in new map?") ...                        *)
Move ==
  /\ pc \in {"found", "absent"} /\ old # NoOld
  /\ first' = [first EXCEPT ![probe.no] = probe.key]
  /\ second' = [second EXCEPT ![probe.no] = old.second[old.at]]
  /\ numEntries' = numEntries + 1
  /\ old' = [old EXCEPT !.at = @ + 1] /\ pc' = "move" /\ probe' = NoProbe
  /\ UNCHANGED <<numBuckets, numTombstones, call, answer, step>>

(* ... while empty buckets and tombstones are left behind.                   *)
LeaveBehind ==
  /\ pc = "move" /\ old.at < old.size /\ old.first[old.at] \notin Keys
  /\ old' = [old EXCEPT !.at = @ + 1]
  /\ UNCHANGED <<table, counts, call, answer, step, probe, pc>>

(* The old buckets are freed, and an insertion looks its key up again.       *)
Grown ==
  /\ pc = "move" /\ old.at = old.size
  /\ old' = NoOld
  /\ IF call = NoCall THEN pc' = "idle" /\ UNCHANGED probe
     ELSE Lookup(call.key)
  /\ UNCHANGED <<table, counts, call, answer, step>>
-----------------------------------------------------------------------------
(* InsertIntoBucketImpl: "If the load of the hash table is more than 3/4, or *)
(* if fewer than 1/8 of the buckets are empty ... grow the table." The       *)
(* difference would be huge if it fell below zero.                           *)
Crowded == (numEntries + 1) * 4 >= numBuckets * 3

(* Mutant: tombstones are left out of account. *)
FewEntriesLeft ==
  /\ numEntries + 1 <= numBuckets
  /\ numBuckets - (numEntries + 1) <= numBuckets \div 8

FewEmpty ==
  /\ numEntries + 1 + numTombstones <= numBuckets
  /\ numBuckets - (numEntries + 1 + numTombstones) <= numBuckets \div 8

Inserting == Answered("absent", {"insert", "assign"})
PastLoad == step = "room" \/ (step = "answer" /\ ~Crowded)

GrowForLoad ==
  /\ Inserting /\ step = "answer" /\ Crowded
  /\ grow(numBuckets * 2) /\ step' = "room"

GrowForTombstones ==
  /\ Inserting /\ PastLoad /\ FewEmpty
  /\ grow(numBuckets * 2) /\ step' = "place"

(* The end of InsertIntoBucketImpl, and InsertIntoBucket.                    *)
InsertEntry ==
  /\ Inserting /\ (step = "place" \/ (PastLoad /\ ~FewEmpty))
  /\ numEntries' = numEntries + 1
  /\ numTombstones' = IF first[probe.no] = Empty THEN numTombstones
                      ELSE numTombstones - 1
  /\ first' = [first EXCEPT ![probe.no] = call.key]
  /\ second' = [second EXCEPT ![probe.no] = call.value]
  /\ Return(NoValue) /\ UNCHANGED numBuckets
-----------------------------------------------------------------------------
IsClear == numEntries = 0 /\ numTombstones = 0
MayShrink == numEntries * 4 < numBuckets /\ numBuckets > MinBuckets

(* clear, when the buckets are kept.                                         *)
ClearBuckets ==
  /\ pc = "idle" /\ ~IsClear /\ ~MayShrink
  /\ first' = AllEmpty(numBuckets) /\ second' = NoValues(numBuckets)
  /\ numEntries' = numEntries - Cardinality({i \in Buckets : first[i] \in Keys})
  /\ numTombstones' = 0
  /\ UNCHANGED <<numBuckets, old, call, answer, step, probe, pc>>

(* clear, when few of many buckets were used (shrink_and_clear): at least    *)
(* twice as many buckets as there were entries.                              *)
ShrinkAndClear ==
  /\ pc = "idle" /\ ~IsClear /\ MayShrink
  /\ \E n \in Sizes \cup {0} :
       /\ IF numEntries = 0 THEN n = 0
          ELSE /\ n >= MinBuckets /\ n >= 2 * numEntries
               /\ n = MinBuckets \/ n < 4 * numEntries
       /\ numBuckets' = n
       /\ first' = AllEmpty(n) /\ second' = NoValues(n)
  /\ numEntries' = 0 /\ numTombstones' = 0
  /\ UNCHANGED <<old, call, answer, step, probe, pc>>

Working ==
  \/ Probe \/ EraseFound \/ AssignFound \/ AnswerFound \/ AnswerAbsent
  \/ LookupMoved \/ Move \/ LeaveBehind \/ Grown
  \/ GrowForLoad \/ GrowForTombstones \/ InsertEntry

(* Bound: clients do not insert what could need more buckets than modelled.  *)
Room == \E n \in Sizes : n >= 2 * numBuckets

Next ==
  \/ Working
  \/ \E key \in Keys :
       \/ \E op \in {"find", "erase"} : Call(op, key, NoValue)
       \/ \E op \in {"insert", "assign"}, value \in Values :
            Room /\ Call(op, key, value)
  \/ \E size \in Sizes : resize(size)
  \/ ClearBuckets \/ ShrinkAndClear

Spec == Init /\ [][Next]_vars
FairSpec == Spec /\ WF_vars(Working)
-----------------------------------------------------------------------------
Slots == Keys \cup {Empty, Tombstone}

(* The variables have their types. *)
TypeOK ==
  /\ numBuckets \in Sizes \cup {0} /\ numEntries \in Nat /\ numTombstones \in Nat
  /\ first \in [Buckets -> Slots] /\ second \in [Buckets -> Values \cup {NoValue}]
  /\ old.size \in Sizes \cup {0} /\ old.at \in 0..old.size
  /\ old.first \in [0..(old.size - 1) -> Slots]
  /\ old.second \in [0..(old.size - 1) -> Values \cup {NoValue}]
  /\ answer \in Values \cup {NoValue} /\ step \in {"answer", "room", "place"}
  /\ pc \in {"idle", "probe", "found", "absent", "move"}
  /\ probe.no \in Buckets \cup {0} /\ probe.amt \in Nat

(* The counters are true, so that the decisions to grow are right ("Node     *)
(* count imbalance!"; while growing, the new table counts only what it has). *)
CountsAreTrue ==
  /\ numEntries = Cardinality({i \in Buckets : first[i] \in Keys})
  /\ numTombstones = Cardinality({i \in Buckets : first[i] = Tombstone})

(* "If the table completely filled with tombstones, no lookup would ever     *)
(* succeed, causing infinite loops in lookup": a table with buckets always   *)
(* has an empty one (InsertIntoBucketImpl).                                  *)
SomeBucketIsEmpty == numBuckets # 0 => \E i \in Buckets : first[i] = Empty

(* The "while (1)" of LookupBucketFor makes no more turns than there are     *)
(* buckets: quadratic probing comes to no bucket twice before that.          *)
SearchesAreShort == pc = "probe" => probe.amt <= numBuckets

(* A search that says that a key is absent has not merely missed it, one     *)
(* that says it is found has found it, and no key is in two buckets, in      *)
(* spite of tombstones and moves (LookupBucketFor).                          *)
AnswersAreTrue ==
  /\ \A i, j \in Buckets : first[i] = first[j] /\ first[i] \in Keys => i = j
  /\ pc = "absent" => /\ \A i \in Buckets : first[i] # probe.key
                      /\ numBuckets # 0 => first[probe.no] \in {Empty, Tombstone}
  /\ pc = "found" => first[probe.no] = probe.key

(* The map is a dictionary: entries in the buckets, and while growing in the *)
(* old buckets that have not been moved yet.                                 *)
Places(k) == {i \in Buckets : first[i] = k}
OldPlaces(k) == {i \in old.at..(old.size - 1) : old.first[i] = k}
Contents ==
  [k \in {j \in Keys : Places(j) \cup OldPlaces(j) # {}} |->
     IF Places(k) # {} THEN second[CHOOSE i \in Places(k) : TRUE]
     ELSE old.second[CHOOSE i \in OldPlaces(k) : TRUE]]
D == INSTANCE Dictionary WITH dict <- Contents
ImplementsDictionary == D!Spec

(* Every call returns: no search goes on for ever, and moving to a larger    *)
(* table does not have to be repeated for ever.                              *)
CallsReturn == pc # "idle" ~> pc = "idle"
=============================================================================
