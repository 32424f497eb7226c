--------------------------- MODULE ValueHandleLists ---------------------------
(* The intrusive lists of value handles and the DenseMap of their heads, as  *)
(* the member functions of ValueHandleBase change them                       *)
(* (include/llvm/Support/ValueHandle.h, lib/VMCore/Value.cpp).               *)
EXTENDS Naturals

CONSTANTS Handles,     \* ValueHandleBase objects
          Values,      \* the IR values they may watch
          Null,        \* the null pointer
          Tombstone    \* DenseMapInfo<Value *>::getTombstoneKey()

ASSUME ValueHandleListsAssumption ==
  /\ Null \notin Values \cup Handles \cup {Tombstone}
  /\ Tombstone \notin Values
  /\ \A a \in {0, 1}, v \in Values : <<a, v>> \notin Handles \cup {Null}

(* A record S of the fields of every handle and of the context's map:        *)
(*   val, next, prev   VP, Next and PrevPtr of each handle                   *)
(*   head, has         the map entry and the HasValueHandle bit of a value   *)
(*   array             which array holds the map's buckets now               *)
(* A PrevPtr is the handle whose Next field it points to, or a bucket        *)
(* <<array, value>>, which dangles once the map has moved to another array.  *)
Bucket(S, v) == <<S.array, v>>
IsBucket(S, p) == \E v \in Values : p = Bucket(S, v)
Deref(S, p) ==
  IF p \in Handles THEN S.next[p]
  ELSE IF IsBucket(S, p) THEN S.head[CHOOSE v \in Values : p = Bucket(S, v)]
  ELSE Null

isValid(v) == v \in Values

Empty ==
  [val |-> [h \in Handles |-> Null], next |-> [h \in Handles |-> Null],
   prev |-> [h \in Handles |-> Null], head |-> [v \in Values |-> Null],
   has |-> {}, array |-> 0]

(* S with *p = h, h->Next = n, h->PrevPtr = p and n->PrevPtr = back. *)
Splice(S, h, p, n, back) ==
  [S EXCEPT !.next = [g \in Handles |-> IF g = h THEN n
                                        ELSE IF g = p THEN h ELSE S.next[g]],
            !.prev = [g \in Handles |-> IF g = h THEN p
                                        ELSE IF g = n THEN back ELSE S.prev[g]],
            !.head = [v \in Values |-> IF p = Bucket(S, v) THEN h ELSE S.head[v]]]

(* Splice h in where p points to. AddToExistingUseListAfter is the same with *)
(* p the Next field of a handle.                                             *)
AddToExistingUseList(S, h, p) == Splice(S, h, p, Deref(S, p), h)
AddToExistingUseListAfter(S, h, g) == AddToExistingUseList(S, h, g)

(* The first handle of a value inserts a bucket. If that moves the map to    *)
(* another array, the PrevPtr of every list head is pointed at it.           *)
Insert(S, h, array, fix) ==
  LET v == S.val[h]
      T == AddToExistingUseList([S EXCEPT !.array = array], h, <<array, v>>)
  IN [T EXCEPT !.has = S.has \cup {v},
               !.prev = [g \in Handles |->
                           IF fix /\ \E w \in Values : T.head[w] = g
                             THEN <<array, T.val[g]>> ELSE T.prev[g]]]

(* Mutant: the walk over the table is left out. *)
InsertWithoutFix(S, h, array) == Insert(S, h, array, FALSE)
InsertFirst(S, h, array) == Insert(S, h, array, array # S.array)

(* The states AddToUseList may end in: the map may or may not reallocate. *)
AddToUseList(S, h) ==
  IF S.val[h] \in S.has
    THEN {AddToExistingUseList(S, h, Bucket(S, S.val[h]))}
    ELSE {InsertFirst(S, h, array) : array \in {0, 1}}

(* S without h in its list, and with HasValueHandle of its value cleared if  *)
(* "last". (The code leaves h's own links as they are; nothing reads them    *)
(* before h is on a list again.)                                             *)
Unlink(S, h, last) ==
  LET p == S.prev[h]
      n == S.next[h]
  IN [S EXCEPT !.next = [g \in Handles |-> IF g = h THEN Null
                                           ELSE IF g = p THEN n ELSE S.next[g]],
               !.prev = [g \in Handles |-> IF g = h THEN Null
                                           ELSE IF g = n THEN p ELSE S.prev[g]],
               !.head = [v \in Values |-> IF p = Bucket(S, v) THEN n ELSE S.head[v]],
               !.has = IF last THEN S.has \ {S.val[h]} ELSE S.has]

(* Mutant: a null Next alone is taken for the last handle. *)
RemoveAtEndOfList(S, h) == Unlink(S, h, S.next[h] = Null)

(* If Next is null and PrevPtr points into the buckets, h is the last one. *)
RemoveFromUseList(S, h) == Unlink(S, h, S.next[h] = Null /\ IsBucket(S, S.prev[h]))

(* ~ValueHandleBase, and the first half of operator=. *)
Drop(S, h) ==
  LET T == IF isValid(S.val[h]) THEN RemoveFromUseList(S, h) ELSE S
  IN [T EXCEPT !.val[h] = Null]

(* operator=(Value *RHS); also the constructor from a value, h being null. *)
AssignValue(S, h, v) ==
  LET T == [Drop(S, h) EXCEPT !.val[h] = v]
  IN IF S.val[h] = v THEN {S} ELSE IF isValid(v) THEN AddToUseList(T, h) ELSE {T}

(* operator=(const ValueHandleBase &RHS), and the copy constructor: h goes   *)
(* immediately before g on g's list, without a look at the map.              *)
AssignHandle(S, h, g) ==
  LET T == [Drop(S, h) EXCEPT !.val[h] = S.val[g]]
  IN IF S.val[h] = S.val[g] THEN S
     ELSE IF isValid(S.val[g]) THEN AddToExistingUseList(T, h, T.prev[g]) ELSE T
-----------------------------------------------------------------------------
(* What one list node says of its neighbours and the map. *)
NodeLinked(S, h) ==
  isValid(S.val[h]) =>
    /\ S.val[h] \in S.has
    /\ \/ S.prev[h] = Bucket(S, S.val[h]) /\ S.head[S.val[h]] = h
       \/ /\ S.prev[h] \in Handles
          /\ S.next[S.prev[h]] = h
          /\ S.val[S.prev[h]] = S.val[h]
    /\ S.next[h] = Null \/ /\ S.next[h] \in Handles
                           /\ S.prev[S.next[h]] = h
                           /\ S.val[S.next[h]] = S.val[h]

HeadLinked(S, v) ==
  IF v \in S.has
    THEN /\ S.head[v] \in Handles
         /\ S.val[S.head[v]] = v
         /\ S.prev[S.head[v]] = Bucket(S, v)
    ELSE S.head[v] = Null

WellLinked(S) == /\ \A h \in Handles : NodeLinked(S, h)
                 /\ \A v \in Values : HeadLinked(S, v)
=============================================================================
