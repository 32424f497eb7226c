--------------------------- MODULE ValueHandlesProofs ---------------------------
(* The lists stay well linked, and the loops on them, however callbacks use  *)
(* handles: for any set of handles and values and any depth of loops.        *)
EXTENDS ValueHandles, Integers, FiniteSetTheorems, WellFoundedInduction, TLAPS

(* The operations on value handle lists keep them well linked. *)
Pointers == Handles \cup {Null} \cup ({0, 1} \X Values)
Shape == [val : [Handles -> Values \cup {Null, Tombstone}],
          next : [Handles -> Handles \cup {Null}],
          prev : [Handles -> Pointers],
          head : [Values -> Handles \cup {Null}],
          has : SUBSET Values, array : {0, 1}]

(* The numbers r increase along each list, without leaving out a handle of   *)
(* its value, and start at its head: no list is circular, and none has lost  *)
(* a handle.                                                                 *)
On(S, v, h) == h \in Handles /\ S.val[h] = v
Ordered(S, r) ==
  \A v \in Values :
    /\ \A h \in Handles : On(S, v, h) /\ S.next[h] # Null => r[h] < r[S.next[h]]
    /\ \A g, h \in Handles : On(S, v, g) /\ On(S, v, h) =>
         /\ r[g] = r[h] => g = h
         /\ r[g] < r[h] => S.next[g] # Null /\ r[S.next[g]] <= r[h]
         /\ r[S.head[v]] <= r[h]
Good(S) == /\ S \in Shape
           /\ WellLinked(S)
           /\ \E r \in [Handles -> Int] : Ordered(S, r)
-----------------------------------------------------------------------------
(* Bucket addresses are not handles, and determine the value. *)
LEMMA BucketFacts ==
  ASSUME NEW S \in Shape, NEW v \in Values
  PROVE  /\ Bucket(S, v) \notin Handles \cup {Null}
         /\ Bucket(S, v) \in Pointers
         /\ \A w \in Values : Bucket(S, v) = Bucket(S, w) => v = w
BY ValueHandleListsAssumption DEF Bucket, Shape, Pointers

(* Dropping a handle takes it off its list and leaves every list well linked.*)
LEMMA DropGood ==
  ASSUME NEW S, Good(S), NEW h \in Handles
  PROVE  /\ Good(Drop(S, h))
         /\ Drop(S, h).val = [S.val EXCEPT ![h] = Null]
<1> DEFINE p == S.prev[h]
           n == S.next[h]
           last == n = Null /\ IsBucket(S, p)
           T == Drop(S, h)
<1>s. S \in Shape BY DEF Good
<1>1. CASE ~isValid(S.val[h])
  <2>1. T = [S EXCEPT !.val[h] = Null] BY <1>1 DEF Drop
  <2>2. T \in Shape BY <1>s, <2>1 DEF Shape
  <2>3. /\ T.val = [S.val EXCEPT ![h] = Null] /\ T.next = S.next
        /\ T.prev = S.prev /\ T.head = S.head /\ T.has = S.has
        /\ T.array = S.array
    BY <1>s, <2>1 DEF Shape
  <2>4. \A g \in Handles : isValid(S.val[g]) => T.val[g] = S.val[g] /\ g # h
    BY <1>1, <1>s, <2>3 DEF Shape
  <2>5. \A g \in Handles : isValid(T.val[g]) => T.val[g] = S.val[g]
    BY <1>s, <2>3, ValueHandleListsAssumption DEF Shape, isValid
  <2> HIDE DEF T
  <2>6. WellLinked(T)
    BY <1>s, <2>3, <2>4, <2>5
       DEF Good, WellLinked, NodeLinked, HeadLinked, Bucket, Shape, isValid
  <2>7. \E r \in [Handles -> Int] : Ordered(T, r)
    BY <2>3, <2>5 DEF Good, Ordered, On, isValid
  <2> QED BY <2>2, <2>3, <2>6, <2>7 DEF Good, T
<1>2. CASE isValid(S.val[h])
  <2>1. T = [Unlink(S, h, last) EXCEPT !.val[h] = Null]
    BY <1>2 DEF Drop, RemoveFromUseList
  <2>2. /\ NodeLinked(S, h) /\ \A v \in Values : HeadLinked(S, v)
        /\ \A g \in Handles : NodeLinked(S, g)
    BY DEF Good, WellLinked
  <2>3. /\ T.val = [S.val EXCEPT ![h] = Null]
        /\ T.next = [g \in Handles |-> IF g = h THEN Null
                                       ELSE IF g = p THEN n ELSE S.next[g]]
        /\ T.prev = [g \in Handles |-> IF g = h THEN Null
                                       ELSE IF g = n THEN p ELSE S.prev[g]]
        /\ T.head = [v \in Values |-> IF p = Bucket(S, v) THEN n ELSE S.head[v]]
        /\ T.has = IF last THEN S.has \ {S.val[h]} ELSE S.has
        /\ T.array = S.array
    BY <1>s, <2>1 DEF Unlink, Shape
  <2>4. T \in Shape
    <3>1. p \in Pointers /\ n \in Handles \cup {Null} BY <1>s DEF Shape
    <3>2. /\ T.val \in [Handles -> Values \cup {Null, Tombstone}]
          /\ T.next \in [Handles -> Handles \cup {Null}]
          /\ T.prev \in [Handles -> Pointers]
          /\ T.head \in [Values -> Handles \cup {Null}]
          /\ T.has \in SUBSET Values /\ T.array \in {0, 1}
      BY <1>s, <2>3, <3>1 DEF Shape, Pointers
    <3>3. T = [val |-> T.val, next |-> T.next, prev |-> T.prev,
               head |-> T.head, has |-> T.has, array |-> T.array]
      BY <1>s, <2>1 DEF Unlink, Shape
    <3> HIDE DEF T
    <3> QED BY <3>2, <3>3 DEF Shape
  <2>5. PICK r \in [Handles -> Int] : Ordered(S, r)
    BY DEF Good
  <2>b. h # Null /\ S.val[h] \in Values BY <1>2, ValueHandleListsAssumption DEF isValid
  <2>n. n # Null => /\ n \in Handles /\ n # h /\ S.prev[n] = h
                    /\ S.val[n] = S.val[h] /\ r[h] < r[n]
    <3>1. n # Null => n \in Handles /\ S.prev[n] = h /\ S.val[n] = S.val[h]
      BY <1>2, <2>2 DEF NodeLinked
    <3>2. n # Null => r[h] < r[n] BY <2>b, <2>5 DEF Ordered, On
    <3> QED BY <3>1, <3>2
  <2>p. \/ p = Bucket(S, S.val[h]) /\ p \notin Handles /\ S.head[S.val[h]] = h
        \/ /\ p \in Handles /\ p # h /\ S.next[p] = h /\ S.val[p] = S.val[h]
           /\ ~IsBucket(S, p)
    BY <1>s, <1>2, <2>2, <2>b, <2>n, BucketFacts DEF NodeLinked, IsBucket
  <2>v. \A v \in Values : p = Bucket(S, v) => v = S.val[h]
    BY <1>s, <2>b, <2>p, BucketFacts DEF IsBucket
  <2>f. /\ \A g \in Handles : T.val[g] = IF g = h THEN Null ELSE S.val[g]
        /\ \A g \in Handles : T.next[g] = IF g = h THEN Null
                                       ELSE IF g = p THEN n ELSE S.next[g]
        /\ \A g \in Handles : T.prev[g] = IF g = h THEN Null
                                       ELSE IF g = n THEN p ELSE S.prev[g]
        /\ \A v \in Values : T.head[v] = IF p = Bucket(S, v) THEN n ELSE S.head[v]
        /\ \A v \in Values : Bucket(T, v) = Bucket(S, v)
    BY <1>s, <2>3 DEF Shape, Bucket
  <2>g. \A g \in Handles : isValid(T.val[g]) => g # h /\ T.val[g] = S.val[g]
    BY <1>s, <2>3, ValueHandleListsAssumption DEF Shape, isValid
  <2>l. last => \A g \in Handles : S.val[g] = S.val[h] => g = h
    BY <1>s, <2>b, <2>p, <2>5 DEF Ordered, On
  <2> HIDE DEF T
  <2>9. ASSUME NEW g \in Handles, isValid(T.val[g])
        PROVE  NodeLinked(T, g)
    <3> DEFINE v == S.val[g]
    <3>1. g # h /\ T.val[g] = v /\ v \in Values BY <2>9, <2>g DEF isValid
    <3>2. NodeLinked(S, g) /\ isValid(S.val[g]) BY <2>2, <3>1 DEF isValid
    <3>3. v \in T.has BY <2>3, <2>l, <3>1, <3>2 DEF NodeLinked
    <3>4. \/ T.prev[g] = Bucket(T, v) /\ T.head[v] = g
          \/ T.prev[g] \in Handles /\ T.next[T.prev[g]] = g /\ T.val[T.prev[g]] = v
      <4>1. CASE g = n
        <5>1. n # Null BY <4>1, ValueHandleListsAssumption
        <5>2. T.prev[g] = p /\ v = S.val[h] BY <2>3, <2>n, <3>1, <4>1, <5>1
        <5>3. CASE p \in Handles
          BY <2>f, <2>p, <4>1, <5>2, <5>3
        <5>4. CASE p = Bucket(S, S.val[h])
          BY <2>f, <2>b, <4>1, <5>2, <5>4
        <5> QED BY <2>p, <5>3, <5>4
      <4>2. CASE g # n
        <5>1. T.prev[g] = S.prev[g] BY <2>3, <3>1, <4>2
        <5>2. CASE S.prev[g] \in Handles
          <6>1. S.next[S.prev[g]] = g /\ S.val[S.prev[g]] = v
            BY <1>s, <3>1, <3>2, <5>2, BucketFacts DEF NodeLinked
          <6>2. S.prev[g] # h BY <4>2, <6>1
          <6>3. S.prev[g] # p
            BY <1>s, <2>b, <2>p, <3>1, <5>2, <6>1, BucketFacts
          <6> QED BY <2>f, <5>1, <5>2, <6>1, <6>2, <6>3
        <5>3. CASE S.prev[g] = Bucket(S, v) /\ S.head[v] = g
          <6>1. p # Bucket(S, v) BY <1>s, <2>p, <2>v, <3>1, <5>3, BucketFacts
          <6> QED BY <2>f, <3>1, <5>1, <5>3, <6>1
        <5> QED BY <3>2, <5>2, <5>3 DEF NodeLinked
      <4> QED BY <4>1, <4>2
    <3>5. T.next[g] = Null \/ /\ T.next[g] \in Handles /\ T.prev[T.next[g]] = g
                              /\ T.val[T.next[g]] = v
      BY <1>s, <2>2, <2>3, <2>p, <2>n, <2>b, <3>1, <3>2 DEF NodeLinked, Shape
    <3> QED BY <3>1, <3>3, <3>4, <3>5 DEF NodeLinked
  <2>10. ASSUME NEW v \in Values PROVE HeadLinked(T, v)
    <3>0. HeadLinked(S, v) BY <2>2
    <3>1. CASE p = Bucket(S, v)
      <4>1. v = S.val[h] /\ T.head[v] = n /\ S.head[v] = h
        BY <2>v, <2>p, <2>3, <2>b, <3>1, BucketFacts, <1>s
      <4>2. CASE n = Null
        BY <2>3, <3>1, <4>1, <4>2 DEF HeadLinked, IsBucket
      <4>3. CASE n # Null
        BY <1>s, <2>3, <2>n, <2>b, <3>0, <3>1, <4>1, <4>3
           DEF HeadLinked, Bucket, Shape
      <4> QED BY <4>2, <4>3
    <3>2. CASE p # Bucket(S, v)
      <4>1. T.head[v] = S.head[v] BY <2>3, <3>2
      <4>2. v \in T.has <=> v \in S.has
        BY <2>3, <2>p, <3>2 DEF IsBucket
      <4>3. CASE v \in S.has
        <5>1. S.head[v] # h /\ S.head[v] # n
          BY <1>s, <2>p, <2>n, <2>b, <3>0, <3>2, <4>3, BucketFacts,
             ValueHandleListsAssumption DEF HeadLinked
        <5> QED BY <2>f, <3>0, <4>1, <4>2, <4>3, <5>1 DEF HeadLinked
      <4>4. CASE v \notin S.has
        BY <3>0, <4>1, <4>2, <4>4 DEF HeadLinked
      <4> QED BY <4>3, <4>4
    <3> QED BY <3>1, <3>2
  <2>11. Ordered(T, r)
    <3> SUFFICES ASSUME NEW v \in Values, NEW g \in Handles, On(T, v, g)
                 PROVE  /\ T.next[g] # Null => r[g] < r[T.next[g]]
                        /\ \A k \in Handles : On(T, v, k) =>
                             /\ r[g] = r[k] => g = k
                             /\ r[g] < r[k] => T.next[g] # Null /\ r[T.next[g]] <= r[k]
                             /\ r[T.head[v]] <= r[k]
      BY DEF Ordered
    <3>1. /\ g # h /\ On(S, v, g)
          /\ \A k \in Handles : On(T, v, k) => k # h /\ On(S, v, k)
      BY <2>g DEF On, isValid
    <3>2. /\ \A k \in Handles : On(S, v, k) /\ S.next[k] # Null => r[k] < r[S.next[k]]
          /\ \A x, k \in Handles : On(S, v, x) /\ On(S, v, k) =>
               /\ r[x] = r[k] => x = k
               /\ r[x] < r[k] => S.next[x] # Null /\ r[S.next[x]] <= r[k]
               /\ r[S.head[v]] <= r[k]
      BY <2>5 DEF Ordered
    <3>3. NodeLinked(S, g) /\ isValid(S.val[g]) BY <2>2, <3>1 DEF On, isValid
    <3>4. S.next[g] # h => g # p BY <2>p, <3>1
    <3>5. S.next[g] = h => v = S.val[h] /\ g = p
      BY <2>b, <3>1, <3>3 DEF On, NodeLinked
    <3>6. T.next[g] = IF g = p THEN n ELSE S.next[g] BY <2>3, <3>1
    <3>7. T.next[g] # Null => r[g] < r[T.next[g]]
      BY <1>s, <2>n, <2>p, <2>b, <3>1, <3>2, <3>3, <3>6 DEF On, Shape
    <3>8. ASSUME NEW k \in Handles, On(T, v, k)
          PROVE  /\ r[g] = r[k] => g = k
                 /\ r[g] < r[k] => T.next[g] # Null /\ r[T.next[g]] <= r[k]
      <4>1. k # h /\ On(S, v, k) BY <3>1, <3>8
      <4>2. r[g] = r[k] => g = k BY <3>1, <3>2, <4>1
      <4>3. CASE g = p
        <5>1. S.next[g] = h /\ v = S.val[h] BY <2>p, <3>1, <4>3 DEF On
        <5>2. r[g] < r[k] => r[h] < r[k]
          BY <3>1, <3>2, <4>1, <5>1 DEF On
        <5> QED BY <2>b, <3>2, <3>6, <4>1, <4>2, <4>3, <5>1, <5>2 DEF On
      <4>4. CASE g # p BY <3>1, <3>2, <3>6, <4>1, <4>2, <4>4
      <4> QED BY <4>3, <4>4
    <3>9. ASSUME NEW k \in Handles, On(T, v, k)
          PROVE  r[T.head[v]] <= r[k]
      <4>1. k # h /\ On(S, v, k) BY <3>1, <3>9
      <4>2. CASE p = Bucket(S, v)
        <5>1. v = S.val[h] /\ S.head[v] = h /\ T.head[v] = n
          BY <1>s, <2>v, <2>p, <2>3, <2>b, <4>2, BucketFacts
        <5>2. r[h] < r[k] BY <2>5, <2>b, <3>2, <4>1, <5>1 DEF On
        <5> QED BY <2>b, <3>2, <4>1, <5>1, <5>2 DEF On
      <4>3. CASE p # Bucket(S, v) BY <2>3, <3>2, <4>1, <4>3
      <4> QED BY <4>2, <4>3
    <3> QED BY <3>7, <3>8, <3>9
  <2>12. \A g \in Handles : NodeLinked(T, g) BY <2>9 DEF NodeLinked
  <2> QED BY <2>3, <2>4, <2>5, <2>10, <2>11, <2>12 DEF Good, WellLinked, T
<1> QED BY <1>1, <1>2

(* A pointer at which a handle of v can be spliced in. *)
PointsInto(S, p, v) == \/ p \in Handles /\ S.val[p] = v
                       \/ p = Bucket(S, v) /\ v \in S.has
(* Splicing a handle that is on no list into the list of v. *)
LEMMA AddGood ==
  ASSUME NEW S, Good(S), NEW h \in Handles, ~isValid(S.val[h]),
         NEW v \in Values, NEW p, PointsInto(S, p, v),
         NEW U, U = [S EXCEPT !.val[h] = v]
  PROVE  /\ Good(AddToExistingUseList(U, h, p))
         /\ AddToExistingUseList(U, h, p).val = [S.val EXCEPT ![h] = v]
<1> DEFINE n == Deref(S, p)
           T == AddToExistingUseList(U, h, p)
<1>s. S \in Shape BY DEF Good
<1>u. /\ U.val = [S.val EXCEPT ![h] = v] /\ U.next = S.next /\ U.prev = S.prev
      /\ U.head = S.head /\ U.has = S.has /\ U.array = S.array
      /\ \A w \in Values : Bucket(U, w) = Bucket(S, w)
  BY <1>s DEF Shape, Bucket
<1>t. U \in Shape BY <1>s DEF Shape
<1>d. Deref(U, p) = n BY <1>u DEF Deref, IsBucket, Bucket
<1>2. /\ \A w \in Values : HeadLinked(S, w)
      /\ \A g \in Handles : NodeLinked(S, g)
  BY DEF Good, WellLinked
<1>5. PICK r \in [Handles -> Int] : Ordered(S, r)
  BY DEF Good
<1>b. h # Null /\ S.val[h] \notin Values
  BY ValueHandleListsAssumption DEF isValid
<1>3. /\ T.val = U.val
      /\ T.next = [g \in Handles |-> IF g = h THEN n
                                     ELSE IF g = p THEN h ELSE S.next[g]]
      /\ T.prev = [g \in Handles |-> IF g = h THEN p
                                     ELSE IF g = n THEN h ELSE S.prev[g]]
      /\ T.head = [w \in Values |-> IF p = Bucket(S, w) THEN h ELSE S.head[w]]
      /\ T.has = S.has /\ T.array = S.array
      /\ T = [val |-> T.val, next |-> T.next, prev |-> T.prev,
              head |-> T.head, has |-> T.has, array |-> T.array]
  <2>1. T = Splice(U, h, p, n, h) BY <1>d DEF AddToExistingUseList
  <2>2. /\ T.val = U.val
        /\ T.next = [g \in Handles |-> IF g = h THEN n
                                       ELSE IF g = p THEN h ELSE U.next[g]]
        /\ T.prev = [g \in Handles |-> IF g = h THEN p
                                       ELSE IF g = n THEN h ELSE U.prev[g]]
        /\ T.head = [w \in Values |-> IF p = Bucket(U, w) THEN h ELSE U.head[w]]
        /\ T.has = U.has /\ T.array = U.array
        /\ T = [val |-> T.val, next |-> T.next, prev |-> T.prev,
                head |-> T.head, has |-> T.has, array |-> T.array]
    <3> HIDE DEF n, T
    <3> QED BY <1>t, <2>1 DEF Splice, Shape
  <2>3. T.head = [w \in Values |-> IF p = Bucket(S, w) THEN h ELSE S.head[w]]
    <3> HIDE DEF n, T
    <3> QED BY <1>u, <2>2
  <2> HIDE DEF n, T
  <2> QED BY <1>u, <2>2, <2>3
<1>p. \/ p = Bucket(S, v) /\ p \notin Handles /\ n = S.head[v] /\ v \in S.has
      \/ p \in Handles /\ p # h /\ n = S.next[p] /\ S.val[p] = v /\ ~IsBucket(S, p)
  <2>1. CASE p \in Handles /\ S.val[p] = v
    BY <1>s, <1>b, <2>1, BucketFacts DEF Deref, IsBucket
  <2>2. CASE p = Bucket(S, v) /\ v \in S.has
    <3>1. p \notin Handles /\ IsBucket(S, p) BY <1>s, <2>2, BucketFacts DEF IsBucket
    <3>2. (CHOOSE w \in Values : p = Bucket(S, w)) = v BY <1>s, <2>2, BucketFacts
    <3> QED BY <2>2, <3>1, <3>2 DEF Deref
  <2> QED BY <2>1, <2>2 DEF PointsInto
<1>n. n # Null => n \in Handles /\ n # h /\ S.prev[n] = p /\ S.val[n] = v
  BY <1>2, <1>b, <1>p DEF NodeLinked, HeadLinked, isValid
<1>v. \A w \in Values : p = Bucket(S, w) => w = v
  BY <1>s, <1>p, BucketFacts DEF IsBucket
<1>h. v \in S.has BY <1>2, <1>p DEF NodeLinked, isValid
<1>4. T \in Shape
  <2>1. p \in Pointers /\ n \in Handles \cup {Null}
    BY <1>s, <1>p, <1>n, BucketFacts DEF Pointers
  <2>2. /\ T.val \in [Handles -> Values \cup {Null, Tombstone}]
        /\ T.next \in [Handles -> Handles \cup {Null}]
        /\ T.prev \in [Handles -> Pointers]
        /\ T.head \in [Values -> Handles \cup {Null}]
        /\ T.has \in SUBSET Values /\ T.array \in {0, 1}
    <3> HIDE DEF T
    <3> QED BY <1>s, <1>3, <1>u, <2>1 DEF Shape, Pointers
  <2> HIDE DEF T
  <2> QED BY <1>3, <2>2 DEF Shape
<1> HIDE DEF T
<1>f. /\ \A g \in Handles : T.val[g] = IF g = h THEN v ELSE S.val[g]
      /\ \A g \in Handles : T.next[g] = IF g = h THEN n
                                        ELSE IF g = p THEN h ELSE S.next[g]
      /\ \A g \in Handles : T.prev[g] = IF g = h THEN p
                                        ELSE IF g = n THEN h ELSE S.prev[g]
      /\ \A w \in Values : T.head[w] = IF p = Bucket(S, w) THEN h ELSE S.head[w]
      /\ \A w \in Values : Bucket(T, w) = Bucket(S, w)
      /\ T.has = S.has
  BY <1>s, <1>u, <1>3 DEF Shape, Bucket
<1> HIDE DEF n
<1>9. ASSUME NEW g \in Handles, isValid(T.val[g])
      PROVE  NodeLinked(T, g)
  <2>1. CASE g = h
    <3>1. T.val[g] = v /\ v \in T.has BY <1>f, <1>h, <2>1
    <3>2. \/ T.prev[g] = Bucket(T, v) /\ T.head[v] = g
          \/ T.prev[g] \in Handles /\ T.next[T.prev[g]] = g /\ T.val[T.prev[g]] = v
      BY <1>f, <1>p, <2>1
    <3>3. T.next[g] = Null \/ /\ T.next[g] \in Handles /\ T.prev[T.next[g]] = g
                              /\ T.val[T.next[g]] = v
      BY <1>f, <1>n, <2>1
    <3> QED BY <3>1, <3>2, <3>3 DEF NodeLinked
  <2>2. CASE g # h
    <3> DEFINE w == S.val[g]
    <3>1. T.val[g] = w /\ w \in Values /\ NodeLinked(S, g) /\ isValid(S.val[g])
      BY <1>2, <1>9, <1>f, <2>2 DEF isValid
    <3>2. w \in T.has BY <1>f, <3>1 DEF NodeLinked
    <3>4. ASSUME g # n
          PROVE  \/ T.prev[g] = Bucket(T, w) /\ T.head[w] = g
                 \/ /\ T.prev[g] \in Handles /\ T.next[T.prev[g]] = g
                    /\ T.val[T.prev[g]] = w
      <4>1. T.prev[g] = S.prev[g] BY <1>f, <2>2, <3>4
      <4>2. CASE S.prev[g] \in Handles
        <5>1. S.next[S.prev[g]] = g /\ S.val[S.prev[g]] = w
          BY <1>s, <3>1, <4>2, BucketFacts DEF NodeLinked
        <5>2. S.prev[g] # h /\ S.prev[g] # p
          BY <1>s, <1>b, <1>p, <3>1, <3>4, <4>2, <5>1, BucketFacts
        <5> QED BY <1>f, <4>1, <4>2, <5>1, <5>2
      <4>3. CASE S.prev[g] = Bucket(S, w) /\ S.head[w] = g
        <5>1. p # Bucket(S, w)
          BY <1>s, <1>p, <1>v, <3>1, <3>4, <4>3, BucketFacts
        <5> QED BY <1>f, <3>1, <4>1, <4>3, <5>1
      <4> QED BY <3>1, <4>2, <4>3 DEF NodeLinked
    <3>5. \/ T.prev[g] = Bucket(T, w) /\ T.head[w] = g
          \/ T.prev[g] \in Handles /\ T.next[T.prev[g]] = g /\ T.val[T.prev[g]] = w
      <4>1. CASE g = n
        <5>1. T.prev[g] = h /\ T.next[h] = g /\ T.val[h] = v BY <1>f, <2>2, <4>1
        <5>2. w = v BY <1>n, <4>1, ValueHandleListsAssumption
        <5> QED BY <5>1, <5>2
      <4>2. CASE g # n BY <3>4, <4>2
      <4> QED BY <4>1, <4>2
    <3>6. T.next[g] = Null \/ /\ T.next[g] \in Handles /\ T.prev[T.next[g]] = g
                              /\ T.val[T.next[g]] = w
      <4>1. CASE g = p
        BY <1>f, <1>p, <2>2, <4>1
      <4>2. CASE g # p
        <5>1. T.next[g] = S.next[g] BY <1>f, <2>2, <4>2
        <5>2. S.next[g] # Null => /\ S.next[g] \in Handles /\ S.next[g] # h
                                  /\ S.prev[S.next[g]] = g
                                  /\ S.val[S.next[g]] = w
          BY <1>b, <3>1 DEF NodeLinked
        <5>3. S.next[g] # Null => S.next[g] # n
          BY <1>n, <4>2, <5>2
        <5> QED BY <1>f, <5>1, <5>2, <5>3
      <4> QED BY <4>1, <4>2
    <3> QED BY <3>1, <3>2, <3>5, <3>6 DEF NodeLinked
  <2> QED BY <2>1, <2>2
<1>10. ASSUME NEW w \in Values PROVE HeadLinked(T, w)
  <2>0. HeadLinked(S, w) BY <1>2
  <2>1. CASE p = Bucket(S, w)
    BY <1>f, <1>v, <1>h, <2>1 DEF HeadLinked
  <2>2. CASE p # Bucket(S, w)
    <3>1. CASE w \in S.has
      <4>1. S.head[w] # h /\ S.head[w] # n
        BY <1>s, <1>n, <1>b, <2>0, <2>2, <3>1, ValueHandleListsAssumption
           DEF HeadLinked
      <4> QED BY <1>f, <2>0, <2>2, <3>1, <4>1 DEF HeadLinked
    <3>2. CASE w \notin S.has BY <1>f, <2>0, <2>2, <3>2 DEF HeadLinked
    <3> QED BY <3>1, <3>2
  <2> QED BY <2>1, <2>2
<1> DEFINE low == IF p \in Handles THEN 2 * r[p] + 1 ELSE 2 * r[n] - 1
           R == [g \in Handles |-> IF g = h THEN low ELSE 2 * r[g]]
<1>11. R \in [Handles -> Int]
  BY <1>2, <1>p, <1>n DEF HeadLinked
<1>12. Ordered(T, R)
  <2>0. \A w \in Values :
          /\ \A k \in Handles : On(S, w, k) /\ S.next[k] # Null => r[k] < r[S.next[k]]
          /\ \A x, k \in Handles : On(S, w, x) /\ On(S, w, k) =>
               /\ r[x] = r[k] => x = k
               /\ r[x] < r[k] => S.next[x] # Null /\ r[S.next[x]] <= r[k]
               /\ r[S.head[w]] <= r[k]
    BY <1>5 DEF Ordered
  <2>t. \A g \in Handles : S.next[g] # Null => S.next[g] \in Handles
    BY <1>s DEF Shape
  <2> SUFFICES ASSUME NEW w \in Values, NEW g \in Handles, On(T, w, g)
               PROVE  /\ T.next[g] # Null => R[g] < R[T.next[g]]
                      /\ \A k \in Handles : On(T, w, k) =>
                           /\ R[g] = R[k] => g = k
                           /\ R[g] < R[k] => T.next[g] # Null /\ R[T.next[g]] <= R[k]
                           /\ R[T.head[w]] <= R[k]
    BY DEF Ordered
  <2>1. \A k \in Handles : On(T, w, k) => IF k = h THEN w = v ELSE On(S, w, k)
    BY <1>f DEF On
  <2>a. \A k \in Handles : k # h /\ On(T, w, k) => R[k] = 2 * r[k] /\ r[k] \in Int
    OBVIOUS
  <2>2. CASE p \in Handles
    <3>1. /\ p # h /\ n = S.next[p] /\ On(S, v, p) /\ low = 2 * r[p] + 1
          /\ \A x \in Values : T.head[x] = S.head[x]
      BY <1>p, <1>f, <2>2 DEF On, IsBucket
    <3>2. T.next[g] # Null => R[g] < R[T.next[g]]
      <4>1. CASE g = h
        BY <1>f, <1>n, <2>0, <3>1, <4>1 DEF On
      <4>2. CASE g = p BY <1>f, <3>1, <4>2
      <4>3. CASE g # h /\ g # p
        <5>1. On(S, w, g) /\ T.next[g] = S.next[g] BY <1>f, <2>1, <4>3
        <5>2. S.next[g] # h
          BY <1>2, <1>b, <5>1 DEF NodeLinked, On, isValid
        <5> QED BY <2>0, <2>t, <4>3, <5>1, <5>2
      <4> QED BY <4>1, <4>2, <4>3
    <3>3. ASSUME NEW k \in Handles, On(T, w, k)
          PROVE  /\ R[g] = R[k] => g = k
                 /\ R[g] < R[k] => T.next[g] # Null /\ R[T.next[g]] <= R[k]
      <4>1. CASE g = h /\ k = h BY <4>1, <1>11
      <4>2. CASE g = h /\ k # h
        <5>1. On(S, v, k) /\ w = v BY <2>1, <3>3, <4>2
        <5>2. R[g] = 2 * r[p] + 1 /\ R[k] = 2 * r[k] BY <3>1, <4>2
        <5>3. R[g] < R[k] => r[p] < r[k] BY <2>2, <3>1, <5>2
        <5>4. R[g] < R[k] => n # Null /\ r[n] <= r[k] BY <2>0, <2>2, <3>1, <5>1, <5>3
        <5> QED BY <1>f, <1>n, <2>2, <4>2, <5>2, <5>4, <3>1
      <4>3. CASE g # h /\ k = h
        <5>1. On(S, v, g) /\ w = v BY <2>1, <3>3, <4>3
        <5>2. R[k] = 2 * r[p] + 1 /\ R[g] = 2 * r[g] BY <3>1, <4>3
        <5>3. R[g] < R[k] => r[g] <= r[p] BY <2>2, <3>1, <5>2
        <5>4. CASE g = p BY <1>f, <1>b, <4>3, <5>2, <5>4
        <5>5. CASE g # p
          <6>1. R[g] < R[k] => r[g] < r[p] BY <2>0, <2>2, <3>1, <5>1, <5>3, <5>5
          <6>2. R[g] < R[k] => S.next[g] # Null /\ r[S.next[g]] <= r[p]
            BY <2>0, <2>2, <3>1, <5>1, <6>1
          <6>3. T.next[g] = S.next[g] /\ (S.next[g] # Null => S.next[g] # h)
            BY <1>f, <1>2, <1>b, <4>3, <5>1, <5>5 DEF NodeLinked, On, isValid
          <6> QED BY <2>2, <2>t, <5>2, <6>2, <6>3, <3>1
        <5> QED BY <5>4, <5>5
      <4>4. CASE g # h /\ k # h
        <5>1. On(S, w, g) /\ On(S, w, k) BY <2>1, <3>3, <4>4
        <5>2. R[k] = 2 * r[k] /\ R[g] = 2 * r[g] BY <4>4
        <5>3. CASE g = p
          BY <1>f, <2>0, <3>1, <4>4, <5>1, <5>2, <5>3, <1>b
        <5>4. CASE g # p
          <6>1. T.next[g] = S.next[g] /\ (S.next[g] # Null => S.next[g] # h)
            BY <1>f, <1>2, <1>b, <4>4, <5>1, <5>4 DEF NodeLinked, On, isValid
          <6> QED BY <2>0, <2>t, <5>1, <5>2, <6>1
        <5> QED BY <5>3, <5>4
      <4> QED BY <4>1, <4>2, <4>3, <4>4
    <3>4. ASSUME NEW k \in Handles, On(T, w, k)
          PROVE  R[T.head[w]] <= R[k]
      <4> DEFINE m == IF k = h THEN p ELSE k
      <4>1. On(S, w, m) BY <2>1, <3>1, <3>4 DEF On
      <4>2. r[S.head[w]] <= r[m] BY <2>0, <4>1 DEF On
      <4>3. S.head[w] \in Handles /\ S.head[w] # h
        BY <1>2, <1>b, <4>1 DEF NodeLinked, HeadLinked, On, isValid
      <4> QED BY <3>1, <4>1, <4>2, <4>3 DEF On
    <3> QED BY <3>2, <3>3, <3>4
  <2>3. CASE p \notin Handles
    <3>1. /\ n \in Handles /\ n # h /\ On(S, v, n) /\ low = 2 * r[n] - 1
          /\ n = S.head[v] /\ T.head[v] = h
          /\ \A x \in Values \ {v} : T.head[x] = S.head[x]
          /\ \A k \in Handles \ {h} : T.next[k] = S.next[k]
          /\ T.next[h] = n
      BY <1>p, <1>n, <1>2, <1>f, <1>v, <2>3, ValueHandleListsAssumption
         DEF On, HeadLinked
    <3>2. \A k \in Handles : On(S, v, k) => r[n] <= r[k] BY <2>0, <3>1
    <3>3. \A k \in Handles \ {h} : On(S, w, k) /\ S.next[k] # Null => S.next[k] # h
      BY <1>2, <1>b DEF NodeLinked, On, isValid
    <3>4. T.next[g] # Null => R[g] < R[T.next[g]]
      <4>1. CASE g = h BY <3>1, <4>1
      <4>2. CASE g # h BY <2>0, <2>1, <2>t, <3>1, <3>3, <4>2
      <4> QED BY <4>1, <4>2
    <3>5. ASSUME NEW k \in Handles, On(T, w, k)
          PROVE  /\ R[g] = R[k] => g = k
                 /\ R[g] < R[k] => T.next[g] # Null /\ R[T.next[g]] <= R[k]
      <4>1. CASE g = h /\ k = h BY <4>1, <1>11
      <4>2. CASE g = h /\ k # h
        <5>1. On(S, v, k) /\ r[n] <= r[k] BY <2>1, <3>2, <3>5, <4>2
        <5>2. R[g] = 2 * r[n] - 1 /\ R[k] = 2 * r[k] /\ R[n] = 2 * r[n]
          BY <3>1, <4>2
        <5> QED BY <3>1, <4>2, <5>1, <5>2, ValueHandleListsAssumption
      <4>3. CASE g # h /\ k = h
        <5>1. On(S, v, g) /\ r[n] <= r[g] BY <2>1, <3>2, <3>5, <4>3
        <5>2. R[k] = 2 * r[n] - 1 /\ R[g] = 2 * r[g] BY <3>1, <4>3
        <5> QED BY <3>1, <4>3, <5>1, <5>2
      <4>4. CASE g # h /\ k # h
        <5>1. On(S, w, g) /\ On(S, w, k) BY <2>1, <3>5, <4>4
        <5>2. R[k] = 2 * r[k] /\ R[g] = 2 * r[g] BY <4>4
        <5> QED BY <2>0, <2>t, <3>1, <3>3, <4>4, <5>1, <5>2
      <4> QED BY <4>1, <4>2, <4>3, <4>4
    <3>6. ASSUME NEW k \in Handles, On(T, w, k)
          PROVE  R[T.head[w]] <= R[k]
      <4>1. CASE w = v
        <5>1. R[T.head[w]] = 2 * r[n] - 1 BY <3>1, <4>1
        <5>2. k # h => R[k] = 2 * r[k] /\ r[n] <= r[k] BY <2>1, <3>2, <3>6, <4>1
        <5>3. k = h => R[k] = 2 * r[n] - 1 BY <3>1
        <5> QED BY <3>1, <5>1, <5>2, <5>3
      <4>2. CASE w # v
        <5>1. k # h /\ On(S, w, k) BY <2>1, <3>6, <4>2
        <5>2. S.head[w] \in Handles /\ S.head[w] # h
          BY <1>2, <1>b, <5>1 DEF NodeLinked, HeadLinked, On, isValid
        <5> QED BY <2>0, <3>1, <4>2, <5>1, <5>2
      <4> QED BY <4>1, <4>2
    <3> QED BY <3>4, <3>5, <3>6
  <2> QED BY <2>2, <2>3
<1>13. \A g \in Handles : NodeLinked(T, g) BY <1>9 DEF NodeLinked
<1> QED BY <1>3, <1>u, <1>4, <1>10, <1>11, <1>12, <1>13 DEF Good, WellLinked, T
(* The first handle of a value: its list is created, and the map may move.   *)
LEMMA InsertGood ==
  ASSUME NEW S, Good(S), NEW h \in Handles, ~isValid(S.val[h]),
         NEW v \in Values, v \notin S.has, NEW array \in {0, 1},
         NEW U, U = [S EXCEPT !.val[h] = v]
  PROVE  /\ Good(InsertFirst(U, h, array))
         /\ InsertFirst(U, h, array).val = [S.val EXCEPT ![h] = v]
<1> DEFINE V == [U EXCEPT !.array = array]
           p == <<array, v>>
           fix == array # S.array
           T == AddToExistingUseList(V, h, p)
           X == InsertFirst(U, h, array)
<1>s. S \in Shape BY DEF Good
<1>u. /\ V.val = [S.val EXCEPT ![h] = v] /\ V.next = S.next /\ V.prev = S.prev
      /\ V.head = S.head /\ V.has = S.has /\ V.array = array
      /\ U.val[h] = v /\ U.array = S.array /\ U.has = S.has
  BY <1>s DEF Shape
<1>v. V \in Shape BY <1>s DEF Shape
<1>x. X = [T EXCEPT !.has = S.has \cup {v},
                    !.prev = [g \in Handles |->
                                IF fix /\ \E w \in Values : T.head[w] = g
                                  THEN <<array, T.val[g]>> ELSE T.prev[g]]]
  <2>1. X = Insert(U, h, array, array # U.array) BY DEF InsertFirst
  <2>2. X = Insert(U, h, array, fix) BY <1>u, <2>1
  <2>3. U.val[h] = v /\ U.has = S.has BY <1>u
  <2> HIDE DEF X, fix
  <2>4. PICK A : /\ A = AddToExistingUseList([U EXCEPT !.array = array], h,
                                             <<array, U.val[h]>>)
                 /\ X = [A EXCEPT !.has = U.has \cup {U.val[h]},
                           !.prev = [g \in Handles |->
                             IF fix /\ \E w \in Values : A.head[w] = g
                               THEN <<array, A.val[g]>> ELSE A.prev[g]]]
    BY <2>2 DEF Insert
  <2>5. A = T BY <2>3, <2>4
  <2> HIDE DEF V, T, p
  <2> QED BY <2>3, <2>4, <2>5
<1> HIDE DEF V, X
<1>2. /\ \A w \in Values : HeadLinked(S, w)
      /\ \A g \in Handles : NodeLinked(S, g)
  BY DEF Good, WellLinked
<1>b. h # Null /\ S.val[h] \notin Values
  BY ValueHandleListsAssumption DEF isValid
<1>p. /\ p \notin Handles \cup {Null}
      /\ \A w \in Values : p = Bucket(V, w) <=> w = v
      /\ IsBucket(V, p)
  BY <1>u, ValueHandleListsAssumption DEF Bucket, IsBucket
<1>d. Deref(V, p) = Null
  <2>1. (CHOOSE w \in Values : p = Bucket(V, w)) = v BY <1>p
  <2>2. S.head[v] = Null BY <1>2 DEF HeadLinked
  <2> QED BY <1>p, <1>u, <2>1, <2>2 DEF Deref
<1>t. T = Splice(V, h, p, Null, h) BY <1>d DEF AddToExistingUseList
<1>3. /\ T.val = [S.val EXCEPT ![h] = v]
      /\ T.next = [g \in Handles |-> IF g = h THEN Null ELSE S.next[g]]
      /\ T.prev = [g \in Handles |-> IF g = h THEN p ELSE S.prev[g]]
      /\ T.head = [w \in Values |-> IF w = v THEN h ELSE S.head[w]]
      /\ T.has = S.has /\ T.array = array
      /\ T = [val |-> T.val, next |-> T.next, prev |-> T.prev,
              head |-> T.head, has |-> T.has, array |-> T.array]
  <2>1. /\ T.val = V.val
        /\ T.next = [g \in Handles |-> IF g = h THEN Null
                                       ELSE IF g = p THEN h ELSE V.next[g]]
        /\ T.prev = [g \in Handles |-> IF g = h THEN p
                                       ELSE IF g = Null THEN h ELSE V.prev[g]]
        /\ T.head = [w \in Values |-> IF p = Bucket(V, w) THEN h ELSE V.head[w]]
        /\ T.has = V.has /\ T.array = V.array
        /\ T = [val |-> T.val, next |-> T.next, prev |-> T.prev,
                head |-> T.head, has |-> T.has, array |-> T.array]
    <3> HIDE DEF T, p
    <3> QED BY <1>v, <1>t DEF Splice, Shape
  <2> HIDE DEF T, p
  <2>2. T.next = [g \in Handles |-> IF g = h THEN Null ELSE S.next[g]]
    BY <1>u, <1>p, <2>1
  <2>3. T.prev = [g \in Handles |-> IF g = h THEN p ELSE S.prev[g]]
    BY <1>u, <2>1, ValueHandleListsAssumption
  <2>4. T.head = [w \in Values |-> IF w = v THEN h ELSE S.head[w]]
    BY <1>u, <1>p, <2>1
  <2> QED BY <1>u, <2>1, <2>2, <2>3, <2>4
<1> HIDE DEF T
<1>4. /\ X.val = T.val /\ X.next = T.next /\ X.head = T.head
      /\ X.has = S.has \cup {v} /\ X.array = array
      /\ X.prev = [g \in Handles |->
                     IF fix /\ \E w \in Values : T.head[w] = g
                       THEN <<array, T.val[g]>> ELSE T.prev[g]]
      /\ X = [val |-> X.val, next |-> X.next, prev |-> X.prev,
              head |-> X.head, has |-> X.has, array |-> X.array]
  BY <1>x, <1>3
<1>f. /\ \A g \in Handles : X.val[g] = IF g = h THEN v ELSE S.val[g]
      /\ \A g \in Handles : X.next[g] = IF g = h THEN Null ELSE S.next[g]
      /\ \A w \in Values : X.head[w] = IF w = v THEN h ELSE S.head[w]
      /\ \A w \in Values : Bucket(X, w) = <<array, w>>
  BY <1>s, <1>3, <1>4 DEF Shape, Bucket
<1>h. X.prev[h] = Bucket(X, v) BY <1>3, <1>4, <1>f
<1>e. \A g \in Handles : S.val[g] # v BY <1>2 DEF NodeLinked, isValid
<1>g. ASSUME NEW g \in Handles, g # h, isValid(S.val[g])
      PROVE  /\ S.prev[g] \in Handles => X.prev[g] = S.prev[g]
             /\ /\ S.prev[g] = Bucket(S, S.val[g])
                /\ S.head[S.val[g]] = g
                => X.prev[g] = Bucket(X, S.val[g])
  <2>1. S.prev[g] \in Handles => \A w \in Values : T.head[w] # g
    <3>1. \A w \in Values : S.head[w] = g => S.prev[g] = Bucket(S, w)
      BY <1>2, ValueHandleListsAssumption DEF HeadLinked
    <3> QED BY <1>s, <1>3, <1>g, <3>1, BucketFacts
  <2>2. S.prev[g] \in Handles => X.prev[g] = S.prev[g]
    BY <1>3, <1>4, <1>g, <2>1
  <2>3. ASSUME S.prev[g] = Bucket(S, S.val[g]), S.head[S.val[g]] = g
        PROVE  X.prev[g] = Bucket(X, S.val[g])
    <3>1. S.val[g] \in Values /\ S.val[g] # v BY <1>e, <1>g DEF isValid
    <3>2. T.head[S.val[g]] = g BY <1>3, <2>3, <3>1
    <3>3. T.val[g] = S.val[g] /\ T.prev[g] = S.prev[g] BY <1>s, <1>3, <1>g DEF Shape
    <3>4. CASE fix BY <1>4, <1>f, <3>1, <3>2, <3>3, <3>4
    <3>5. CASE ~fix
      BY <1>4, <1>f, <2>3, <3>1, <3>3, <3>5 DEF Bucket
    <3> QED BY <3>4, <3>5
  <2> QED BY <2>2, <2>3
<1>5. X \in Shape
  <2>1. /\ X.val \in [Handles -> Values \cup {Null, Tombstone}]
        /\ X.next \in [Handles -> Handles \cup {Null}]
        /\ X.head \in [Values -> Handles \cup {Null}]
        /\ X.has \in SUBSET Values /\ X.array \in {0, 1}
    BY <1>s, <1>3, <1>4 DEF Shape
  <2>2. \A g \in Handles, w \in Values : T.head[w] = g => T.val[g] \in Values
    BY <1>2, <1>3, <1>e, <1>s, <1>b, ValueHandleListsAssumption
       DEF HeadLinked, Shape
  <2>3. X.prev \in [Handles -> Pointers]
    <3>1. \A g \in Handles : T.prev[g] \in Pointers
      <4>1. p \in Pointers BY DEF Pointers
      <4>2. \A g \in Handles : S.prev[g] \in Pointers BY <1>s DEF Shape
      <4> HIDE DEF p
      <4> QED BY <1>3, <4>1, <4>2
    <3> HIDE DEF fix
    <3> QED BY <1>4, <2>2, <3>1 DEF Pointers
  <2> QED BY <1>4, <2>1, <2>3 DEF Shape
<1>6. ASSUME NEW g \in Handles PROVE NodeLinked(X, g)
  <2>1. CASE g = h BY <1>f, <1>h, <1>4, <2>1 DEF NodeLinked
  <2>2. CASE g # h /\ isValid(S.val[g])
    <3>1. NodeLinked(S, g) /\ X.val[g] = S.val[g] /\ S.val[g] # v
          /\ S.val[g] \in Values
      BY <1>2, <1>f, <1>e, <2>2 DEF isValid
    <3>2. \/ X.prev[g] = Bucket(X, X.val[g]) /\ X.head[X.val[g]] = g
          \/ /\ X.prev[g] \in Handles /\ X.next[X.prev[g]] = g
             /\ X.val[X.prev[g]] = X.val[g]
      <4>1. CASE S.prev[g] = Bucket(S, S.val[g]) /\ S.head[S.val[g]] = g
        BY <1>f, <1>g, <2>2, <3>1, <4>1
      <4>2. CASE /\ S.prev[g] \in Handles /\ S.next[S.prev[g]] = g
                 /\ S.val[S.prev[g]] = S.val[g]
        <5>1. S.prev[g] # h BY <1>b, <3>1, <4>2
        <5> QED BY <1>f, <1>g, <2>2, <3>1, <4>2, <5>1
      <4> QED BY <2>2, <3>1, <4>1, <4>2 DEF NodeLinked
    <3>3. X.next[g] = Null \/ /\ X.next[g] \in Handles /\ X.prev[X.next[g]] = g
                              /\ X.val[X.next[g]] = X.val[g]
      <4>1. S.next[g] = Null \/ /\ S.next[g] \in Handles /\ S.next[g] # h
                                /\ S.prev[S.next[g]] = g
                                /\ S.val[S.next[g]] = S.val[g]
        BY <1>b, <2>2, <3>1 DEF NodeLinked
      <4> QED BY <1>f, <1>g, <2>2, <3>1, <4>1
    <3>4. X.val[g] \in X.has BY <1>4, <2>2, <3>1 DEF NodeLinked
    <3> QED BY <3>2, <3>3, <3>4 DEF NodeLinked
  <2>3. CASE g # h /\ ~isValid(S.val[g]) BY <1>f, <2>3 DEF NodeLinked
  <2> QED BY <2>1, <2>2, <2>3
<1>7. ASSUME NEW w \in Values PROVE HeadLinked(X, w)
  <2>1. CASE w = v BY <1>4, <1>f, <1>h, <2>1 DEF HeadLinked
  <2>2. CASE w # v /\ w \in S.has
    <3> DEFINE g == S.head[w]
    <3>1. g \in Handles /\ S.val[g] = w /\ S.prev[g] = Bucket(S, w) /\ g # h
      BY <1>2, <1>b, <2>2 DEF HeadLinked
    <3>2. X.head[w] = g BY <1>f, <2>2
    <3> HIDE DEF g
    <3>3. S.head[S.val[g]] = g /\ isValid(S.val[g]) BY <3>1 DEF g, isValid
    <3>4. X.prev[g] = Bucket(X, w) BY <1>g, <3>1, <3>3
    <3>5. X.val[g] = w BY <1>f, <3>1
    <3>6. w \in X.has BY <1>4, <2>2
    <3> QED BY <3>1, <3>2, <3>4, <3>5, <3>6 DEF HeadLinked
  <2>3. CASE w # v /\ w \notin S.has
    BY <1>2, <1>4, <1>f, <2>3 DEF HeadLinked
  <2> QED BY <2>1, <2>2, <2>3
<1>8. ASSUME NEW r \in [Handles -> Int], Ordered(S, r) PROVE Ordered(X, r)
  <2>1. \A w \in Values, g \in Handles :
          On(X, w, g) => IF g = h THEN w = v ELSE w # v /\ On(S, w, g)
    BY <1>f, <1>e DEF On
  <2>2. \A w \in Values, g \in Handles :
          w # v /\ On(S, w, g) => g # h /\ X.next[g] = S.next[g]
                                  /\ X.head[w] = S.head[w]
    BY <1>f, <1>b DEF On
  <2>3. X.next[h] = Null /\ X.head[v] = h BY <1>f
  <2> SUFFICES ASSUME NEW w \in Values
               PROVE  /\ \A g \in Handles : On(X, w, g) /\ X.next[g] # Null
                                              => r[g] < r[X.next[g]]
                      /\ \A g, k \in Handles : On(X, w, g) /\ On(X, w, k) =>
                           /\ r[g] = r[k] => g = k
                           /\ r[g] < r[k] => X.next[g] # Null /\ r[X.next[g]] <= r[k]
                           /\ r[X.head[w]] <= r[k]
    BY DEF Ordered
  <2>4. CASE w = v BY <2>1, <2>3, <2>4
  <2>5. CASE w # v BY <1>8, <2>1, <2>2, <2>5 DEF Ordered
  <2> QED BY <2>4, <2>5
<1>9. Good(X) BY <1>5, <1>6, <1>7, <1>8 DEF Good, WellLinked
<1> QED BY <1>3, <1>4, <1>9 DEF X

(* S with the value of one handle set. *)
SetVal(S, h, v) == [S EXCEPT !.val[h] = v]

(* Making a handle that is on no list null or a tombstone leaves all lists  *)
(* good.                                                                     *)
LEMMA MarkGood ==
  ASSUME NEW S, Good(S), NEW h \in Handles, ~isValid(S.val[h]),
         NEW v \in Values \cup {Null, Tombstone}, ~isValid(v)
  PROVE  /\ Good(SetVal(S, h, v))
         /\ SetVal(S, h, v).val = [S.val EXCEPT ![h] = v]
<1> DEFINE T == SetVal(S, h, v)
<1>s. S \in Shape BY DEF Good
<1>2. T \in Shape BY <1>s DEF Shape, SetVal
<1>3. /\ T.val = [S.val EXCEPT ![h] = v] /\ T.next = S.next
      /\ T.prev = S.prev /\ T.head = S.head /\ T.has = S.has
      /\ T.array = S.array
  BY <1>s DEF Shape, SetVal
<1> HIDE DEF T
<1>4. \A g \in Handles : isValid(S.val[g]) => T.val[g] = S.val[g] /\ g # h
  BY <1>s, <1>3 DEF Shape
<1>5. \A g \in Handles : isValid(T.val[g]) => T.val[g] = S.val[g]
  BY <1>s, <1>3, ValueHandleListsAssumption DEF Shape, isValid
<1>6. WellLinked(T)
  BY <1>s, <1>3, <1>4, <1>5
     DEF Good, WellLinked, NodeLinked, HeadLinked, Bucket, Shape, isValid
<1>7. \E r \in [Handles -> Int] : Ordered(T, r)
  BY <1>3, <1>5 DEF Good, Ordered, On, isValid
<1> QED BY <1>2, <1>3, <1>6, <1>7 DEF Good, T

(* AddToUseList, for a handle that has just been given the value v. *)
LEMMA AddToUseListGood ==
  ASSUME NEW S, Good(S), NEW h \in Handles, ~isValid(S.val[h]),
         NEW v \in Values, NEW U, U = [S EXCEPT !.val[h] = v],
         NEW X \in AddToUseList(U, h)
  PROVE  Good(X) /\ X.val = [S.val EXCEPT ![h] = v]
<1>1. S \in Shape BY DEF Good
<1>2. U.val[h] = v /\ U.has = S.has /\ Bucket(U, v) = Bucket(S, v)
  BY <1>1 DEF Shape, Bucket
<1>3. CASE v \in S.has
  <2>1. X = AddToExistingUseList(U, h, Bucket(S, v))
    BY <1>2, <1>3 DEF AddToUseList
  <2>2. PointsInto(S, Bucket(S, v), v) BY <1>3 DEF PointsInto
  <2> QED BY <2>1, <2>2, AddGood
<1>4. CASE v \notin S.has
  <2>1. PICK a \in {0, 1} : X = InsertFirst(U, h, a)
    BY <1>2, <1>4 DEF AddToUseList
  <2>3. /\ Good(InsertFirst(U, h, a))
        /\ InsertFirst(U, h, a).val = [S.val EXCEPT ![h] = v]
    BY <1>4, InsertGood
  <2> QED BY <2>1, <2>3
<1> QED BY <1>3, <1>4

(* operator=(Value *V), and construction from a value. *)
LEMMA AssignValueGood ==
  ASSUME NEW S, Good(S), NEW h \in Handles,
         NEW v \in Values \cup {Null, Tombstone}, NEW X \in AssignValue(S, h, v)
  PROVE  Good(X) /\ X.val = [S.val EXCEPT ![h] = v]
<1> DEFINE D == Drop(S, h)
           T == [D EXCEPT !.val[h] = v]
<1>1. S \in Shape BY DEF Good
<1>2. CASE S.val[h] = v
  BY <1>1, <1>2 DEF AssignValue, Shape
<1>3. CASE S.val[h] # v
  <2>g. Good(D) BY DropGood
  <2>1. D.val = [S.val EXCEPT ![h] = Null] BY DropGood
  <2>n. ~isValid(D.val[h])
    BY <1>1, <2>1, ValueHandleListsAssumption DEF isValid, Shape
  <2>2. [D.val EXCEPT ![h] = v] = [S.val EXCEPT ![h] = v]
    BY <1>1, <2>1, ValueHandleListsAssumption DEF isValid, Shape
  <2>3. X \in IF isValid(v) THEN AddToUseList(T, h) ELSE {T}
    BY <1>3 DEF AssignValue
  <2> HIDE DEF D
  <2>4. CASE isValid(v)
    <3>1. v \in Values /\ X \in AddToUseList(T, h) BY <2>3, <2>4 DEF isValid
    <3>2. T = [D EXCEPT !.val[h] = v] OBVIOUS
    <3> HIDE DEF T
    <3>3. Good(X) /\ X.val = [D.val EXCEPT ![h] = v]
      BY <2>g, <2>n, <3>1, <3>2, AddToUseListGood
    <3> QED BY <2>2, <3>3
  <2>5. CASE ~isValid(v)
    <3>1. X = T BY <2>3, <2>5
    <3>2. T = SetVal(D, h, v) BY DEF SetVal
    <3> HIDE DEF T
    <3>3. Good(T) /\ T.val = [D.val EXCEPT ![h] = v]
      BY <2>g, <2>n, <2>5, <3>2, MarkGood
    <3> QED BY <2>2, <3>1, <3>3
  <2> QED BY <2>4, <2>5
<1> QED BY <1>2, <1>3

(* operator= from another handle, and copy construction. *)
LEMMA AssignHandleGood ==
  ASSUME NEW S, Good(S), NEW h \in Handles, NEW g \in Handles
  PROVE  /\ Good(AssignHandle(S, h, g))
         /\ AssignHandle(S, h, g).val = [S.val EXCEPT ![h] = S.val[g]]
<1> DEFINE D == Drop(S, h)
           v == S.val[g]
           T == [D EXCEPT !.val[h] = v]
           X == AssignHandle(S, h, g)
<1>1. S \in Shape BY DEF Good
<1>2. CASE S.val[h] = v
  BY <1>1, <1>2 DEF AssignHandle, Shape
<1>3. CASE S.val[h] # v
  <2>g. Good(D) BY DropGood
  <2>1. D.val = [S.val EXCEPT ![h] = Null] BY DropGood
  <2>n. ~isValid(D.val[h])
    BY <1>1, <2>1, ValueHandleListsAssumption DEF isValid, Shape
  <2>2. [D.val EXCEPT ![h] = v] = [S.val EXCEPT ![h] = v]
    BY <1>1, <2>1, ValueHandleListsAssumption DEF isValid, Shape
  <2>3. X = IF isValid(v) THEN AddToExistingUseList(T, h, T.prev[g]) ELSE T
    BY <1>3 DEF AssignHandle
  <2>4. T.prev = D.prev BY <2>g DEF Good, Shape
  <2>5. D.val[g] = v /\ v \in Values \cup {Null, Tombstone}
    BY <1>1, <1>3, <2>1 DEF Shape
  <2> HIDE DEF D
  <2>6. CASE isValid(v)
    <3>1. PointsInto(D, D.prev[g], v)
      BY <2>g, <2>5, <2>6 DEF Good, WellLinked, NodeLinked, PointsInto
    <3>2. v \in Values BY <2>6 DEF isValid
    <3>3. X = AddToExistingUseList(T, h, D.prev[g]) BY <2>3, <2>4, <2>6
    <3>4. T = [D EXCEPT !.val[h] = v] OBVIOUS
    <3> HIDE DEF T, v, X
    <3>5. Good(X) /\ X.val = [D.val EXCEPT ![h] = v]
      BY <2>g, <2>n, <3>1, <3>2, <3>3, <3>4, AddGood
    <3>6. X.val = [S.val EXCEPT ![h] = v] BY <2>2, <3>5
    <3> QED BY <3>5, <3>6 DEF v, X
  <2>7. CASE ~isValid(v)
    <3>1. v \in Values \cup {Null, Tombstone} BY <2>5
    <3>2. T = SetVal(D, h, v) BY DEF SetVal
    <3> HIDE DEF v, X, T
    <3>3. Good(T) /\ T.val = [D.val EXCEPT ![h] = v]
      BY <2>g, <2>n, <2>7, <3>1, <3>2, MarkGood
    <3>4. Good(X) /\ X.val = [S.val EXCEPT ![h] = v] BY <2>2, <2>3, <2>7, <3>3
    <3> QED BY <3>4 DEF v, X
  <2> QED BY <2>6, <2>7
<1> QED BY <1>2, <1>3

(* Taking a handle off its list to put it back elsewhere is the same as      *)
(* dropping it first.                                                        *)
LEMMA MoveIsDropAndAdd ==
  ASSUME NEW S, Good(S), NEW h \in Handles, NEW g \in Handles,
         isValid(S.val[h])
  PROVE  AddToExistingUseListAfter(RemoveFromUseList(S, h), h, g)
           = AddToExistingUseList([Drop(S, h) EXCEPT !.val[h] = S.val[h]], h, g)
<1> DEFINE D == Drop(S, h)
           v == S.val[h]
           R == RemoveFromUseList(S, h)
<1>1. S \in Shape BY DEF Good
<1>2. Good(D) /\ D.val = [S.val EXCEPT ![h] = Null] BY DropGood
<1>3. [D.val EXCEPT ![h] = v] = S.val BY <1>1, <1>2 DEF Shape
<1>4. D = [R EXCEPT !.val[h] = Null] BY DEF Drop
<1>5. R = [D EXCEPT !.val[h] = v]
  <2>1. \E last : R = Unlink(S, h, last) BY DEF RemoveFromUseList
  <2>2. R.val = S.val /\ R = [val |-> R.val, next |-> R.next, prev |-> R.prev,
             head |-> R.head, has |-> R.has, array |-> R.array]
    <3> HIDE DEF R
    <3> QED BY <1>1, <2>1 DEF Unlink, Shape
  <2> HIDE DEF R, D, v
  <2>3. /\ D = [val |-> D.val, next |-> R.next, prev |-> R.prev,
                head |-> R.head, has |-> R.has, array |-> R.array]
        /\ D.val = [R.val EXCEPT ![h] = Null]
    BY <1>4, <2>2
  <2>4. [D EXCEPT !.val[h] = v]
          = [val |-> [D.val EXCEPT ![h] = v], next |-> R.next, prev |-> R.prev,
             head |-> R.head, has |-> R.has, array |-> R.array]
    BY <2>3
  <2> QED BY <1>3, <2>2, <2>4
<1> HIDE DEF D, v, R
<1> QED BY <1>5 DEF AddToExistingUseListAfter, D, v, R

(* A loop's local handle moves to just after another handle of its value. *)
LEMMA MoveGood ==
  ASSUME NEW S, Good(S), NEW h \in Handles, NEW g \in Handles, g # h,
         isValid(S.val[h]), S.val[g] = S.val[h]
  PROVE  /\ Good(AddToExistingUseListAfter(RemoveFromUseList(S, h), h, g))
         /\ AddToExistingUseListAfter(RemoveFromUseList(S, h), h, g).val = S.val
<1> DEFINE D == Drop(S, h)
           v == S.val[h]
<1>1. S \in Shape BY DEF Good
<1>2. Good(D) /\ D.val = [S.val EXCEPT ![h] = Null] BY DropGood
<1>3. ~isValid(D.val[h]) /\ [D.val EXCEPT ![h] = v] = S.val /\ D.val[g] = v
  BY <1>1, <1>2, ValueHandleListsAssumption DEF isValid, Shape
<1>4. PointsInto(D, g, v) BY <1>3 DEF PointsInto
<1>5. AddToExistingUseListAfter(RemoveFromUseList(S, h), h, g)
        = AddToExistingUseList([D EXCEPT !.val[h] = v], h, g)
  BY MoveIsDropAndAdd
<1> HIDE DEF D, v
<1>6. v \in Values BY DEF v, isValid
<1> QED BY <1>2, <1>3, <1>4, <1>5, <1>6, AddGood
-----------------------------------------------------------------------------
Frame == [old : Values, new : Values \cup {Null}, entry : Handles \cup {Null},
          callback : BOOLEAN, stayed : SUBSET Handles, seen : SUBSET Handles]

(* The local handles of the loops are on the lists of the loops' values, the *)
(* others are null, and each outer loop is in the callback of a callback     *)
(* handle.                                                                   *)
LoopsHold(L, st) ==
  /\ st \in Seq(Frame) /\ Len(st) <= Len(Iterators)
  /\ \A i \in 1..Len(st) :
       /\ L.val[Iterators[Len(st) + 1 - i]] = st[i].old
       /\ i > 1 => st[i].callback
       /\ st[i].callback => st[i].entry \in Handles /\ Kind[st[i].entry] = "Callback"
  /\ \A j \in 1..Len(Iterators) : j > Len(st) => L.val[Iterators[j]] = Null

(* What the innermost loop visits next is on its list, behind the iterator.  *)
EntryHolds(L, st) ==
  st # <<>> /\ ~st[1].callback /\ st[1].entry # Null =>
    /\ st[1].entry \in Handles \ {Iterators[Len(st)]}
    /\ L.val[st[1].entry] = st[1].old

IInv ==
  /\ Good(lists)
  /\ alive \subseteq Values /\ built \subseteq Handles /\ ops \in 0..MaxOps
  /\ LoopsHold(lists, stack)
  /\ EntryHolds(lists, stack)
-----------------------------------------------------------------------------
(* The handle after one on a list is a handle of the same value.             *)
LEMMA NextGood ==
  ASSUME NEW S, Good(S), NEW h \in Handles, isValid(S.val[h])
  PROVE  S.next[h] # Null => /\ S.next[h] \in Handles \ {h}
                             /\ S.val[S.next[h]] = S.val[h]
<1>1. S.next[h] # Null => S.next[h] \in Handles /\ S.val[S.next[h]] = S.val[h]
  BY DEF Good, WellLinked, NodeLinked
<1>2. PICK r \in [Handles -> Int] : Ordered(S, r) BY DEF Good
<1>3. S.next[h] # Null => r[h] < r[S.next[h]]
  BY <1>2 DEF Ordered, On, isValid
<1> QED BY <1>1, <1>3

(* No list has anything wrong before there are handles.                      *)
LEMMA EmptyGood == Good(Empty)
<1>1. Empty \in Shape BY DEF Empty, Shape, Pointers
<1>2. WellLinked(Empty)
  BY ValueHandleListsAssumption
     DEF Empty, WellLinked, NodeLinked, HeadLinked, isValid
<1>3. Ordered(Empty, [h \in Handles |-> 0])
  BY ValueHandleListsAssumption DEF Empty, Ordered, On
<1>4. [h \in Handles |-> 0] \in [Handles -> Int] OBVIOUS
<1> QED BY <1>1, <1>2, <1>3, <1>4 DEF Good

(* No loop runs at the start.                                                *)
LEMMA InitIInv == Init => IInv
<1> SUFFICES ASSUME Init PROVE IInv OBVIOUS
<1>1. LoopsHold(lists, stack)
  BY ValueHandlesAssumption DEF Init, LoopsHold, Empty
<1> QED BY <1>1, EmptyGood, ValueHandlesAssumption DEF Init, IInv, EntryHolds

(* What the iterators are. *)
LEMMA IteratorFacts ==
  /\ Len(Iterators) \in Nat
  /\ \A i \in 1..Len(Iterators) :
       Iterators[i] \in Handles /\ Iterators[i] \notin Client
  /\ \A h \in Handles : Kind[h] # "Assert" => \A i \in 1..Len(Iterators) : Iterators[i] # h
BY ValueHandlesAssumption DEF Client

(* A client changes no loop. *)
LEMMA ClientStep ==
  ASSUME IInv, ClientsTurn, ops' \in 0..MaxOps, Good(lists'), NEW h \in Client, NEW x,
         lists'.val = [lists.val EXCEPT ![h] = x],
         stack' \in {stack, Untouched(h)},
         alive' = alive, built' \subseteq Handles
  PROVE  IInv'
<1>s. stack \in Seq(Frame) /\ Len(stack) \in Nat /\ Len(stack) <= Len(Iterators)
  BY DEF IInv, LoopsHold
<1>v. lists.val \in [Handles -> Values \cup {Null, Tombstone}]
  BY DEF IInv, Good, Shape
<1>2. /\ stack' \in Seq(Frame) /\ Len(stack') = Len(stack)
      /\ \A i \in 1..Len(stack) : /\ stack'[i].old = stack[i].old
                                  /\ stack'[i].entry = stack[i].entry
                                  /\ stack'[i].callback = stack[i].callback
  <2>1. CASE stack' = stack BY <1>s, <2>1
  <2>2. CASE stack' = Untouched(h)
    <3>1. \A i \in 1..Len(stack) : /\ stack'[i] = [stack[i] EXCEPT !.stayed = @ \ {h}]
                                   /\ stack[i] \in Frame
      BY <1>s, <2>2 DEF Untouched
    <3>2. ASSUME NEW i \in 1..Len(stack) PROVE stack'[i] \in Frame
      <4>1. stack[i].stayed \ {h} \in SUBSET Handles BY <3>1 DEF Frame
      <4>2. stack'[i] = [old |-> stack[i].old, new |-> stack[i].new,
                         entry |-> stack[i].entry, callback |-> stack[i].callback,
                         stayed |-> stack[i].stayed \ {h}, seen |-> stack[i].seen]
        BY <3>1 DEF Frame
      <4> QED BY <3>1, <4>1, <4>2 DEF Frame
    <3>3. stack' = [i \in 1..Len(stack) |-> stack'[i]] BY <2>2 DEF Untouched
    <3>4. stack' \in Seq(Frame) /\ Len(stack') = Len(stack) BY <1>s, <3>2, <3>3
    <3> QED BY <3>1, <3>4 DEF Frame
  <2> QED BY <2>1, <2>2
<1>3. \A i \in 1..Len(Iterators) : lists'.val[Iterators[i]] = lists.val[Iterators[i]]
  BY <1>v, IteratorFacts
<1>4. LoopsHold(lists', stack')
  <2>1. \A i \in 1..Len(stack) : Len(stack) + 1 - i \in 1..Len(Iterators)
    BY <1>s, IteratorFacts
  <2> QED BY <1>s, <1>2, <1>3, <2>1 DEF IInv, LoopsHold
<1>5. EntryHolds(lists', stack')
  <2>1. stack = <<>> \/ stack[1].callback BY <1>s DEF ClientsTurn, Loop
  <2>2. stack' # <<>> => 1 \in 1..Len(stack) BY <1>s, <1>2
  <2> QED BY <1>2, <2>1, <2>2 DEF EntryHolds
<1> QED BY <1>4, <1>5 DEF IInv

(* A loop begins: a new local handle goes before the head of the list. *)
LEMMA BeginStep ==
  ASSUME IInv, NEW old \in Values, NEW new \in Values \cup {Null}, Begin(old, new)
  PROVE  IInv'
<1> DEFINE n == Len(stack) + 1
           it == Iterators[n]
           g == lists.head[old]
           f == [old |-> old, new |-> new, entry |-> g, callback |-> FALSE,
                 stayed |-> Watching(old), seen |-> {}]
<1>s. /\ stack \in Seq(Frame) /\ Len(stack) \in Nat /\ n <= Len(Iterators)
      /\ n \in 1..Len(Iterators)
      /\ stack' = <<f>> \o stack
  BY IteratorFacts DEF IInv, LoopsHold, Begin
<1>v. lists.val \in [Handles -> Values \cup {Null, Tombstone}]
  BY DEF IInv, Good, Shape
<1>g. g \in Handles /\ lists.val[g] = old
  BY DEF IInv, Good, WellLinked, HeadLinked, Begin
<1>i. it \in Handles /\ lists.val[it] = Null
  <2>1. \A j \in 1..Len(Iterators) : j > Len(stack) => lists.val[Iterators[j]] = Null
    BY DEF IInv, LoopsHold
  <2>2. n > Len(stack) BY <1>s
  <2> QED BY <1>s, <2>1, <2>2, IteratorFacts
<1>1. Good(lists') /\ lists'.val = [lists.val EXCEPT ![it] = old]
  BY <1>i, <1>g, AssignHandleGood DEF IInv, Begin
<1>2. ops' \in 0..MaxOps
  BY ValueHandlesAssumption DEF Begin, ClientRuns, IInv
<1>f. f \in Frame BY <1>g DEF Frame, Watching, Client
<1>3. /\ stack' \in Seq(Frame) /\ Len(stack') = n /\ stack'[1] = f
      /\ \A i \in 2..n : stack'[i] = stack[i - 1] /\ i - 1 \in 1..Len(stack)
  <2> HIDE DEF f
  <2> QED BY <1>s, <1>f
<1>4. \A i \in 1..Len(Iterators) :
        lists'.val[Iterators[i]] = IF i = n THEN old ELSE lists.val[Iterators[i]]
  BY <1>1, <1>v, <1>s, <1>i, IteratorFacts, ValueHandlesAssumption
<1>5. LoopsHold(lists', stack')
  <2>1. ASSUME NEW i \in 1..n
        PROVE  /\ lists'.val[Iterators[n + 1 - i]] = stack'[i].old
               /\ i > 1 => stack'[i].callback
               /\ stack'[i].callback =>
                    stack'[i].entry \in Handles /\ Kind[stack'[i].entry] = "Callback"
    <3>1. CASE i = 1
      <4>1. lists'.val[it] = old /\ n + 1 - i = n BY <1>s, <1>4, <3>1
      <4> QED BY <1>3, <3>1, <4>1
    <3>2. CASE i # 1
      <4>1. /\ i \in 2..n /\ i - 1 \in 1..Len(stack)
            /\ n + 1 - i \in 1..Len(stack) /\ n + 1 - i # n
            /\ n + 1 - i = Len(stack) + 1 - (i - 1)
            /\ n + 1 - i \in 1..Len(Iterators)
        BY <1>s, <1>3, <3>2
      <4>2. lists'.val[Iterators[n + 1 - i]] = lists.val[Iterators[n + 1 - i]]
        BY <1>4, <4>1
      <4>3. lists.val[Iterators[Len(stack) + 1 - (i - 1)]] = stack[i - 1].old
        BY <4>1 DEF IInv, LoopsHold
      <4>4. stack[i - 1].callback => /\ stack[i - 1].entry \in Handles
                                     /\ Kind[stack[i - 1].entry] = "Callback"
        BY <4>1 DEF IInv, LoopsHold
      <4>5. stack[i - 1].callback
        <5>1. CASE i - 1 = 1
          BY <1>s, <4>1, <5>1 DEF Begin, ClientRuns, ClientsTurn, Loop
        <5>2. CASE i - 1 > 1 BY <4>1, <5>2 DEF IInv, LoopsHold
        <5> QED BY <4>1, <5>1, <5>2
      <4> QED BY <1>3, <4>1, <4>2, <4>3, <4>4, <4>5
    <3> QED BY <3>1, <3>2
  <2>2. \A j \in 1..Len(Iterators) : j > n => lists'.val[Iterators[j]] = Null
    BY <1>s, <1>4 DEF IInv, LoopsHold
  <2> QED BY <1>s, <1>3, <2>1, <2>2 DEF LoopsHold
<1>6. EntryHolds(lists', stack')
  <2>1. g # it BY <1>g, <1>i, ValueHandleListsAssumption
  <2>2. lists'.val[g] = old BY <1>1, <1>v, <1>g, <2>1
  <2> QED BY <1>3, <1>g, <2>1, <2>2 DEF EntryHolds
<1> QED BY <1>1, <1>2, <1>5, <1>6 DEF IInv, Begin

(* The innermost loop takes a step: it sets one handle, which is not a local *)
(* handle, and goes on from its iterator or enters a callback.               *)
LEMMA LoopStep ==
  ASSUME IInv, stack # <<>>, Good(lists'),
         NEW f \in Frame, f.old = stack[1].old,
         stack' = [stack EXCEPT ![1] = f],
         \A j \in 1..Len(Iterators) : lists'.val[Iterators[j]] = lists.val[Iterators[j]],
         f.callback => f.entry \in Handles /\ Kind[f.entry] = "Callback",
         f.callback \/ f.entry = lists'.next[Iterator],
         ops' = 0, alive' = alive, built' = built
  PROVE  IInv'
<1>s. /\ stack \in Seq(Frame) /\ Len(stack) \in Nat /\ Len(stack) <= Len(Iterators)
      /\ 1 \in 1..Len(stack) /\ stack[1] \in Frame
      /\ Len(stack) \in 1..Len(Iterators)
  BY IteratorFacts DEF IInv, LoopsHold
<1>1. /\ stack' \in Seq(Frame) /\ Len(stack') = Len(stack)
      /\ stack'[1] = f
      /\ \A i \in 1..Len(stack) : i # 1 => stack'[i] = stack[i]
  BY <1>s
<1>2. LoopsHold(lists', stack')
  <2>1. ASSUME NEW i \in 1..Len(stack)
        PROVE  /\ lists'.val[Iterators[Len(stack) + 1 - i]] = stack'[i].old
               /\ i > 1 => stack'[i].callback
               /\ stack'[i].callback =>
                    stack'[i].entry \in Handles /\ Kind[stack'[i].entry] = "Callback"
    <3>1. Len(stack) + 1 - i \in 1..Len(Iterators) BY <1>s
    <3>2. /\ lists.val[Iterators[Len(stack) + 1 - i]] = stack[i].old
          /\ i > 1 => stack[i].callback
          /\ stack[i].callback =>
               stack[i].entry \in Handles /\ Kind[stack[i].entry] = "Callback"
      BY DEF IInv, LoopsHold
    <3>3. lists'.val[Iterators[Len(stack) + 1 - i]] = stack[i].old BY <3>1, <3>2
    <3>4. CASE i = 1 BY <1>1, <3>3, <3>4
    <3>5. CASE i # 1 BY <1>1, <3>2, <3>3, <3>5
    <3> QED BY <3>4, <3>5
  <2>2. \A j \in 1..Len(Iterators) : j > Len(stack) => lists'.val[Iterators[j]] = Null
    BY DEF IInv, LoopsHold
  <2> QED BY <1>s, <1>1, <2>1, <2>2 DEF LoopsHold
<1>3. EntryHolds(lists', stack')
  <2>1. /\ Iterator \in Handles /\ lists'.val[Iterator] = f.old
        /\ isValid(f.old)
    <3>1. Iterator \in Handles BY <1>s, IteratorFacts DEF Iterator
    <3>2. Iterators[Len(stack) + 1 - 1] = Iterator BY <1>s DEF Iterator
    <3>3. lists.val[Iterator] = stack[1].old
      BY <1>s, <3>2 DEF IInv, LoopsHold
    <3> QED BY <1>s, <3>1, <3>3 DEF Iterator, Frame, isValid
  <2>2. lists'.next[Iterator] # Null =>
          /\ lists'.next[Iterator] \in Handles \ {Iterator}
          /\ lists'.val[lists'.next[Iterator]] = f.old
    BY <2>1, NextGood
  <2> QED BY <1>1, <2>2 DEF EntryHolds, Iterator
<1> QED BY <1>2, <1>3, ValueHandlesAssumption DEF IInv

(* Moving the local handle of a loop behind the entry keeps the lists good   *)
(* and changes no handle's value.                                            *)
LEMMA MoveIteratorGood ==
  ASSUME IInv, stack # <<>>, ~Loop.callback, Loop.entry # Null
  PROVE  /\ Good(MoveIterator) /\ MoveIterator.val = lists.val
         /\ Loop = stack[1] /\ Loop \in Frame /\ Loop.entry \in Handles
         /\ lists.val[Loop.entry] = Loop.old
<1>s. /\ stack \in Seq(Frame) /\ Len(stack) \in Nat
      /\ 1 \in 1..Len(stack) /\ Loop = stack[1] /\ Loop \in Frame
      /\ Len(stack) \in 1..Len(Iterators)
  BY IteratorFacts DEF IInv, LoopsHold, Loop
<1>1. /\ Loop.entry \in Handles \ {Iterator} /\ lists.val[Loop.entry] = Loop.old
  BY <1>s DEF IInv, EntryHolds, Iterator
<1>2. Iterator \in Handles /\ lists.val[Iterator] = Loop.old
  <2>1. Iterators[Len(stack) + 1 - 1] = Iterator BY <1>s DEF Iterator
  <2> QED BY <1>s, <2>1, IteratorFacts DEF IInv, LoopsHold, Iterator
<1>3. isValid(lists.val[Iterator]) BY <1>s, <1>2 DEF Frame, isValid
<1> QED BY <1>s, <1>1, <1>2, <1>3, MoveGood DEF IInv, MoveIterator

(* One turn of ValueIsDeleted or ValueIsRAUWd, up to a callback.             *)
LEMMA VisitStep ==
  ASSUME IInv, Visit
  PROVE  IInv'
<1>v. /\ stack # <<>> /\ ~Loop.callback /\ Loop.entry # Null
      /\ ops' = 0 /\ alive' = alive /\ built' = built
      /\ stack \in Seq(Frame)
      /\ lists.val \in [Handles -> Values \cup {Null, Tombstone}]
  BY DEF Visit, IInv, LoopsHold, Good, Shape
<1>m. /\ Good(MoveIterator) /\ MoveIterator.val = lists.val
      /\ Loop = stack[1] /\ Loop \in Frame /\ Loop.entry \in Handles
      /\ lists.val[Loop.entry] = Loop.old
  BY <1>v, MoveIteratorGood
<1>1. ASSUME NEW value \in Values \cup {Null, Tombstone}, VisitTo(value),
             Kind[Loop.entry] = "Assert" => value = Loop.old
      PROVE  IInv'
  <2> DEFINE f == [Loop EXCEPT !.entry = lists'.next[Iterator],
                               !.seen = @ \cup {Loop.entry}]
  <2>1. Good(lists') /\ lists'.val = [lists.val EXCEPT ![Loop.entry] = value]
    BY <1>1, <1>m, AssignValueGood DEF VisitTo
  <2>2. stack' = [stack EXCEPT ![1] = f]
    BY <1>1, <1>v, <1>m DEF VisitTo, NextOfIterator
  <2>3. Iterator \in Handles BY <1>v, IteratorFacts DEF Iterator, IInv, LoopsHold
  <2>4. lists'.next[Iterator] \in Handles \cup {Null}
    BY <2>1, <2>3 DEF Good, Shape
  <2>5. f \in Frame /\ f.old = Loop.old /\ ~f.callback
        /\ f.entry = lists'.next[Iterator]
    BY <1>m, <1>v, <2>4 DEF Frame
  <2>6. \A j \in 1..Len(Iterators) :
          lists'.val[Iterators[j]] = lists.val[Iterators[j]]
    BY <1>1, <1>v, <1>m, <2>1, IteratorFacts
  <2> HIDE DEF f
  <2> QED BY <1>v, <1>m, <2>1, <2>2, <2>5, <2>6, LoopStep
<1>2. ASSUME Kind[Loop.entry] = "Callback", lists' = MoveIterator,
             stack' = [stack EXCEPT ![1].callback = TRUE,
                                    ![1].seen = @ \cup {Loop.entry}]
      PROVE  IInv'
  <2> DEFINE f == [Loop EXCEPT !.callback = TRUE, !.seen = @ \cup {Loop.entry}]
  <2>1. stack' = [stack EXCEPT ![1] = f] BY <1>2, <1>v, <1>m
  <2>2. f \in Frame /\ f.old = Loop.old /\ f.callback /\ f.entry = Loop.entry
    BY <1>m DEF Frame
  <2> HIDE DEF f
  <2> QED BY <1>2, <1>v, <1>m, <2>1, <2>2, LoopStep
<1>3. Kind[Loop.entry] \in {"Assert", "Callback", "Tracking", "Weak"}
  BY <1>m, ValueHandlesAssumption
<1>4. CASE Kind[Loop.entry] = "Assert"
  <2>1. VisitTo(Loop.old) BY <1>4 DEF Visit
  <2>2. Loop.old \in Values BY <1>m DEF Frame
  <2> QED BY <1>1, <1>4, <2>1, <2>2
<1>5. CASE Kind[Loop.entry] = "Callback"
  BY <1>2, <1>5 DEF Visit
<1>6. CASE Kind[Loop.entry] = "Tracking"
  <2>1. VisitTo(IF Loop.new = Null THEN Tombstone ELSE Loop.new)
    BY <1>6 DEF Visit
  <2>2. Loop.new \in Values \cup {Null} BY <1>m DEF Frame
  <2>3. CASE Loop.new = Null BY <1>1, <1>6, <2>1, <2>3
  <2>4. CASE Loop.new # Null BY <1>1, <1>6, <2>1, <2>2, <2>4
  <2> QED BY <2>3, <2>4
<1>7. CASE Kind[Loop.entry] = "Weak"
  <2>1. VisitTo(Loop.new) BY <1>7 DEF Visit
  <2>2. Loop.new \in Values \cup {Null} BY <1>m DEF Frame
  <2> QED BY <1>1, <1>7, <2>1, <2>2
<1> QED BY <1>3, <1>4, <1>5, <1>6, <1>7

(* The return of a callback, whatever it has done to the list meanwhile.     *)
LEMMA CallbackReturnsStep ==
  ASSUME IInv, CallbackReturns
  PROVE  IInv'
<1>s. /\ stack # <<>> /\ stack \in Seq(Frame) /\ Loop = stack[1] /\ Loop \in Frame
      /\ Loop.callback /\ 1 \in 1..Len(stack) /\ Len(stack) \in 1..Len(Iterators)
      /\ lists.val \in [Handles -> Values \cup {Null, Tombstone}]
      /\ Good(lists)
  BY IteratorFacts DEF CallbackReturns, IInv, LoopsHold, Good, Shape, Loop
<1>e. Loop.entry \in Handles /\ Kind[Loop.entry] = "Callback"
  BY <1>s DEF IInv, LoopsHold
<1> DEFINE f == [Loop EXCEPT !.entry = lists'.next[Iterator], !.callback = FALSE]
<1>1. /\ Good(lists')
      /\ \/ lists' = lists
         \/ lists'.val = [lists.val EXCEPT ![Loop.entry] = Null]
  BY <1>s, <1>e, DropGood DEF CallbackReturns
<1>2. \A j \in 1..Len(Iterators) :
        lists'.val[Iterators[j]] = lists.val[Iterators[j]]
  BY <1>s, <1>e, <1>1, IteratorFacts
<1>3. stack' = [stack EXCEPT ![1] = f]
  BY <1>s DEF CallbackReturns, NextOfIterator
<1>4. Iterator \in Handles BY <1>s, IteratorFacts DEF Iterator
<1>5. lists'.next[Iterator] \in Handles \cup {Null}
  BY <1>1, <1>4 DEF Good, Shape
<1>6. f \in Frame /\ f.old = Loop.old /\ ~f.callback
      /\ f.entry = lists'.next[Iterator]
  BY <1>s, <1>5 DEF Frame
<1> HIDE DEF f
<1> QED BY <1>s, <1>1, <1>2, <1>3, <1>6, LoopStep DEF CallbackReturns

(* The end of a loop, which takes its local handle off the list.             *)
LEMMA EndStep ==
  ASSUME IInv, End
  PROVE  IInv'
<1> DEFINE n == Len(stack)
<1>s. /\ stack # <<>> /\ stack \in Seq(Frame) /\ n \in 1..Len(Iterators)
      /\ Loop = stack[1] /\ Loop \in Frame
      /\ lists.val \in [Handles -> Values \cup {Null, Tombstone}]
      /\ Good(lists)
  BY IteratorFacts DEF End, IInv, LoopsHold, Good, Shape, Loop
<1>1. Good(lists') /\ lists'.val = [lists.val EXCEPT ![Iterators[n]] = Null]
  BY <1>s, IteratorFacts, DropGood DEF End, Iterator
<1>2. /\ stack' \in Seq(Frame) /\ Len(stack') = n - 1
      /\ \A i \in 1..(n - 1) : stack'[i] = stack[i + 1] /\ i + 1 \in 1..n
  BY <1>s DEF End
<1>3. \A j \in 1..Len(Iterators) :
        lists'.val[Iterators[j]] = IF j = n THEN Null ELSE lists.val[Iterators[j]]
  BY <1>s, <1>1, IteratorFacts, ValueHandlesAssumption
<1>4. ASSUME NEW i \in 1..(n - 1)
      PROVE  /\ lists'.val[Iterators[n - 1 + 1 - i]] = stack'[i].old
             /\ stack'[i].callback
             /\ stack'[i].entry \in Handles /\ Kind[stack'[i].entry] = "Callback"
  <2>1. /\ n - 1 + 1 - i = n + 1 - (i + 1) /\ n - 1 + 1 - i # n
        /\ n - 1 + 1 - i \in 1..Len(Iterators) /\ i + 1 \in 1..n /\ i + 1 > 1
    BY <1>s
  <2>2. /\ lists.val[Iterators[n + 1 - (i + 1)]] = stack[i + 1].old
        /\ stack[i + 1].callback
        /\ stack[i + 1].entry \in Handles /\ Kind[stack[i + 1].entry] = "Callback"
    BY <2>1 DEF IInv, LoopsHold
  <2> QED BY <1>2, <1>3, <2>1, <2>2
<1>5. LoopsHold(lists', stack')
  <2>1. \A j \in 1..Len(Iterators) : j > n - 1 => lists'.val[Iterators[j]] = Null
    BY <1>s, <1>3 DEF IInv, LoopsHold
  <2> QED BY <1>s, <1>2, <1>4, <2>1 DEF LoopsHold
<1>6. EntryHolds(lists', stack')
  <2>1. stack' # <<>> => 1 \in 1..(n - 1) BY <1>s, <1>2
  <2> QED BY <1>4, <2>1 DEF EntryHolds
<1>7. ops' \in 0..MaxOps /\ alive' \subseteq Values /\ built' \subseteq Handles
  BY DEF End, IInv
<1> QED BY <1>1, <1>5, <1>6, <1>7 DEF IInv

(* Every step of clients and loops keeps the invariant.                      *)
LEMMA NextIInv == IInv /\ [Next]_vars => IInv'
<1> SUFFICES ASSUME IInv, [Next]_vars PROVE IInv' OBVIOUS
<1>g. Good(lists) /\ alive \subseteq Values /\ built \subseteq Handles
      /\ lists.val \in [Handles -> Values \cup {Null, Tombstone}]
  BY DEF IInv, Good, Shape
<1>c. Client \subseteq Handles BY DEF Client
<1>o. ClientRuns => ClientsTurn /\ ops' \in 0..MaxOps
  BY ValueHandlesAssumption DEF ClientRuns, IInv
<1>1. ASSUME NEW h \in Client, NEW v \in Values \cup {Null},
             Construct(h, v) \/ Assign(h, v)
      PROVE  IInv'
  <2>1. Good(lists') /\ lists'.val = [lists.val EXCEPT ![h] = v]
    BY <1>1, <1>g, <1>c, AssignValueGood DEF Construct, Assign
  <2> QED BY <1>1, <1>g, <1>c, <1>o, <2>1, ClientStep DEF Construct, Assign
<1>2. ASSUME NEW h \in Client, Destroy(h) PROVE IInv'
  <2>1. Good(lists') /\ lists'.val = [lists.val EXCEPT ![h] = Null]
    BY <1>2, <1>g, <1>c, DropGood DEF Destroy
  <2> QED BY <1>2, <1>g, <2>1, ClientStep DEF Destroy, IInv
<1>3. ASSUME NEW h \in Client, NEW g \in Client, Copy(h, g) PROVE IInv'
  <2>1. Good(lists') /\ lists'.val = [lists.val EXCEPT ![h] = lists.val[g]]
    BY <1>3, <1>g, <1>c, AssignHandleGood DEF Copy
  <2> QED BY <1>3, <1>g, <1>c, <1>o, <2>1, ClientStep DEF Copy
<1>4. ASSUME NEW v \in Values, DeleteValue(v) PROVE IInv'
  <2>1. CASE Begin(v, Null) BY <2>1, BeginStep
  <2>2. CASE /\ ClientRuns /\ alive' = alive \ {v}
             /\ UNCHANGED <<lists, built, stack>>
    <3>1. ops' \in 0..MaxOps
      BY <2>2, ValueHandlesAssumption DEF ClientRuns, IInv
    <3> QED BY <2>2, <3>1 DEF IInv, LoopsHold, EntryHolds
  <2> QED BY <1>4, <2>1, <2>2 DEF DeleteValue
<1>5. ASSUME NEW v \in Values, NEW w \in Values, replaceAllUsesWith(v, w)
      PROVE  IInv'
  BY <1>5, BeginStep DEF replaceAllUsesWith
<1>6. CASE UNCHANGED vars
  BY <1>6 DEF vars, IInv, LoopsHold, EntryHolds
<1> QED
  BY <1>1, <1>2, <1>3, <1>4, <1>5, <1>6, VisitStep, CallbackReturnsStep, EndStep
     DEF Next
-----------------------------------------------------------------------------
(* The state is well typed. *)
THEOREM TypeCorrect == Spec => []TypeOK
<1>1. IInv => TypeOK
  BY DEF IInv, Good, Shape, LoopsHold, TypeOK
<1> QED BY <1>1, InitIInv, NextIInv, PTL DEF Spec

(* Whatever handles callbacks create, move and destroy, and however the map  *)
(* of list heads is reallocated, every handle's links agree with those of    *)
(* its neighbours, its bucket and HasValueHandle.                            *)
THEOREM WellLinkedLists == Spec => []ListsWellLinked
<1>1. IInv => ListsWellLinked BY DEF IInv, Good, ListsWellLinked
<1> QED BY <1>1, InitIInv, NextIInv, PTL DEF Spec

(* A loop's local handle stays on the list it runs over, and so does the     *)
(* handle the loop visits next, although callbacks may destroy any handle.   *)
THEOREM LoopsAreSafe == Spec => []LoopStaysOnItsList
<1>1. IInv => LoopStaysOnItsList
  BY DEF IInv, LoopsHold, EntryHolds, LoopStaysOnItsList, Loop
<1> QED BY <1>1, InitIInv, NextIInv, PTL DEF Spec
-----------------------------------------------------------------------------
(* How the operations change the links that lead along the lists.            *)
LEMMA DropLinks ==
  ASSUME NEW S, Good(S), NEW h \in Handles,
         NEW T, T = Drop(S, h)
  PROVE  /\ \A w \in Values : T.head[w] = IF S.val[h] = w /\ S.head[w] = h
                                          THEN S.next[h] ELSE S.head[w]
         /\ \A g \in Handles : g # h /\ isValid(S.val[g]) =>
              T.next[g] = IF S.next[g] = h THEN S.next[h] ELSE S.next[g]
<1> DEFINE p == S.prev[h]
           n == S.next[h]
<1>s. S \in Shape BY DEF Good
<1>l. /\ \A w \in Values : HeadLinked(S, w)
      /\ \A g \in Handles : NodeLinked(S, g)
  BY DEF Good, WellLinked
<1>1. CASE ~isValid(S.val[h])
  <2>1. T = [S EXCEPT !.val[h] = Null] BY <1>1 DEF Drop
  <2>2. T.next = S.next /\ T.head = S.head BY <1>s, <2>1 DEF Shape
  <2>3. \A g \in Handles : isValid(S.val[g]) => S.next[g] # h
    <3>1. h # Null BY ValueHandleListsAssumption
    <3> QED BY <1>l, <1>1, <3>1 DEF NodeLinked, isValid
  <2>4. \A w \in Values : S.val[h] # w BY <1>1 DEF isValid
  <2> QED BY <2>2, <2>3, <2>4
<1>2. CASE isValid(S.val[h])
  <2>1. /\ T.next = [g \in Handles |-> IF g = h THEN Null
                                       ELSE IF g = p THEN n ELSE S.next[g]]
        /\ T.head = [w \in Values |-> IF p = Bucket(S, w) THEN n ELSE S.head[w]]
    <3> DEFINE R == RemoveFromUseList(S, h)
    <3>1. T = [R EXCEPT !.val[h] = Null] BY <1>2 DEF Drop
    <3>2. \E last : R = Unlink(S, h, last) BY DEF RemoveFromUseList
    <3>3. /\ R.next = [g \in Handles |-> IF g = h THEN Null
                                         ELSE IF g = p THEN n ELSE S.next[g]]
          /\ R.head = [w \in Values |-> IF p = Bucket(S, w) THEN n ELSE S.head[w]]
          /\ R = [val |-> R.val, next |-> R.next, prev |-> R.prev,
                  head |-> R.head, has |-> R.has, array |-> R.array]
      <4> HIDE DEF R
      <4> QED BY <1>s, <3>2 DEF Unlink, Shape
    <3> HIDE DEF R
    <3>4. T.next = R.next /\ T.head = R.head BY <3>1, <3>3
    <3> QED BY <3>3, <3>4
  <2>2. \/ p = Bucket(S, S.val[h]) /\ S.head[S.val[h]] = h
        \/ p \in Handles /\ S.next[p] = h
    BY <1>l, <1>2 DEF NodeLinked
  <2>3. ASSUME NEW w \in Values
        PROVE  p = Bucket(S, w) <=> S.val[h] = w /\ S.head[w] = h
    <3>1. S.val[h] \in Values /\ S.val[h] \in S.has
      BY <1>l, <1>2 DEF NodeLinked, isValid
    <3>2. ASSUME p = Bucket(S, w)
          PROVE  S.val[h] = w /\ S.head[w] = h
      BY <1>s, <2>2, <3>1, <3>2, BucketFacts
    <3>3. ASSUME S.val[h] = w, S.head[w] = h
          PROVE  p = Bucket(S, w)
      BY <1>l, <3>1, <3>3 DEF HeadLinked
    <3> QED BY <3>2, <3>3
  <2>4. ASSUME NEW g \in Handles, isValid(S.val[g])
        PROVE  g = p <=> S.next[g] = h
    <3>1. ASSUME S.next[g] = h
          PROVE  g = p
      <4>1. h # Null BY ValueHandleListsAssumption
      <4> QED BY <1>l, <2>4, <3>1, <4>1 DEF NodeLinked
    <3>2. ASSUME g = p
          PROVE  S.next[g] = h
      <4>1. Bucket(S, S.val[h]) \notin Handles
        BY <1>s, <1>2, BucketFacts DEF isValid
      <4> QED BY <2>2, <3>2, <4>1
    <3> QED BY <3>1, <3>2
  <2> QED BY <2>1, <2>3, <2>4
<1> QED BY <1>1, <1>2

LEMMA AddLinks ==
  ASSUME NEW S, Good(S), NEW h \in Handles, ~isValid(S.val[h]),
         NEW v \in Values, NEW p, PointsInto(S, p, v),
         NEW U, U = [S EXCEPT !.val[h] = v],
         NEW T, T = AddToExistingUseList(U, h, p)
  PROVE  /\ \A w \in Values : T.head[w] = IF p \notin Handles /\ w = v
                                          THEN h ELSE S.head[w]
         /\ \A g \in Handles \ {h} : T.next[g] = IF g = p THEN h ELSE S.next[g]
         /\ T.next[h] = IF p \in Handles THEN S.next[p] ELSE S.head[v]
         /\ p # h
<1> DEFINE n == Deref(U, p)
<1>s. S \in Shape BY DEF Good
<1>u. /\ U \in Shape /\ U.next = S.next /\ U.head = S.head
      /\ \A w \in Values : Bucket(U, w) = Bucket(S, w)
  BY <1>s DEF Shape, Bucket
<1>1. /\ T.next = [g \in Handles |-> IF g = h THEN n
                                     ELSE IF g = p THEN h ELSE U.next[g]]
      /\ T.head = [w \in Values |-> IF p = Bucket(U, w) THEN h ELSE U.head[w]]
  <2>1. T = Splice(U, h, p, n, h) BY DEF AddToExistingUseList
  <2> HIDE DEF n
  <2> QED BY <1>u, <2>1 DEF Splice, Shape
<1>2. CASE p \in Handles /\ S.val[p] = v
  <2>1. \A w \in Values : p # Bucket(U, w) BY <1>u, <1>2, BucketFacts
  <2>2. n = S.next[p] BY <1>u, <1>2 DEF Deref
  <2>3. p # h BY <1>2 DEF isValid
  <2> HIDE DEF n
  <2> QED BY <1>u, <1>1, <1>2, <2>1, <2>2, <2>3
<1>3. CASE p = Bucket(S, v)
  <2>1. p \notin Handles /\ \A w \in Values : p = Bucket(U, w) <=> w = v
    BY <1>u, <1>3, <1>s, BucketFacts
  <2>2. IsBucket(U, p) BY <2>1 DEF IsBucket
  <2>3. (CHOOSE w \in Values : p = Bucket(U, w)) = v BY <2>1
  <2>4. n = S.head[v] BY <1>u, <2>1, <2>2, <2>3 DEF Deref
  <2> HIDE DEF n
  <2> QED BY <1>u, <1>1, <2>1, <2>4
<1> QED BY <1>2, <1>3 DEF PointsInto

LEMMA InsertLinks ==
  ASSUME NEW S, Good(S), NEW h \in Handles, NEW v \in Values,
         NEW array \in {0, 1}, NEW U, U = [S EXCEPT !.val[h] = v],
         NEW T, T = InsertFirst(U, h, array)
  PROVE  /\ \A w \in Values \ {v} : T.head[w] = S.head[w]
         /\ \A g \in Handles \ {h} : T.next[g] = S.next[g]
<1> DEFINE V == [U EXCEPT !.array = array]
           p == <<array, v>>
           X == AddToExistingUseList(V, h, p)
<1>s. S \in Shape BY DEF Good
<1>u. U \in Shape /\ U.val[h] = v /\ U.next = S.next /\ U.head = S.head
  BY <1>s DEF Shape
<1>v. V \in Shape /\ V.next = S.next /\ V.head = S.head /\ V.array = array
  BY <1>u DEF Shape
<1>1. T.next = X.next /\ T.head = X.head
  <2>1. X.val = V.val /\ X = [val |-> X.val, next |-> X.next, prev |-> X.prev,
             head |-> X.head, has |-> X.has, array |-> X.array]
    <3> DEFINE n == Deref(V, p)
    <3>1. X = Splice(V, h, p, n, h) BY DEF AddToExistingUseList
    <3> HIDE DEF X, V, n
    <3> QED BY <1>v, <3>1 DEF Splice, Shape
  <2>2. \E prev : T = [X EXCEPT !.has = U.has \cup {v}, !.prev = prev]
    BY <1>u DEF InsertFirst, Insert
  <2> HIDE DEF X
  <2> QED BY <2>1, <2>2
<1>2. /\ \A g \in Handles : X.next[g] = IF g = h THEN Deref(V, p)
                                       ELSE IF g = p THEN h ELSE V.next[g]
      /\ \A w \in Values : X.head[w] = IF p = Bucket(V, w) THEN h ELSE V.head[w]
  <2> DEFINE n == Deref(V, p)
  <2>1. X = Splice(V, h, p, n, h) BY DEF AddToExistingUseList
  <2> HIDE DEF X, V, n
  <2>2. /\ X.next = [g \in Handles |-> IF g = h THEN n
                                       ELSE IF g = p THEN h ELSE V.next[g]]
        /\ X.head = [w \in Values |-> IF p = Bucket(V, w) THEN h ELSE V.head[w]]
    BY <1>v, <2>1 DEF Splice, Shape
  <2> QED BY <2>2 DEF n
<1>3. p = Bucket(V, v) BY <1>v DEF Bucket
<1>4. p \notin Handles /\ \A w \in Values : p = Bucket(V, w) => w = v
  BY <1>v, <1>3, BucketFacts
<1> HIDE DEF X, V, p
<1> QED BY <1>1, <1>2, <1>4, <1>v
-----------------------------------------------------------------------------
(* P holds the handles of the value v that come before the handle it.        *)
Split(S, P, it, v) ==
  /\ S.val[it] = v /\ it \notin P
  /\ \A g \in P : S.val[g] = v /\ S.next[g] \in P \cup {it}
  /\ S.head[v] \in P \cup {it}
  /\ \A g \in Handles \ P : S.val[g] = v => S.next[g] \notin P \cup {it}

(* From S to T only the handle h may have changed sides of another.          *)
Spares(S, T, h) ==
  \A v \in Values, it \in Handles \ {h}, P \in SUBSET Handles :
    Split(S, P, it, v) =>
      \E Q \in SUBSET Handles : Split(T, Q, it, v) /\ Q \ {h} = P \ {h}

LEMMA SparesTwice ==
  ASSUME NEW S, NEW T, NEW U, NEW h, Spares(S, T, h), Spares(T, U, h)
  PROVE  Spares(S, U, h)
<1> SUFFICES ASSUME NEW v \in Values, NEW it \in Handles \ {h},
                    NEW P \in SUBSET Handles, Split(S, P, it, v)
             PROVE  \E Q \in SUBSET Handles :
                      Split(U, Q, it, v) /\ Q \ {h} = P \ {h}
  BY DEF Spares
<1>1. PICK Q \in SUBSET Handles : Split(T, Q, it, v) /\ Q \ {h} = P \ {h}
  BY DEF Spares
<1>2. PICK R \in SUBSET Handles : Split(U, R, it, v) /\ R \ {h} = Q \ {h}
  BY <1>1 DEF Spares
<1> QED BY <1>1, <1>2

LEMMA DropSpares ==
  ASSUME NEW S, Good(S), NEW h \in Handles, NEW T, T = Drop(S, h)
  PROVE  Spares(S, T, h)
<1> SUFFICES ASSUME NEW v \in Values, NEW it \in Handles \ {h},
                    NEW P \in SUBSET Handles, Split(S, P, it, v)
             PROVE  \E Q \in SUBSET Handles :
                      Split(T, Q, it, v) /\ Q \ {h} = P \ {h}
  BY DEF Spares
<1> DEFINE Q == P \ {h}
<1>1. /\ \A w \in Values : T.head[w] = IF S.val[h] = w /\ S.head[w] = h
                                       THEN S.next[h] ELSE S.head[w]
      /\ \A g \in Handles : g # h /\ isValid(S.val[g]) =>
           T.next[g] = IF S.next[g] = h THEN S.next[h] ELSE S.next[g]
  BY DropLinks
<1>2. /\ \A g \in Handles : T.val[g] = IF g = h THEN Null ELSE S.val[g]
      /\ Null \notin Values /\ isValid(v)
  <2>1. T.val = [S.val EXCEPT ![h] = Null] BY DropGood
  <2>2. S.val \in [Handles -> Values \cup {Null, Tombstone}] BY DEF Good, Shape
  <2> QED BY <2>1, <2>2, ValueHandleListsAssumption DEF isValid
<1>3. S.val[h] = v => S.next[h] # h
  <2>1. S.val[h] = v /\ S.next[h] # Null => S.next[h] \in Handles \ {h}
    BY <1>2, NextGood
  <2> QED BY <2>1, ValueHandleListsAssumption
<1>4. T.val[it] = v /\ it \notin Q BY <1>2 DEF Split
<1>5. ASSUME NEW g \in Q
      PROVE  T.val[g] = v /\ T.next[g] \in Q \cup {it}
  <2>1. S.val[g] = v /\ S.next[g] \in P \cup {it} /\ g # h /\ g \in Handles
    BY DEF Split
  <2>2. CASE S.next[g] = h
    <3>1. h \in P BY <2>1, <2>2
    <3>2. S.val[h] = v /\ S.next[h] \in P \cup {it} BY <3>1 DEF Split
    <3> QED BY <1>1, <1>2, <1>3, <2>1, <2>2, <3>2
  <2>3. CASE S.next[g] # h BY <1>1, <1>2, <2>1, <2>3
  <2> QED BY <2>2, <2>3
<1>6. T.head[v] \in Q \cup {it}
  <2>1. S.head[v] \in P \cup {it} BY DEF Split
  <2>2. CASE S.head[v] = h
    <3>1. h \in P BY <2>1, <2>2
    <3>2. S.val[h] = v /\ S.next[h] \in P \cup {it} BY <3>1 DEF Split
    <3> QED BY <1>1, <1>3, <2>2, <3>2
  <2>3. CASE S.head[v] # h BY <1>1, <2>1, <2>3
  <2> QED BY <2>2, <2>3
<1>7. ASSUME NEW g \in Handles \ Q, T.val[g] = v
      PROVE  T.next[g] \notin Q \cup {it}
  <2>1. g # h /\ S.val[g] = v /\ g \notin P BY <1>2, <1>7
  <2>2. S.next[g] \notin P \cup {it} BY <2>1 DEF Split
  <2>3. CASE S.next[g] = h
    <3>1. h \notin P BY <2>2, <2>3
    <3>2. S.val[h] = v
      <4>1. NodeLinked(S, g) /\ h # Null
        BY ValueHandleListsAssumption DEF Good, WellLinked
      <4> QED BY <1>2, <2>1, <2>3, <4>1 DEF NodeLinked
    <3>3. S.next[h] \notin P \cup {it} BY <3>1, <3>2 DEF Split
    <3> QED BY <1>1, <1>2, <2>1, <2>3, <3>3
  <2>4. CASE S.next[g] # h BY <1>1, <1>2, <2>1, <2>2, <2>4
  <2> QED BY <2>3, <2>4
<1>8. Split(T, Q, it, v) BY <1>4, <1>5, <1>6, <1>7 DEF Split
<1>9. Q \in SUBSET Handles /\ Q \ {h} = P \ {h} OBVIOUS
<1> QED BY <1>8, <1>9

LEMMA AddSpares ==
  ASSUME NEW S, Good(S), NEW h \in Handles, ~isValid(S.val[h]),
         NEW w \in Values, NEW p, PointsInto(S, p, w),
         NEW U, U = [S EXCEPT !.val[h] = w],
         NEW T, T = AddToExistingUseList(U, h, p)
  PROVE  Spares(S, T, h)
<1> SUFFICES ASSUME NEW v \in Values, NEW it \in Handles \ {h},
                    NEW P \in SUBSET Handles, Split(S, P, it, v)
             PROVE  \E Q \in SUBSET Handles :
                      Split(T, Q, it, v) /\ Q \ {h} = P \ {h}
  BY DEF Spares
<1>1. /\ \A x \in Values : T.head[x] = IF p \notin Handles /\ x = w
                                       THEN h ELSE S.head[x]
      /\ \A g \in Handles \ {h} : T.next[g] = IF g = p THEN h ELSE S.next[g]
      /\ T.next[h] = IF p \in Handles THEN S.next[p] ELSE S.head[w]
      /\ p # h
  BY AddLinks
<1>2. \A g \in Handles : T.val[g] = IF g = h THEN w ELSE S.val[g]
  <2>1. T.val = [S.val EXCEPT ![h] = w] BY AddGood
  <2>2. S.val \in [Handles -> Values \cup {Null, Tombstone}] BY DEF Good, Shape
  <2> QED BY <2>1, <2>2
<1>3. h \notin P BY DEF Split, isValid
<1>4. \A g \in Handles : S.val[g] = v => S.next[g] # h
  <2>1. h # Null /\ \A g \in Handles : NodeLinked(S, g)
    BY ValueHandleListsAssumption DEF Good, WellLinked
  <2> QED BY <2>1 DEF NodeLinked, isValid
<1>p. p \in Handles => S.val[p] = w
  <2>1. p = Bucket(S, w) => p \notin Handles BY BucketFacts DEF Good
  <2> QED BY <2>1 DEF PointsInto
<1>5. CASE v = w /\ (p \in P \/ p \notin Handles)
  <2>1. T.val[it] = v /\ it \notin P \cup {h} BY <1>2 DEF Split
  <2>2. T.next[h] \in P \cup {it} BY <1>1, <1>5 DEF Split
  <2>3. ASSUME NEW g \in P
        PROVE  T.val[g] = v /\ T.next[g] \in P \cup {h} \cup {it}
    BY <1>1, <1>2, <1>3 DEF Split
  <2>4. T.head[v] \in P \cup {h} \cup {it} BY <1>1 DEF Split
  <2>5. ASSUME NEW g \in Handles \ (P \cup {h}), T.val[g] = v
        PROVE  T.next[g] \notin P \cup {h} \cup {it}
    <3>1. S.val[g] = v /\ g # p BY <1>2, <1>5, <2>5
    <3>2. T.next[g] = S.next[g] BY <1>1, <3>1
    <3> QED BY <1>4, <3>1, <3>2 DEF Split
  <2>6. Split(T, P \cup {h}, it, v)
    BY <1>2, <1>5, <2>1, <2>2, <2>3, <2>4, <2>5 DEF Split
  <2>7. P \cup {h} \in SUBSET Handles /\ (P \cup {h}) \ {h} = P \ {h} OBVIOUS
  <2> QED BY <2>6, <2>7
<1>6. CASE ~(v = w /\ (p \in P \/ p \notin Handles))
  <2>1. T.val[it] = v /\ it \notin P BY <1>2 DEF Split
  <2>p. p \notin P BY <1>6, <1>p DEF Split
  <2>2. ASSUME NEW g \in P
        PROVE  T.val[g] = v /\ T.next[g] \in P \cup {it}
    <3>1. g # p /\ g # h BY <1>3, <2>p
    <3> QED BY <1>1, <1>2, <3>1 DEF Split
  <2>3. T.head[v] \in P \cup {it} BY <1>1, <1>6 DEF Split
  <2>4. ASSUME NEW g \in Handles \ P, T.val[g] = v
        PROVE  T.next[g] \notin P \cup {it}
    <3>1. CASE g = h
      <4>1. v = w /\ p \in Handles \ P BY <1>2, <1>6, <2>4, <3>1
      <4>2. S.next[p] \notin P \cup {it} BY <1>p, <4>1 DEF Split
      <4> QED BY <1>1, <3>1, <4>1, <4>2
    <3>2. CASE g # h /\ g = p BY <1>1, <1>3, <3>2
    <3>3. CASE g # h /\ g # p
      <4>1. S.val[g] = v /\ T.next[g] = S.next[g] BY <1>1, <1>2, <2>4, <3>3
      <4> QED BY <4>1 DEF Split
    <3> QED BY <3>1, <3>2, <3>3
  <2>5. Split(T, P, it, v) BY <2>1, <2>2, <2>3, <2>4 DEF Split
  <2> QED BY <2>5
<1> QED BY <1>5, <1>6

LEMMA SparesSame ==
  ASSUME NEW S, NEW T, NEW h \in Handles, Good(S), ~isValid(S.val[h]),
         NEW v \in Values \cup {Null, Tombstone},
         T.val = [S.val EXCEPT ![h] = v],
         \A w \in Values \ {v} : T.head[w] = S.head[w],
         \A g \in Handles \ {h} : T.next[g] = S.next[g],
         isValid(v) => v \notin S.has
  PROVE  Spares(S, T, h)
<1> SUFFICES ASSUME NEW w \in Values, NEW it \in Handles \ {h},
                    NEW P \in SUBSET Handles, Split(S, P, it, w)
             PROVE  Split(T, P, it, w)
  BY DEF Spares
<1>1. S.val \in [Handles -> Values \cup {Null, Tombstone}] BY DEF Good, Shape
<1>2. w # v
  <2>1. NodeLinked(S, it) BY DEF Good, WellLinked
  <2>2. S.val[it] = w BY DEF Split
  <2> QED BY <2>1, <2>2 DEF NodeLinked, isValid
<1>3. h \notin P BY DEF Split, isValid
<1>4. \A g \in Handles \ {h} : T.val[g] = S.val[g] BY <1>1
<1>5. T.val[h] # w BY <1>1, <1>2
<1>6. T.head[w] = S.head[w] BY <1>2
<1>7. T.val[it] = w /\ it \notin P BY <1>4 DEF Split
<1>8. \A g \in P : T.val[g] = w /\ T.next[g] \in P \cup {it}
  BY <1>3, <1>4 DEF Split
<1>9. \A g \in Handles \ P : T.val[g] = w => T.next[g] \notin P \cup {it}
  BY <1>4, <1>5 DEF Split
<1> QED BY <1>6, <1>7, <1>8, <1>9 DEF Split

LEMMA AddToUseListSpares ==
  ASSUME NEW S, Good(S), NEW h \in Handles, ~isValid(S.val[h]),
         NEW v \in Values, NEW U, U = [S EXCEPT !.val[h] = v],
         NEW X \in AddToUseList(U, h)
  PROVE  Spares(S, X, h)
<1>1. S \in Shape BY DEF Good
<1>2. U.val[h] = v /\ U.has = S.has /\ Bucket(U, v) = Bucket(S, v)
  BY <1>1 DEF Shape, Bucket
<1>3. CASE v \in S.has
  <2>1. X = AddToExistingUseList(U, h, Bucket(S, v))
    BY <1>2, <1>3 DEF AddToUseList
  <2>2. PointsInto(S, Bucket(S, v), v) BY <1>3 DEF PointsInto
  <2> QED BY <2>1, <2>2, AddSpares
<1>4. CASE v \notin S.has
  <2>1. PICK a \in {0, 1} : X = InsertFirst(U, h, a)
    BY <1>2, <1>4 DEF AddToUseList
  <2>2. X.val = [S.val EXCEPT ![h] = v] BY <1>4, <2>1, InsertGood
  <2>3. /\ \A w \in Values \ {v} : X.head[w] = S.head[w]
        /\ \A g \in Handles \ {h} : X.next[g] = S.next[g]
    BY <2>1, InsertLinks
  <2> QED BY <1>4, <2>2, <2>3, SparesSame
<1> QED BY <1>3, <1>4

(* Giving a handle another value moves no other handle past a third.         *)
LEMMA AssignValueSpares ==
  ASSUME NEW S, Good(S), NEW h \in Handles,
         NEW v \in Values \cup {Null, Tombstone}, NEW X \in AssignValue(S, h, v)
  PROVE  Spares(S, X, h)
<1> DEFINE D == Drop(S, h)
           T == [D EXCEPT !.val[h] = v]
<1>1. S \in Shape BY DEF Good
<1>2. CASE S.val[h] = v
  <2>1. X = S BY <1>2 DEF AssignValue
  <2> QED BY <2>1 DEF Spares
<1>3. CASE S.val[h] # v
  <2>g. Good(D) /\ Spares(S, D, h) BY DropGood, DropSpares
  <2>1. D.val = [S.val EXCEPT ![h] = Null] BY DropGood
  <2>n. ~isValid(D.val[h])
    BY <1>1, <2>1, ValueHandleListsAssumption DEF isValid, Shape
  <2>3. X \in IF isValid(v) THEN AddToUseList(T, h) ELSE {T}
    BY <1>3 DEF AssignValue
  <2> HIDE DEF D
  <2>4. CASE isValid(v)
    <3>1. v \in Values /\ X \in AddToUseList(T, h) BY <2>3, <2>4 DEF isValid
    <3>2. T = [D EXCEPT !.val[h] = v] OBVIOUS
    <3> HIDE DEF T
    <3>3. Spares(D, X, h) BY <2>g, <2>n, <3>1, <3>2, AddToUseListSpares
    <3> QED BY <2>g, <3>3, SparesTwice
  <2>5. CASE ~isValid(v)
    <3>1. X = T BY <2>3, <2>5
    <3>2. X.val = [D.val EXCEPT ![h] = v] /\ X.next = D.next /\ X.head = D.head
      BY <2>g, <3>1 DEF Good, Shape
    <3>3. Spares(D, X, h) BY <2>g, <2>n, <2>5, <3>2, SparesSame
    <3> QED BY <2>g, <3>3, SparesTwice
  <2> QED BY <2>4, <2>5
<1> QED BY <1>2, <1>3

LEMMA AssignHandleSpares ==
  ASSUME NEW S, Good(S), NEW h \in Handles, NEW g \in Handles
  PROVE  Spares(S, AssignHandle(S, h, g), h)
<1> DEFINE D == Drop(S, h)
           v == S.val[g]
           T == [D EXCEPT !.val[h] = v]
           X == AssignHandle(S, h, g)
<1>1. S \in Shape BY DEF Good
<1>2. CASE S.val[h] = v
  <2>1. X = S BY <1>2 DEF AssignHandle
  <2> QED BY <2>1 DEF Spares
<1>3. CASE S.val[h] # v
  <2>g. Good(D) /\ Spares(S, D, h) BY DropGood, DropSpares
  <2>1. D.val = [S.val EXCEPT ![h] = Null] BY DropGood
  <2>n. ~isValid(D.val[h])
    BY <1>1, <2>1, ValueHandleListsAssumption DEF isValid, Shape
  <2>3. X = IF isValid(v) THEN AddToExistingUseList(T, h, T.prev[g]) ELSE T
    BY <1>3 DEF AssignHandle
  <2>4. T.prev = D.prev BY <2>g DEF Good, Shape
  <2>5. D.val[g] = v /\ v \in Values \cup {Null, Tombstone}
    BY <1>1, <1>3, <2>1 DEF Shape
  <2> HIDE DEF D
  <2>6. CASE isValid(v)
    <3>1. PointsInto(D, D.prev[g], v)
      BY <2>g, <2>5, <2>6 DEF Good, WellLinked, NodeLinked, PointsInto
    <3>2. v \in Values BY <2>6 DEF isValid
    <3>3. X = AddToExistingUseList(T, h, D.prev[g]) BY <2>3, <2>4, <2>6
    <3>4. T = [D EXCEPT !.val[h] = v] OBVIOUS
    <3> HIDE DEF T, v, X
    <3>5. Spares(D, X, h) BY <2>g, <2>n, <3>1, <3>2, <3>3, <3>4, AddSpares
    <3>6. Spares(S, X, h) BY <2>g, <3>5, SparesTwice
    <3> QED BY <3>6 DEF X
  <2>7. CASE ~isValid(v)
    <3>1. X.val = [D.val EXCEPT ![h] = v] /\ X.next = D.next /\ X.head = D.head
      BY <2>g, <2>3, <2>7 DEF Good, Shape
    <3> HIDE DEF v, X, T
    <3>3. Spares(D, X, h) BY <2>g, <2>n, <2>5, <2>7, <3>1, SparesSame
    <3>4. Spares(S, X, h) BY <2>g, <3>3, SparesTwice
    <3> QED BY <3>4 DEF X
  <2> QED BY <2>6, <2>7
<1> QED BY <1>2, <1>3

(* From S to X the handle it goes past g.                                    *)
Passes(S, X, it, g, v) ==
  \A P \in SUBSET Handles :
    Split(S, P, it, v) => Split(X, P \cup {g}, it, v) /\ g \notin P

(* The local handle of a loop passes the handle after it, and no other.      *)
LEMMA MoveSplit ==
  ASSUME NEW S, Good(S), NEW it \in Handles, NEW g \in Handles, S.next[it] = g,
         NEW v \in Values, S.val[it] = v,
         NEW X, X = AddToExistingUseListAfter(RemoveFromUseList(S, it), it, g)
  PROVE  /\ Good(X) /\ X.val = S.val /\ S.val[g] = v /\ g # it
         /\ X.next[it] = S.next[g]
         /\ Spares(S, X, it)
         /\ Passes(S, X, it, g, v)
<1> DEFINE D == Drop(S, it)
           U == [D EXCEPT !.val[it] = v]
<1>n. g # Null BY ValueHandleListsAssumption
<1>1. S.val[g] = v /\ g # it /\ isValid(S.val[it])
  BY <1>n, NextGood DEF isValid
<1>2. Good(X) /\ X.val = S.val BY <1>1, MoveGood
<1>3. X = AddToExistingUseList(U, it, g) BY <1>1, MoveIsDropAndAdd
<1>4. Good(D) /\ Spares(S, D, it) /\ D.val = [S.val EXCEPT ![it] = Null]
  BY DropGood, DropSpares
<1>5. ~isValid(D.val[it]) /\ D.val[g] = v
  BY <1>1, <1>4, ValueHandleListsAssumption DEF isValid, Good, Shape
<1>6. PointsInto(D, g, v) BY <1>5 DEF PointsInto
<1>7. /\ \A w \in Values : D.head[w] = IF v = w /\ S.head[w] = it
                                       THEN g ELSE S.head[w]
      /\ \A x \in Handles : x # it /\ isValid(S.val[x]) =>
           D.next[x] = IF S.next[x] = it THEN g ELSE S.next[x]
  BY DropLinks
<1> HIDE DEF D
<1>8. /\ \A w \in Values : X.head[w] = D.head[w]
      /\ \A x \in Handles \ {it} : X.next[x] = IF x = g THEN it ELSE D.next[x]
      /\ X.next[it] = D.next[g]
  <2>1. U = [D EXCEPT !.val[it] = v] OBVIOUS
  <2> HIDE DEF U
  <2>2. /\ \A w \in Values : X.head[w] = IF g \notin Handles /\ w = v
                                         THEN it ELSE D.head[w]
        /\ \A x \in Handles \ {it} : X.next[x] = IF x = g THEN it ELSE D.next[x]
        /\ X.next[it] = IF g \in Handles THEN D.next[g] ELSE D.head[v]
    <3>1. X = AddToExistingUseList(U, it, g) BY <1>3
    <3>2. Good(D) /\ ~isValid(D.val[it]) /\ PointsInto(D, g, v) BY <1>4, <1>5, <1>6
    <3> QED BY <2>1, <3>1, <3>2, AddLinks
  <2> QED BY <2>2
<1>9. Spares(S, X, it)
  <2>1. U = [D EXCEPT !.val[it] = v] OBVIOUS
  <2> HIDE DEF U
  <2>2. Spares(D, X, it) BY <1>3, <1>4, <1>5, <1>6, <2>1, AddSpares
  <2> QED BY <1>4, <2>2, SparesTwice
<1>10. X.next[it] = S.next[g]
  <2>1. S.next[g] # it
    <3>1. PICK r \in [Handles -> Int] : Ordered(S, r) BY DEF Good
    <3>2. it # Null BY ValueHandleListsAssumption
    <3>3. r[it] < r[g] BY <1>1, <1>n, <3>1 DEF Ordered, On
    <3>4. S.next[g] = it => r[g] < r[it] BY <1>1, <3>1, <3>2 DEF Ordered, On
    <3> QED BY <3>3, <3>4
  <2> QED BY <1>1, <1>7, <1>8, <2>1
<1>11. ASSUME NEW P \in SUBSET Handles, Split(S, P, it, v)
       PROVE  Split(X, P \cup {g}, it, v) /\ g \notin P
  <2>1. g \notin P /\ it \notin P BY <1>11 DEF Split
  <2>2. \A x \in P : S.val[x] = v /\ S.next[x] \in P \cup {it} BY <1>11 DEF Split
  <2>3. ASSUME NEW x \in P \cup {g}
        PROVE  X.val[x] = v /\ X.next[x] \in P \cup {g} \cup {it}
    <3>1. CASE x = g BY <1>1, <1>2, <1>8, <3>1
    <3>2. CASE x # g
      <4>1. x \in Handles \ {it} /\ S.val[x] = v /\ isValid(S.val[x])
        BY <2>1, <2>2, <2>3, <3>2 DEF isValid
      <4> QED BY <1>2, <1>7, <1>8, <2>2, <3>2, <4>1
    <3> QED BY <3>1, <3>2
  <2>4. X.head[v] \in P \cup {g} \cup {it}
    <3>1. S.head[v] \in P \cup {it} BY <1>11 DEF Split
    <3> QED BY <1>7, <1>8, <3>1
  <2>5. ASSUME NEW x \in Handles \ (P \cup {g}), X.val[x] = v
        PROVE  X.next[x] \notin P \cup {g} \cup {it}
    <3>1. S.val[x] = v /\ S.next[x] \notin P \cup {it} BY <1>2, <1>11, <2>5 DEF Split
    <3>2. CASE x = it
      <4>1. S.next[g] \notin P \cup {it} BY <1>1, <1>11, <2>1 DEF Split
      <4>2. S.next[g] # g
        <5>1. isValid(S.val[g]) BY <1>1 DEF isValid
        <5> QED BY <1>n, <5>1, NextGood
      <4> QED BY <1>10, <3>2, <4>1, <4>2
    <3>3. CASE x # it
      <4>1. X.next[x] = S.next[x] BY <1>7, <1>8, <2>5, <3>1, <3>3 DEF isValid
      <4>2. S.next[x] # g
        <5>1. NodeLinked(S, x) /\ NodeLinked(S, it) BY DEF Good, WellLinked
        <5> QED BY <1>1, <1>n, <3>1, <3>3, <5>1 DEF NodeLinked, isValid
      <4> QED BY <3>1, <4>1, <4>2
    <3> QED BY <3>2, <3>3
  <2>6. X.val[it] = v /\ it \notin P \cup {g} BY <1>1, <1>2, <2>1
  <2> QED BY <2>1, <2>3, <2>4, <2>5, <2>6 DEF Split
<1> QED BY <1>1, <1>2, <1>9, <1>10, <1>11 DEF Passes

(* A loop's local handle starts before all handles of the value.             *)
LEMMA BeginSplit ==
  ASSUME NEW S, Good(S), NEW it \in Handles, S.val[it] = Null,
         NEW v \in S.has, NEW X, X = AssignHandle(S, it, S.head[v])
  PROVE  /\ Good(X) /\ X.val = [S.val EXCEPT ![it] = v] /\ Spares(S, X, it)
         /\ Split(X, {}, it, v) /\ X.next[it] = S.head[v]
<1> DEFINE g == S.head[v]
           D == Drop(S, it)
           T == [D EXCEPT !.val[it] = v]
<1>s. S \in Shape /\ v \in Values BY DEF Good, Shape
<1>g. g \in Handles /\ S.val[g] = v /\ S.prev[g] = Bucket(S, v) /\ g # Null
      /\ v # Null
  BY <1>s, ValueHandleListsAssumption DEF Good, WellLinked, HeadLinked
<1>1. Good(X) /\ X.val = [S.val EXCEPT ![it] = v] /\ Spares(S, X, it)
  BY <1>g, AssignHandleGood, AssignHandleSpares
<1>2. D = [S EXCEPT !.val[it] = Null]
  BY <1>s, ValueHandleListsAssumption DEF Drop, isValid
<1>3. /\ D.val = S.val /\ D.next = S.next /\ D.prev = S.prev /\ D.head = S.head
      /\ D.array = S.array /\ D.has = S.has
  BY <1>s, <1>2 DEF Shape
<1>4. Good(D) BY DropGood
<1>5. X = AddToExistingUseList(T, it, Bucket(S, v))
  BY <1>s, <1>g, <1>3 DEF AssignHandle, isValid
<1>6. PointsInto(D, Bucket(S, v), v) BY <1>3 DEF PointsInto, Bucket
<1>7. ~isValid(D.val[it]) BY <1>3, ValueHandleListsAssumption DEF isValid
<1>8. Bucket(S, v) \notin Handles BY <1>s, BucketFacts
<1>9. /\ \A w \in Values : X.head[w] = IF w = v THEN it ELSE S.head[w]
      /\ \A x \in Handles \ {it} : X.next[x] = S.next[x]
      /\ X.next[it] = g
  <2> DEFINE p == Bucket(S, v)
  <2>1. T = [D EXCEPT !.val[it] = v] OBVIOUS
  <2> HIDE DEF D, T, p
  <2>2. /\ \A w \in Values : X.head[w] = IF p \notin Handles /\ w = v
                                         THEN it ELSE D.head[w]
        /\ \A x \in Handles \ {it} : X.next[x] = IF x = p THEN it ELSE D.next[x]
        /\ X.next[it] = IF p \in Handles THEN D.next[p] ELSE D.head[v]
    BY <1>s, <1>4, <1>5, <1>6, <1>7, <2>1, AddLinks DEF p
  <2> QED BY <1>3, <1>8, <2>2 DEF p
<1>10. \A x \in Handles : X.val[x] = IF x = it THEN v ELSE S.val[x]
  BY <1>1, <1>s DEF Shape
<1>11. ASSUME NEW x \in Handles, X.val[x] = v
       PROVE  X.next[x] # it
  <2>1. CASE x = it
    BY <1>g, <1>9, <2>1
  <2>2. CASE x # it
    <3>1. S.val[x] = v /\ X.next[x] = S.next[x] BY <1>9, <1>10, <1>11, <2>2
    <3>2. NodeLinked(S, x) /\ it # Null
      BY ValueHandleListsAssumption DEF Good, WellLinked
    <3> QED BY <1>g, <1>s, <3>1, <3>2 DEF NodeLinked, isValid
  <2> QED BY <2>1, <2>2
<1>12. Split(X, {}, it, v) BY <1>9, <1>10, <1>11, <1>s DEF Split
<1> QED BY <1>1, <1>9, <1>12

(* Each list can be followed from its head to all handles of its value.      *)
LEMMA ListInduction ==
  ASSUME NEW S, Good(S), NEW v \in Values, NEW X,
         v \in S.has => S.head[v] \in X,
         \A g \in X \cap Handles : S.val[g] = v => S.next[g] \in X \cup {Null}
  PROVE  \A h \in Handles : S.val[h] = v => h \in X
<1> SUFFICES ASSUME NEW h \in Handles, S.val[h] = v, h \notin X
             PROVE  FALSE
  OBVIOUS
<1>1. PICK r \in [Handles -> Int] : Ordered(S, r) BY DEF Good
<1>2. S.head[v] \in X /\ S.head[v] \in Handles /\ S.val[S.head[v]] = v
  BY DEF Good, WellLinked, NodeLinked, HeadLinked, isValid
<1> DEFINE B == {n \in Nat : \E g \in X \cap Handles :
                                S.val[g] = v /\ n = r[h] - r[g]}
<1>3. B # {}
  <2>1. r[S.head[v]] <= r[h] BY <1>1, <1>2 DEF Ordered, On
  <2>2. r[h] - r[S.head[v]] \in Nat BY <1>2, <2>1
  <2> QED BY <1>2, <2>2
<1>4. PICK n \in B : \A m \in B : ~(m < n)
  <2>1. PICK n \in B : \A m \in B : <<m, n>> \notin OpToRel(<, Nat)
    <3> HIDE DEF B
    <3>1. B \subseteq Nat BY DEF B
    <3> QED BY <1>3, <3>1, NatLessThanWellFounded, WFMin
  <2> QED BY <2>1 DEF OpToRel
<1>5. PICK g \in X \cap Handles : S.val[g] = v /\ n = r[h] - r[g] OBVIOUS
<1>6. r[g] < r[h]
  <2>1. r[g] <= r[h] BY <1>5
  <2>2. r[g] # r[h] BY <1>1, <1>5 DEF Ordered, On
  <2> QED BY <2>1, <2>2, <1>5
<1>7. S.next[g] # Null /\ r[S.next[g]] <= r[h] /\ r[g] < r[S.next[g]]
  BY <1>1, <1>5, <1>6 DEF Ordered, On
<1>8. S.next[g] \in X \cap Handles /\ S.val[S.next[g]] = v
  <2>1. S.next[g] \in X BY <1>5, <1>7
  <2>2. isValid(S.val[g]) BY <1>5 DEF isValid
  <2> QED BY <1>5, <1>7, <2>1, <2>2, NextGood
<1>9. r[h] - r[S.next[g]] \in B /\ r[h] - r[S.next[g]] < n
  <2>1. r[h] \in Int /\ r[g] \in Int /\ r[S.next[g]] \in Int BY <1>5, <1>8
  <2>2. r[h] - r[S.next[g]] \in Nat /\ r[h] - r[S.next[g]] < n
    BY <1>5, <1>7, <2>1
  <2> QED BY <1>8, <2>2
<1> QED BY <1>4, <1>9
-----------------------------------------------------------------------------
(* The loop of depth d, counted from the outermost. *)
Fr(st, d) == st[Len(st) + 1 - d]

(* Handles that the callback of a loop f may have put on the loop's value.   *)
New(f, h) == f.callback /\ h \notin f.stayed

(* The handles that the iterator "it" of a loop f is past: but for those that *)
(* the callback in progress has put there, none is of a kind that the loop   *)
(* takes off the list, and those that stayed have been visited.              *)
Past(L, f, it) ==
  \E P \in SUBSET Handles :
    /\ Split(L, P, it, f.old)
    /\ \A g \in P : \/ New(f, g)
                     \/ IF f.new = Null THEN f.callback /\ g = f.entry
                        ELSE Kind[g] \in {"Assert", "Callback"}
    /\ P \cap f.stayed \subseteq f.seen
    /\ \A g \in f.stayed \cap f.seen : L.val[g] = f.old => g \in P

(* No loop but its own works on a value that is being deleted, no asserting  *)
(* handle watches it that its callback has not put there, and no loop moves  *)
(* handles to a value whose handles a loop outside it, or itself, is moving. *)
Apart(al, L, st, d) ==
  /\ Fr(st, d).old \in al /\ Fr(st, d).new \in al \cup {Null}
  /\ Fr(st, d).stayed \subseteq Client
  /\ \A e \in 1..d : Fr(st, d).new # Fr(st, e).old
  /\ Fr(st, d).new = Null =>
       /\ \A e \in 1..Len(st) : e # d => Fr(st, d).old \notin {Fr(st, e).old, Fr(st, e).new}
       /\ \A h \in Client : L.val[h] = Fr(st, d).old =>
            Kind[h] # "Assert" \/ New(Fr(st, d), h)

JInv ==
  /\ IInv
  /\ \A h \in Handles : lists.val[h] \in alive \cup {Null, Tombstone}
  /\ \A d \in 1..Len(stack) : Apart(alive, lists, stack, d)
  /\ \A d \in 1..Len(stack) : Past(lists, Fr(stack, d), Iterators[d])
  /\ stack # <<>> /\ ~stack[1].callback =>
       stack[1].entry = lists.next[Iterators[Len(stack)]]
-----------------------------------------------------------------------------
(* What the invariant says of the loops' types and their local handles.      *)
LEMMA LoopFacts ==
  ASSUME JInv
  PROVE  /\ Good(lists) /\ lists.val \in [Handles -> Values \cup {Null, Tombstone}]
         /\ stack \in Seq(Frame) /\ Len(stack) \in Nat /\ Len(stack) <= Len(Iterators)
         /\ \A d \in 1..Len(stack) :
              /\ Len(stack) + 1 - d \in 1..Len(stack)
              /\ Len(stack) + 1 - (Len(stack) + 1 - d) = d
              /\ Fr(stack, d) = stack[Len(stack) + 1 - d]
              /\ Fr(stack, d) \in Frame /\ Fr(stack, d).old \in Values
              /\ stack[d] = Fr(stack, Len(stack) + 1 - d)
              /\ stack[d] \in Frame /\ stack[d].old \in Values
              /\ d \in 1..Len(Iterators)
              /\ Iterators[d] \in Handles \ Client /\ Kind[Iterators[d]] = "Assert"
              /\ lists.val[Iterators[d]] = Fr(stack, d).old
              /\ \A e \in 1..Len(Iterators) : e # d => Iterators[e] # Iterators[d]
<1>1. /\ Good(lists) /\ lists.val \in [Handles -> Values \cup {Null, Tombstone}]
      /\ stack \in Seq(Frame) /\ Len(stack) \in Nat /\ Len(stack) <= Len(Iterators)
      /\ LoopsHold(lists, stack)
  BY DEF JInv, IInv, Good, Shape, LoopsHold
<1>2. ASSUME NEW d \in 1..Len(stack)
      PROVE  /\ Len(stack) + 1 - d \in 1..Len(stack)
             /\ Len(stack) + 1 - (Len(stack) + 1 - d) = d
             /\ d \in 1..Len(Iterators)
  BY <1>1, IteratorFacts
<1>3. ASSUME NEW d \in 1..Len(stack)
      PROVE  Fr(stack, d) = stack[Len(stack) + 1 - d] /\ Fr(stack, d) \in Frame
             /\ Fr(stack, d).old \in Values
             /\ stack[d] = Fr(stack, Len(stack) + 1 - d)
             /\ stack[d] \in Frame /\ stack[d].old \in Values
  <2>1. stack[Len(stack) + 1 - d] \in Frame BY <1>1, <1>2
  <2>2. stack[d] = Fr(stack, Len(stack) + 1 - d) BY <1>2 DEF Fr
  <2>3. stack[d] \in Frame BY <1>1
  <2> QED BY <2>1, <2>2, <2>3 DEF Fr, Frame
<1>4. ASSUME NEW d \in 1..Len(stack)
      PROVE  /\ Iterators[d] \in Handles \ Client /\ Kind[Iterators[d]] = "Assert"
             /\ lists.val[Iterators[d]] = Fr(stack, d).old
             /\ \A e \in 1..Len(Iterators) : e # d => Iterators[e] # Iterators[d]
  <2>1. lists.val[Iterators[Len(stack) + 1 - (Len(stack) + 1 - d)]]
          = stack[Len(stack) + 1 - d].old
    BY <1>1, <1>2 DEF LoopsHold
  <2> QED BY <1>2, <2>1, IteratorFacts, ValueHandlesAssumption DEF Fr
<1> QED BY <1>1, <1>2, <1>3, <1>4

(* A step that sets one handle, and goes past no other, leaves what the      *)
(* iterator of a loop is past as the loop needs it.                          *)
LEMMA PastSpared ==
  ASSUME NEW L, NEW M, NEW h \in Handles, NEW f, NEW f2, NEW it, NEW x,
         L.val \in [Handles -> Values \cup {Null, Tombstone}],
         Past(L, f, it), Spares(L, M, h), it \in Handles, it # h,
         f.old \in Values, M.val = [L.val EXCEPT ![h] = x],
         x = f.old => /\ \/ f.callback
                         \/ f.new # Null /\ Kind[h] \in {"Assert", "Callback"}
                      /\ h \notin f2.stayed,
         <<f2.old, f2.new, f2.callback, f2.entry, f2.seen>>
           = <<f.old, f.new, f.callback, f.entry, f.seen>>,
         f2.stayed \subseteq f.stayed, f2.stayed \subseteq Handles
  PROVE  Past(M, f2, it)
<1>f. /\ f2.old = f.old /\ f2.new = f.new /\ f2.callback = f.callback
      /\ f2.entry = f.entry /\ f2.seen = f.seen
  OBVIOUS
<1>1. PICK P \in SUBSET Handles :
        /\ Split(L, P, it, f.old)
        /\ \A g \in P : \/ New(f, g)
                         \/ IF f.new = Null THEN f.callback /\ g = f.entry
                            ELSE Kind[g] \in {"Assert", "Callback"}
        /\ P \cap f.stayed \subseteq f.seen
        /\ \A g \in f.stayed \cap f.seen : L.val[g] = f.old => g \in P
  BY DEF Past
<1>2. PICK Q \in SUBSET Handles : Split(M, Q, it, f.old) /\ Q \ {h} = P \ {h}
  BY <1>1 DEF Spares
<1>3. \A g \in Handles : M.val[g] = IF g = h THEN x ELSE L.val[g] OBVIOUS
<1>4. h \in Q => x = f.old BY <1>2, <1>3 DEF Split
<1>5. ASSUME NEW g \in Q
      PROVE  \/ New(f2, g)
             \/ IF f2.new = Null THEN f2.callback /\ g = f2.entry
                ELSE Kind[g] \in {"Assert", "Callback"}
  <2>1. CASE g = h
    <3>1. x = f.old BY <1>4, <1>5, <2>1
    <3> QED BY <1>f, <2>1, <3>1 DEF New
  <2>2. CASE g # h
    <3>1. g \in P BY <1>2, <1>5, <2>2
    <3>2. New(f, g) => New(f2, g) BY <1>f DEF New
    <3> QED BY <1>1, <1>f, <3>1, <3>2
  <2> QED BY <2>1, <2>2
<1>6. Q \cap f2.stayed \subseteq f.seen
  <2>1. \A g \in Q \cap f2.stayed : g # h /\ g \in P BY <1>2, <1>4
  <2> QED BY <1>1, <2>1
<1>7. \A g \in f2.stayed \cap f.seen : M.val[g] = f.old => g \in Q
  <2>1. ASSUME NEW g \in f2.stayed \cap f.seen, M.val[g] = f.old
        PROVE  g \in Q
    <3>1. g # h BY <1>3, <2>1
    <3>2. L.val[g] = f.old BY <1>3, <2>1, <3>1
    <3>3. g \in P BY <1>1, <2>1, <3>2
    <3> QED BY <1>2, <3>1, <3>3
  <2> QED BY <2>1
<1> QED BY <1>f, <1>2, <1>5, <1>6, <1>7 DEF Past

(* Loops that keep their values stay apart, unless an asserting handle       *)
(* watches a value that is being deleted.                                    *)
LEMMA ApartKept ==
  ASSUME JInv, NEW al, alive \subseteq al, NEW M, NEW st, Len(st) = Len(stack),
         \A d \in 1..Len(stack) : /\ Fr(st, d).old = Fr(stack, d).old
                                  /\ Fr(st, d).new = Fr(stack, d).new
                                  /\ Fr(st, d).stayed \subseteq Fr(stack, d).stayed,
         \A h \in Client : \A d \in 1..Len(stack) :
           Fr(stack, d).new = Null /\ M.val[h] = Fr(stack, d).old =>
             Kind[h] # "Assert" \/ New(Fr(st, d), h)
  PROVE  \A d \in 1..Len(st) : Apart(al, M, st, d)
<1> SUFFICES ASSUME NEW d \in 1..Len(stack) PROVE Apart(al, M, st, d) OBVIOUS
<1>1. Apart(alive, lists, stack, d) BY DEF JInv
<1>2. \A e \in 1..d : e \in 1..Len(stack) BY LoopFacts
<1>3. Fr(st, d).old \in al /\ Fr(st, d).new \in al \cup {Null}
      /\ Fr(st, d).stayed \subseteq Client
  BY <1>1 DEF Apart
<1>4. \A e \in 1..d : Fr(st, d).new # Fr(st, e).old BY <1>1, <1>2 DEF Apart
<1>5. ASSUME Fr(st, d).new = Null
      PROVE  /\ \A e \in 1..Len(st) : e # d =>
                  Fr(st, d).old \notin {Fr(st, e).old, Fr(st, e).new}
             /\ \A h \in Client : M.val[h] = Fr(st, d).old =>
                  Kind[h] # "Assert" \/ New(Fr(st, d), h)
  <2>1. Fr(stack, d).new = Null BY <1>5
  <2>2. \A e \in 1..Len(stack) : e # d =>
          Fr(stack, d).old \notin {Fr(stack, e).old, Fr(stack, e).new}
    BY <1>1, <2>1 DEF Apart
  <2>3. ASSUME NEW h \in Client, M.val[h] = Fr(st, d).old
        PROVE  Kind[h] # "Assert" \/ New(Fr(st, d), h)
    BY <2>1, <2>3
  <2> QED BY <2>2, <2>3
<1> QED BY <1>3, <1>4, <1>5 DEF Apart

(* A client that sets a handle disturbs no loop.                             *)
LEMMA ClientLoops ==
  ASSUME JInv, ClientsTurn, IInv', NEW h \in Client, NEW x \in alive \cup {Null, Tombstone},
         lists'.val = [lists.val EXCEPT ![h] = x], Spares(lists, lists', h),
         alive' = alive,
         stack' = Untouched(h) \/ (stack' = stack /\ lists' = lists)
  PROVE  JInv'
<1>s. /\ Good(lists) /\ lists.val \in [Handles -> Values \cup {Null, Tombstone}]
      /\ stack \in Seq(Frame) /\ Len(stack) \in Nat /\ Len(stack) <= Len(Iterators)
  BY LoopFacts
<1>h. h \in Handles BY DEF Client
<1>1. CASE stack' = stack /\ lists' = lists
  BY <1>1 DEF JInv
<1>2. CASE stack' = Untouched(h)
  <2>1. /\ Len(stack') = Len(stack)
        /\ \A d \in 1..Len(stack) :
             /\ Fr(stack', d) = [Fr(stack, d) EXCEPT !.stayed = @ \ {h}]
             /\ Fr(stack, d) \in Frame
    <3>1. Len(stack') = Len(stack) BY <1>s, <1>2 DEF Untouched
    <3>2. \A i \in 1..Len(stack) : stack'[i] = [stack[i] EXCEPT !.stayed = @ \ {h}]
      BY <1>s, <1>2 DEF Untouched
    <3> QED BY <3>1, <3>2, LoopFacts DEF Fr
  <2>2. \A d \in 1..Len(stack) :
          /\ Fr(stack', d).old = Fr(stack, d).old /\ Fr(stack', d).new = Fr(stack, d).new
          /\ Fr(stack', d).callback = Fr(stack, d).callback
          /\ Fr(stack', d).entry = Fr(stack, d).entry
          /\ Fr(stack', d).seen = Fr(stack, d).seen
          /\ Fr(stack', d).stayed = Fr(stack, d).stayed \ {h}
          /\ Fr(stack, d).stayed \subseteq Handles
    BY <2>1 DEF Frame
  <2>x. \A d \in 1..Len(stack) : Fr(stack, d).callback
    <3>1. \A i \in 1..Len(stack) : stack[i].callback
      <4>1. \A i \in 1..Len(stack) : i > 1 => stack[i].callback
        BY DEF JInv, IInv, LoopsHold
      <4>2. 1 \in 1..Len(stack) => stack[1].callback BY <1>s DEF ClientsTurn, Loop
      <4> QED BY <1>s, <4>1, <4>2
    <3> QED BY <3>1, LoopFacts
  <2>3. \A d \in 1..Len(stack') : Apart(alive', lists', stack', d)
    <3>1. \A g \in Client : lists'.val[g] = IF g = h THEN x ELSE lists.val[g]
      BY <1>s DEF Client
    <3>2. ASSUME NEW g \in Client, NEW d \in 1..Len(stack), Fr(stack, d).new = Null,
                 lists'.val[g] = Fr(stack, d).old
          PROVE  Kind[g] # "Assert" \/ New(Fr(stack', d), g)
      <4>1. CASE g = h BY <2>2, <2>x, <4>1 DEF New
      <4>2. CASE g # h
        <5>1. lists.val[g] = Fr(stack, d).old BY <3>1, <3>2, <4>2
        <5>2. Kind[g] # "Assert" \/ New(Fr(stack, d), g)
          BY <3>2, <5>1 DEF JInv, Apart
        <5> QED BY <2>2, <5>2 DEF New
      <4> QED BY <4>1, <4>2
    <3> QED BY <2>1, <2>2, <3>2, ApartKept
  <2>4. ASSUME NEW d \in 1..Len(stack)
        PROVE  Past(lists', Fr(stack', d), Iterators[d])
    <3> DEFINE f == Fr(stack, d)
               f2 == Fr(stack', d)
               it == Iterators[d]
    <3>1. it \in Handles /\ it # h /\ f.old \in Values /\ Past(lists, f, it)
      BY LoopFacts DEF JInv
    <3>2. <<f2.old, f2.new, f2.callback, f2.entry, f2.seen>>
            = <<f.old, f.new, f.callback, f.entry, f.seen>>
          /\ f2.stayed \subseteq f.stayed /\ f2.stayed \subseteq Handles
      BY <2>2
    <3>3. f.callback /\ h \notin f2.stayed
      BY <2>2, <2>x
    <3> HIDE DEF f, f2, it
    <3>4. Past(lists', f2, it) BY <1>s, <1>h, <3>1, <3>2, <3>3, PastSpared
    <3> QED BY <3>4 DEF f2, it
  <2>5. stack' = <<>> \/ stack'[1].callback
    <3>1. CASE stack = <<>> BY <1>2, <3>1 DEF Untouched
    <3>2. CASE stack # <<>>
      <4>1. 1 \in 1..Len(stack) /\ stack[1].callback /\ stack[1] \in Frame
        BY <1>s, <3>2 DEF ClientsTurn, Loop
      <4>2. stack'[1] = [stack[1] EXCEPT !.stayed = @ \ {h}]
        BY <1>2, <4>1 DEF Untouched
      <4> QED BY <4>1, <4>2 DEF Frame
    <3> QED BY <3>1, <3>2
  <2>6. \A g \in Handles : lists'.val[g] \in alive' \cup {Null, Tombstone}
    BY <1>s DEF JInv
  <2> QED BY <2>1, <2>3, <2>4, <2>5, <2>6 DEF JInv
<1> QED BY <1>1, <1>2

(* The client's operations outside and inside callbacks.                     *)
LEMMA ClientJInv ==
  ASSUME JInv, IInv', NEW h \in Client,
         \/ \E v \in Values \cup {Null} : Construct(h, v) \/ Assign(h, v)
         \/ Destroy(h)
         \/ \E g \in Client \ {h} : Copy(h, g)
  PROVE  JInv'
<1>s. /\ Good(lists) /\ lists.val \in [Handles -> Values \cup {Null, Tombstone}]
      /\ Client \subseteq Handles
  BY LoopFacts DEF Client
<1>1. ASSUME NEW v \in Values \cup {Null}, Construct(h, v) \/ Assign(h, v)
      PROVE  JInv'
  <2>1. /\ ClientsTurn /\ MayWatch(v) /\ lists' \in AssignValue(lists, h, v)
        /\ alive' = alive
        /\ stack' = Untouched(h) \/ (stack' = stack /\ v = lists.val[h])
    BY <1>1 DEF Construct, Assign, ClientRuns
  <2>2. lists'.val = [lists.val EXCEPT ![h] = v] /\ Spares(lists, lists', h)
    BY <1>s, <2>1, AssignValueGood, AssignValueSpares
  <2>3. v = lists.val[h] => lists' = lists BY <2>1 DEF AssignValue
  <2>4. v \in alive \cup {Null, Tombstone}
    BY <2>1 DEF MayWatch
  <2> QED BY <2>1, <2>2, <2>3, <2>4, ClientLoops
<1>2. CASE Destroy(h)
  <2>1. /\ ClientsTurn /\ lists' = Drop(lists, h) /\ alive' = alive
        /\ stack' = Untouched(h)
    BY <1>2 DEF Destroy
  <2>2. lists'.val = [lists.val EXCEPT ![h] = Null] /\ Spares(lists, lists', h)
    BY <1>s, <2>1, DropGood, DropSpares
  <2> QED BY <2>1, <2>2, ClientLoops
<1>3. ASSUME NEW g \in Client, Copy(h, g) PROVE JInv'
  <2> DEFINE x == lists.val[g]
  <2>1. /\ ClientsTurn /\ MayWatch(x) /\ lists' = AssignHandle(lists, h, g)
        /\ alive' = alive
        /\ stack' = Untouched(h) \/ (stack' = stack /\ x = lists.val[h])
    BY <1>3 DEF Copy, ClientRuns
  <2>2. lists'.val = [lists.val EXCEPT ![h] = x] /\ Spares(lists, lists', h)
    BY <1>s, <2>1, AssignHandleGood, AssignHandleSpares
  <2>3. x = lists.val[h] => lists' = lists BY <2>1 DEF AssignHandle
  <2>4. x \in alive \cup {Null, Tombstone}
    BY <2>1 DEF MayWatch
  <2> HIDE DEF x
  <2> QED BY <2>1, <2>2, <2>3, <2>4, ClientLoops
<1> QED BY <1>1, <1>2, <1>3

(* A loop begins. Its iterator is past nothing.                              *)
LEMMA BeginJInv ==
  ASSUME JInv, IInv', NEW old \in alive, NEW new \in alive \cup {Null}, new # old,
         \A i \in 1..Len(stack) : /\ new # stack[i].old
                                  /\ stack[i].old = old => stack[i].new # Null,
         new = Null => /\ \A h \in Watching(old) : Kind[h] # "Assert"
                       /\ \A i \in 1..Len(stack) : old \notin {stack[i].old, stack[i].new},
         Begin(old, new)
  PROVE  JInv'
<1> DEFINE n == Len(stack) + 1
           it == Iterators[n]
           f == [old |-> old, new |-> new, entry |-> lists.head[old],
                 callback |-> FALSE, stayed |-> Watching(old), seen |-> {}]
<1>s. /\ Good(lists) /\ lists.val \in [Handles -> Values \cup {Null, Tombstone}]
      /\ stack \in Seq(Frame) /\ Len(stack) \in Nat /\ n \in 1..Len(Iterators)
      /\ alive \subseteq Values /\ old \in lists.has /\ old \in Values
      /\ alive' = alive
      /\ \A d \in 1..Len(stack) : d \in 1..n /\ d # n
      /\ \A d \in 1..n : d \in 1..Len(stack) \/ d = n
      /\ \A d \in 1..n : d # n => d \in 1..Len(stack)
      /\ \A d \in 1..Len(stack) : \A e \in 1..d : e \in 1..Len(stack)
      /\ n \in 1..n
  BY LoopFacts, IteratorFacts DEF JInv, IInv, Begin
<1>f. f \in Frame
  BY <1>s DEF Frame, Watching, Client, Good, Shape
<1>1. stack' = <<f>> \o stack BY DEF Begin
<1>i. it \in Handles \ Client /\ lists.val[it] = Null /\ Kind[it] = "Assert"
      /\ \A d \in 1..Len(stack) : Iterators[d] # it
  <2>1. \A j \in 1..Len(Iterators) : j > Len(stack) => lists.val[Iterators[j]] = Null
    BY DEF JInv, IInv, LoopsHold
  <2>2. n > Len(stack) BY <1>s
  <2> QED BY <1>s, <2>1, <2>2, IteratorFacts, LoopFacts, ValueHandlesAssumption
<1>2. /\ lists'.val = [lists.val EXCEPT ![it] = old] /\ Spares(lists, lists', it)
      /\ Split(lists', {}, it, old) /\ lists'.next[it] = lists.head[old]
  <2> DEFINE X == AssignHandle(lists, it, lists.head[old])
  <2>1. lists' = X BY DEF Begin
  <2>2. it \in Handles /\ lists.val[it] = Null /\ old \in lists.has /\ Good(lists)
    BY <1>s, <1>i
  <2> HIDE DEF it
  <2>3. /\ X.val = [lists.val EXCEPT ![it] = old] /\ Spares(lists, X, it)
        /\ Split(X, {}, it, old) /\ X.next[it] = lists.head[old]
    BY <2>2, BeginSplit
  <2> QED BY <2>1, <2>3
<1>3. /\ Len(stack') = n /\ stack'[1] = f /\ Fr(stack', n) = f
      /\ \A d \in 1..Len(stack) : Fr(stack', d) = Fr(stack, d)
  <2> HIDE DEF f
  <2>1. Len(stack') = n /\ stack'[1] = f
        /\ \A i \in 2..n : stack'[i] = stack[i - 1]
    BY <1>s, <1>f, <1>1
  <2>2. \A d \in 1..Len(stack) : n + 1 - d \in 2..n /\ n + 1 - d - 1 = Len(stack) + 1 - d
    BY <1>s
  <2>3. n + 1 - n = 1 BY <1>s
  <2>4. ASSUME NEW d \in 1..Len(stack) PROVE Fr(stack', d) = Fr(stack, d)
    <3>1. stack'[n + 1 - d] = stack[n + 1 - d - 1] BY <2>1, <2>2
    <3> QED BY <2>1, <2>2, <3>1 DEF Fr
  <2> QED BY <2>1, <2>3, <2>4 DEF Fr
<1>4. \A g \in Handles : lists'.val[g] = IF g = it THEN old ELSE lists.val[g]
  BY <1>2, <1>s
<1>g. \A d \in 1..Len(stack) :
        /\ new # Fr(stack, d).old
        /\ Fr(stack, d).old = old => Fr(stack, d).new # Null
        /\ new = Null => old \notin {Fr(stack, d).old, Fr(stack, d).new}
        /\ Fr(stack, d).old \in Values
  <2>1. \A d \in 1..Len(stack) : /\ Len(stack) + 1 - d \in 1..Len(stack)
                                 /\ Fr(stack, d) = stack[Len(stack) + 1 - d]
                                 /\ Fr(stack, d).old \in Values
    BY LoopFacts
  <2> QED BY <2>1
<1> HIDE DEF n, it
<1>5. Apart(alive', lists', stack', n)
  <2>1. Fr(stack', n).old = old /\ Fr(stack', n).new = new
        /\ Fr(stack', n).stayed = Watching(old)
    BY <1>3
  <2>2. \A e \in 1..n : new # Fr(stack', e).old
    BY <1>s, <1>3, <1>g, <2>1
  <2>3. new = Null => \A e \in 1..n : e # n => old \notin {Fr(stack', e).old, Fr(stack', e).new}
    BY <1>s, <1>3, <1>g
  <2>4. new = Null => \A h \in Client : lists'.val[h] = old => Kind[h] # "Assert"
    BY <1>4, <1>i DEF Watching, Client
  <2>5. Watching(old) \subseteq Client BY DEF Watching
  <2> HIDE DEF f
  <2> QED BY <1>s, <1>3, <2>1, <2>2, <2>3, <2>4, <2>5 DEF Apart
<1>6. ASSUME NEW d \in 1..Len(stack) PROVE Apart(alive', lists', stack', d)
  <2>1. Apart(alive, lists, stack, d) BY DEF JInv
  <2>2. \A e \in 1..d : Fr(stack', d).new # Fr(stack', e).old
    BY <1>s, <1>3, <2>1 DEF Apart
  <2>3. ASSUME Fr(stack, d).new = Null
        PROVE  /\ \A e \in 1..n : e # d =>
                    Fr(stack, d).old \notin {Fr(stack', e).old, Fr(stack', e).new}
               /\ \A h \in Client : lists'.val[h] = Fr(stack, d).old =>
                    Kind[h] # "Assert" \/ New(Fr(stack, d), h)
    <3>1. \A e \in 1..Len(stack) : e # d =>
            Fr(stack, d).old \notin {Fr(stack', e).old, Fr(stack', e).new}
      BY <1>3, <2>1, <2>3 DEF Apart
    <3>2. Fr(stack, d).old \notin {Fr(stack', n).old, Fr(stack', n).new}
      BY <1>3, <1>g, <2>3
    <3>3. \A h \in Client : lists'.val[h] = lists.val[h] BY <1>4, <1>i DEF Client
    <3>4. \A h \in Client : lists.val[h] = Fr(stack, d).old =>
            Kind[h] # "Assert" \/ New(Fr(stack, d), h)
      BY <2>1, <2>3 DEF Apart
    <3> HIDE DEF f
    <3> QED BY <1>s, <3>1, <3>2, <3>3, <3>4
  <2> HIDE DEF f
  <2> QED BY <1>s, <1>3, <2>1, <2>2, <2>3 DEF Apart
<1>7. Past(lists', Fr(stack', n), it)
  <2>1. /\ f.old = old /\ f.new = new /\ f.callback = FALSE /\ f.seen = {}
    OBVIOUS
  <2> HIDE DEF f
  <2>2. {} \in SUBSET Handles OBVIOUS
  <2> QED BY <1>2, <1>3, <2>1, <2>2 DEF Past
<1>8. ASSUME NEW d \in 1..Len(stack) PROVE Past(lists', Fr(stack', d), Iterators[d])
  <2> DEFINE u == Fr(stack, d)
             j == Iterators[d]
  <2>1. /\ j \in Handles /\ j # it /\ u.old \in Values /\ Past(lists, u, j)
        /\ u.stayed \subseteq Handles /\ u.stayed \subseteq Client
    BY <1>i, LoopFacts DEF JInv, Apart, Client
  <2>2. old = u.old => /\ u.new # Null /\ Kind[it] \in {"Assert", "Callback"}
                       /\ it \notin u.stayed
    BY <1>g, <1>i, <2>1
  <2>3. Fr(stack', d) = u BY <1>3
  <2> HIDE DEF u, j, f
  <2>4. Past(lists', u, j) BY <1>s, <1>i, <1>2, <2>1, <2>2, PastSpared
  <2> QED BY <2>3, <2>4 DEF j
<1>9. \A g \in Handles : lists'.val[g] \in alive' \cup {Null, Tombstone}
  BY <1>s, <1>4 DEF JInv
<1>10. stack'[1].entry = lists'.next[Iterators[Len(stack')]]
  BY <1>2, <1>3 DEF it
<1> HIDE DEF f
<1>11. \A d \in 1..n : /\ Apart(alive', lists', stack', d)
                       /\ Past(lists', Fr(stack', d), Iterators[d])
  BY <1>s, <1>5, <1>6, <1>7, <1>8 DEF it
<1> QED BY <1>3, <1>9, <1>10, <1>11 DEF JInv

(* A value that no handle watches is deleted at once.                        *)
LEMMA DeleteJInv ==
  ASSUME JInv, IInv', NEW v \in Values, DeleteValue(v)
  PROVE  JInv'
<1>1. CASE Begin(v, Null)
  <2>1. Null \notin alive /\ \A i \in 1..Len(stack) : stack[i].old # Null
    BY LoopFacts, ValueHandleListsAssumption DEF JInv, IInv
  <2> QED BY <1>1, <2>1, BeginJInv DEF DeleteValue
<1>2. CASE v \notin lists.has /\ alive' = alive \ {v} /\ lists' = lists /\ stack' = stack
  <2>1. ASSUME NEW h \in Handles PROVE lists.val[h] # v
    <3>1. NodeLinked(lists, h) BY DEF JInv, IInv, Good, WellLinked
    <3> QED BY <1>2, <3>1 DEF NodeLinked, isValid
  <2>2. \A d \in 1..Len(stack) : Fr(stack, d).old # v /\ Fr(stack, d).new # v
    <3>1. \A d \in 1..Len(stack) : /\ Len(stack) + 1 - d \in 1..Len(stack)
                                   /\ Fr(stack, d) = stack[Len(stack) + 1 - d]
      BY LoopFacts
    <3> QED BY <3>1 DEF DeleteValue
  <2>3. \A h \in Handles : lists'.val[h] \in alive' \cup {Null, Tombstone}
    BY <1>2, <2>1 DEF JInv
  <2>4. ASSUME NEW d \in 1..Len(stack) PROVE Apart(alive', lists', stack', d)
    <3>1. Apart(alive, lists, stack, d) BY DEF JInv
    <3> QED BY <1>2, <2>2, <3>1 DEF Apart
  <2> QED BY <1>2, <2>3, <2>4 DEF JInv
<1> QED BY <1>1, <1>2 DEF DeleteValue

(* The loops around the innermost one, when a handle is set that is none of  *)
(* their iterators.                                                          *)
LEMMA OutersSpared ==
  ASSUME JInv, NEW L, NEW M, NEW h \in Handles, NEW x, L.val = lists.val,
         \A d \in 1..(Len(stack) - 1) : Past(L, Fr(stack, d), Iterators[d]),
         Spares(L, M, h), M.val = [L.val EXCEPT ![h] = x],
         \A d \in 1..(Len(stack) - 1) :
           /\ Iterators[d] # h
           /\ x = Fr(stack, d).old => /\ Fr(stack, d).new # Null
                                      /\ Kind[h] \in {"Assert", "Callback"}
                                      /\ h \notin Fr(stack, d).stayed
  PROVE  \A d \in 1..(Len(stack) - 1) : Past(M, Fr(stack, d), Iterators[d])
<1> SUFFICES ASSUME NEW d \in 1..(Len(stack) - 1)
             PROVE  Past(M, Fr(stack, d), Iterators[d])
  OBVIOUS
<1> DEFINE f == Fr(stack, d)
           it == Iterators[d]
<1>1. /\ L.val \in [Handles -> Values \cup {Null, Tombstone}]
      /\ Len(stack) \in Nat
  BY LoopFacts
<1>2. d \in 1..Len(stack) BY <1>1
<1>3. it \in Handles /\ f.old \in Values /\ f \in Frame BY <1>2, LoopFacts
<1>4. /\ it # h /\ Past(L, f, it)
      /\ x = f.old => f.new # Null /\ Kind[h] \in {"Assert", "Callback"}
                      /\ h \notin f.stayed
  OBVIOUS
<1>5. f.stayed \subseteq Handles BY <1>3 DEF Frame
<1> HIDE DEF f, it
<1>6. Past(M, f, it) BY <1>1, <1>3, <1>4, <1>5, PastSpared
<1> QED BY <1>6 DEF f, it

LEMMA InnerJInv ==
  ASSUME JInv, IInv', stack # <<>>, NEW f \in Frame,
         f.old = stack[1].old, f.new = stack[1].new, f.stayed = stack[1].stayed,
         stack' = [stack EXCEPT ![1] = f], alive' = alive,
         \A d \in 1..(Len(stack) - 1) : Past(lists', Fr(stack, d), Iterators[d]),
         Past(lists', f, Iterators[Len(stack)]),
         f.callback \/ f.entry = lists'.next[Iterators[Len(stack)]],
         \A h \in Client : \/ lists'.val[h] = lists.val[h]
                           \/ \A d \in 1..Len(stack) :
                                lists'.val[h] = Fr(stack, d).old => Fr(stack, d).new # Null,
         f.new = Null => \A h \in Client : lists'.val[h] = f.old =>
                           Kind[h] # "Assert" \/ New(f, h),
         \A h \in Handles : lists'.val[h] \in alive \cup {Null, Tombstone}
  PROVE  JInv'
<1> DEFINE n == Len(stack)
<1>s. stack \in Seq(Frame) /\ n \in Nat BY LoopFacts
<1>n. n \in 1..n /\ 1 \in 1..n BY <1>s
<1>1. /\ Len(stack') = n /\ stack'[1] = f
      /\ \A i \in 1..n : i # 1 => stack'[i] = stack[i]
  BY <1>s
<1>2. /\ Fr(stack', n) = f /\ Fr(stack, n) = stack[1]
      /\ \A d \in 1..(n - 1) : Fr(stack', d) = Fr(stack, d) /\ d \in 1..n
  <2>1. n + 1 - n = 1 BY <1>s
  <2>2. \A d \in 1..(n - 1) : n + 1 - d \in 1..n /\ n + 1 - d # 1 /\ d \in 1..n
    BY <1>s
  <2>3. ASSUME NEW d \in 1..(n - 1) PROVE Fr(stack', d) = Fr(stack, d)
    <3>1. stack'[n + 1 - d] = stack[n + 1 - d] BY <1>1, <2>2
    <3> QED BY <1>1, <3>1 DEF Fr
  <2> QED BY <1>1, <2>1, <2>2, <2>3 DEF Fr
<1>3. \A d \in 1..n : d = n \/ d \in 1..(n - 1) BY <1>s
<1>4. \A d \in 1..n : /\ Fr(stack', d).old = Fr(stack, d).old
                      /\ Fr(stack', d).new = Fr(stack, d).new
                      /\ Fr(stack', d).stayed \subseteq Fr(stack, d).stayed
  BY <1>2, <1>3
<1>5. \A d \in 1..Len(stack') : Apart(alive', lists', stack', d)
  <2>1. ASSUME NEW h \in Client, NEW d \in 1..n, Fr(stack, d).new = Null,
               lists'.val[h] = Fr(stack, d).old
        PROVE  Kind[h] # "Assert" \/ New(Fr(stack', d), h)
    <3>1. CASE d = n BY <1>2, <2>1, <3>1
    <3>2. CASE d # n
      <4>1. Fr(stack', d) = Fr(stack, d) BY <1>2, <1>3, <3>2
      <4>2. lists.val[h] = Fr(stack, d).old BY <2>1
      <4> QED BY <2>1, <4>1, <4>2 DEF JInv, Apart
    <3> QED BY <3>1, <3>2
  <2> QED BY <1>1, <1>4, <2>1, ApartKept
<1>6. \A d \in 1..n : Past(lists', Fr(stack', d), Iterators[d])
  BY <1>2, <1>3
<1> QED BY <1>1, <1>5, <1>6 DEF JInv

(* The iterator has moved past the handle the loop visits.                   *)
LEMMA VisitFacts ==
  ASSUME JInv, stack # <<>>, ~Loop.callback, Loop.entry # Null
  PROVE  /\ Len(stack) \in 1..Len(stack) /\ Len(stack) \in Nat
         /\ Loop = Fr(stack, Len(stack)) /\ Loop = stack[1]
         /\ Loop \in Frame /\ Iterator = Iterators[Len(stack)]
         /\ Iterator \in Handles /\ Loop.entry \in Handles \ {Iterator}
         /\ lists.val[Loop.entry] = Loop.old
         /\ Good(MoveIterator) /\ MoveIterator.val = lists.val
         /\ \A d \in 1..(Len(stack) - 1) :
              Past(MoveIterator, Fr(stack, d), Iterators[d])
         /\ \E P \in SUBSET Handles :
              /\ Loop.entry \notin P
              /\ Split(MoveIterator, P \cup {Loop.entry}, Iterator, Loop.old)
              /\ IF Loop.new = Null THEN P = {}
                 ELSE \A g \in P : Kind[g] \in {"Assert", "Callback"}
              /\ P \cap Loop.stayed \subseteq Loop.seen
              /\ \A g \in Loop.stayed \cap Loop.seen : lists.val[g] = Loop.old => g \in P
<1> DEFINE n == Len(stack)
           it == Iterators[n]
           e == Loop.entry
           old == Loop.old
           M == MoveIterator
<1>s. stack \in Seq(Frame) /\ n \in Nat BY LoopFacts
<1>n. n \in 1..n /\ 1 \in 1..n /\ n + 1 - n = 1 /\ n \in Nat BY <1>s
<1>1. Loop = stack[1] /\ Loop = Fr(stack, n) /\ Loop \in Frame
  BY <1>s, <1>n DEF Loop, Fr
<1>2. /\ it \in Handles \ Client /\ Kind[it] = "Assert" /\ old \in Values
      /\ lists.val[it] = old /\ Iterator = it /\ Good(lists)
      /\ \A d \in 1..(n - 1) : Iterators[d] # it /\ d \in 1..n
  <2>1. \A d \in 1..(n - 1) : d \in 1..n /\ d # n BY <1>n
  <2> QED BY <1>n, <1>1, <2>1, LoopFacts DEF Iterator
<1>3. e \in Handles /\ lists.next[it] = e
  <2>1. lists.next[it] = e BY <1>1 DEF JInv
  <2> QED BY <1>1, <2>1 DEF Frame
<1>4. M = AddToExistingUseListAfter(RemoveFromUseList(lists, it), it, e)
  BY <1>2 DEF MoveIterator
<1>5. /\ Good(M) /\ M.val = lists.val /\ lists.val[e] = old /\ e # it
      /\ Spares(lists, M, it)
      /\ \A P \in SUBSET Handles : Split(lists, P, it, old) =>
           Split(M, P \cup {e}, it, old) /\ e \notin P
  <2>1. /\ it \in Handles /\ e \in Handles /\ lists.next[it] = e
        /\ old \in Values /\ lists.val[it] = old /\ Good(lists)
    BY <1>2, <1>3
  <2> HIDE DEF e, it, old, M
  <2>2. Good(M) /\ M.val = lists.val BY <2>1, <1>4, MoveSplit
  <2>3. lists.val[e] = old /\ e # it BY <2>1, <1>4, MoveSplit
  <2>4. Spares(lists, M, it) BY <2>1, <1>4, MoveSplit
  <2>5. ASSUME NEW P \in SUBSET Handles, Split(lists, P, it, old)
        PROVE  Split(M, P \cup {e}, it, old) /\ e \notin P
    <3>1. Passes(lists, M, it, e, old) BY <2>1, <1>4, MoveSplit
    <3> QED BY <2>5, <3>1 DEF Passes
  <2> QED BY <2>2, <2>3, <2>4, <2>5
<1>6. \A d \in 1..(n - 1) : Past(M, Fr(stack, d), Iterators[d])
  <2>1. M.val = [lists.val EXCEPT ![it] = old]
    BY <1>2, <1>5 DEF Good, Shape
  <2>2. ASSUME NEW d \in 1..(n - 1)
        PROVE  /\ Iterators[d] # it /\ Past(lists, Fr(stack, d), Iterators[d])
               /\ old = Fr(stack, d).old =>
                    /\ Fr(stack, d).new # Null /\ Kind[it] \in {"Assert", "Callback"}
                    /\ it \notin Fr(stack, d).stayed
    <3>1. d \in 1..n /\ n # d BY <1>n
    <3>2. Apart(alive, lists, stack, d) /\ Past(lists, Fr(stack, d), Iterators[d])
      BY <3>1 DEF JInv
    <3>3. Fr(stack, d).new = Null => Fr(stack, d).old # old
      BY <1>n, <1>1, <3>1, <3>2 DEF Apart
    <3>4. it \notin Fr(stack, d).stayed BY <1>2, <3>2 DEF Apart
    <3> QED BY <1>2, <3>2, <3>3, <3>4
  <2>3. it \in Handles BY <1>2
  <2> HIDE DEF M, it, old
  <2> QED BY <1>5, <2>1, <2>2, <2>3, OutersSpared
<1>7. PICK P \in SUBSET Handles :
        /\ Split(lists, P, it, old)
        /\ \A g \in P : Loop.new # Null /\ Kind[g] \in {"Assert", "Callback"}
        /\ P \cap Loop.stayed \subseteq Loop.seen
        /\ \A g \in Loop.stayed \cap Loop.seen : lists.val[g] = old => g \in P
  <2>1. Past(lists, Loop, it) BY <1>n, <1>1 DEF JInv
  <2> QED BY <2>1 DEF Past, New
<1>8. IF Loop.new = Null THEN P = {}
      ELSE \A g \in P : Kind[g] \in {"Assert", "Callback"}
  BY <1>7
<1>9. /\ e \notin P /\ Split(M, P \cup {e}, it, old)
  BY <1>5, <1>7
<1> HIDE DEF M, it, e, old
<1>10. \E R \in SUBSET Handles :
         /\ e \notin R /\ Split(M, R \cup {e}, it, old)
         /\ IF Loop.new = Null THEN R = {}
            ELSE \A g \in R : Kind[g] \in {"Assert", "Callback"}
         /\ R \cap Loop.stayed \subseteq Loop.seen
         /\ \A g \in Loop.stayed \cap Loop.seen : lists.val[g] = old => g \in R
  BY <1>7, <1>8, <1>9
<1> QED BY <1>n, <1>1, <1>2, <1>3, <1>5, <1>6, <1>10 DEF M, it, e, old

(* Visiting a handle that is given another value, or that keeps its own.     *)
LEMMA VisitToJInv ==
  ASSUME JInv, IInv', stack # <<>>, ~Loop.callback, Loop.entry # Null, alive' = alive,
         NEW value \in alive \cup {Null, Tombstone}, VisitTo(value),
         \/ /\ value = Loop.old /\ Loop.new # Null
            /\ Kind[Loop.entry] \in {"Assert", "Callback"}
         \/ /\ value \in {Null, Tombstone, Loop.new}
            /\ Kind[Loop.entry] # "Assert"
  PROVE  JInv'
<1> DEFINE n == Len(stack)
           it == Iterators[n]
           e == Loop.entry
           old == Loop.old
           M == MoveIterator
           f == [Loop EXCEPT !.entry = lists'.next[it], !.seen = @ \cup {e}]
<1>v. /\ n \in 1..n /\ n \in Nat /\ Loop = Fr(stack, n) /\ Loop = stack[1]
      /\ Loop \in Frame /\ Iterator = it /\ it \in Handles /\ e \in Handles \ {it}
      /\ lists.val[e] = old /\ Good(M) /\ M.val = lists.val
      /\ \A d \in 1..(n - 1) : Past(M, Fr(stack, d), Iterators[d])
  BY VisitFacts
<1>p. PICK P \in SUBSET Handles :
        /\ e \notin P /\ Split(M, P \cup {e}, it, old)
        /\ IF Loop.new = Null THEN P = {}
           ELSE \A g \in P : Kind[g] \in {"Assert", "Callback"}
        /\ P \cap Loop.stayed \subseteq Loop.seen
        /\ \A g \in Loop.stayed \cap Loop.seen : lists.val[g] = old => g \in P
  BY <1>v, VisitFacts
<1>a. /\ value \in Values \cup {Null, Tombstone} /\ old \in Values
      /\ lists.val \in [Handles -> Values \cup {Null, Tombstone}]
      /\ alive \subseteq Values
  BY <1>v, LoopFacts DEF JInv, IInv, Frame
<1>1. lists' \in AssignValue(M, e, value) BY DEF VisitTo
<1>2. /\ Good(lists') /\ lists'.val = [lists.val EXCEPT ![e] = value]
      /\ Spares(M, lists', e)
  <2>1. Good(M) /\ e \in Handles /\ value \in Values \cup {Null, Tombstone}
    BY <1>v, <1>a
  <2> HIDE DEF M, e
  <2>2. Good(lists') /\ lists'.val = [M.val EXCEPT ![e] = value]
    BY <2>1, <1>1, AssignValueGood
  <2>3. Spares(M, lists', e) BY <2>1, <1>1, AssignValueSpares
  <2> QED BY <1>v, <2>2, <2>3
<1>3. stack' = [stack EXCEPT ![1] = f] BY <1>v DEF VisitTo, NextOfIterator
<1>4. /\ f \in Frame /\ f.old = old /\ f.new = Loop.new /\ f.callback = FALSE
      /\ f.entry = lists'.next[it] /\ f.stayed = Loop.stayed
      /\ f.seen = Loop.seen \cup {e}
  <2>1. lists'.next[it] \in Handles \cup {Null} BY <1>2, <1>v DEF Good, Shape
  <2> QED BY <1>v, <2>1 DEF Frame
<1>5. \A g \in Handles : lists'.val[g] = IF g = e THEN value ELSE lists.val[g]
  BY <1>2, <1>a
<1> HIDE DEF f, M, e, it, old
<1>o. \A d \in 1..(n - 1) : d \in 1..n /\ n # d /\ d \in 1..n BY <1>v
<1>6. ASSUME value # old
      PROVE  /\ \A d \in 1..n : value # Fr(stack, d).old
             /\ Kind[e] # "Assert" /\ value \in {Null, Tombstone, Loop.new}
  <2>1. Kind[e] # "Assert" /\ value \in {Null, Tombstone, Loop.new}
    BY <1>6 DEF e, old
  <2>2. \A d \in 1..n : Fr(stack, d).old \in Values BY LoopFacts
  <2>3. Apart(alive, lists, stack, n) BY <1>v DEF JInv
  <2>4. \A d \in 1..n : Loop.new # Fr(stack, d).old BY <1>v, <2>3 DEF Apart
  <2> QED BY <2>1, <2>2, <2>4, ValueHandleListsAssumption
<1>7. value = old => lists' = M /\ Loop.new # Null /\ Kind[e] \in {"Assert", "Callback"}
  <2>1. value = old => lists' = M BY <1>1, <1>v DEF AssignValue
  <2>2. Apart(alive, lists, stack, n) BY <1>v DEF JInv
  <2>3. Loop.new # old BY <1>v, <2>2 DEF Apart, old
  <2>4. value = old => value \notin {Null, Tombstone, Loop.new}
    BY <1>a, <2>3, ValueHandleListsAssumption
  <2> QED BY <2>1, <2>4 DEF e, old
<1>8. \A d \in 1..(n - 1) : Past(lists', Fr(stack, d), Iterators[d])
  <2>1. CASE value = old BY <1>v, <1>7, <2>1
  <2>2. CASE value # old
    <3>1. \A d \in 1..(n - 1) : Iterators[d] # e /\ value # Fr(stack, d).old
      <4>1. Kind[e] # "Assert" /\ \A d \in 1..n : value # Fr(stack, d).old
        BY <1>6, <2>2
      <4>2. \A d \in 1..n : Kind[Iterators[d]] = "Assert" BY LoopFacts
      <4> QED BY <1>o, <4>1, <4>2
    <3>2. lists'.val = [M.val EXCEPT ![e] = value] BY <1>2, <1>v
    <3>3. e \in Handles BY <1>v
    <3> QED BY <1>v, <1>2, <3>1, <3>2, <3>3, OutersSpared
  <2> QED BY <2>1, <2>2
<1>9. Past(lists', f, it)
  <2>1. CASE value = old
    <3>1. Split(lists', P \cup {e}, it, old) /\ Loop.new # Null
      BY <1>7, <1>p, <2>1
    <3>2. \A g \in P \cup {e} : Kind[g] \in {"Assert", "Callback"}
      BY <1>7, <1>p, <2>1
    <3>3. (P \cup {e}) \cap f.stayed \subseteq f.seen BY <1>4, <1>p
    <3>4. \A g \in f.stayed \cap f.seen : lists'.val[g] = old => g \in P \cup {e}
      <4>1. f.stayed \subseteq Handles BY <1>4 DEF Frame
      <4> QED BY <1>4, <1>5, <1>p, <4>1
    <3>5. P \cup {e} \in SUBSET Handles BY <1>v, <1>p
    <3> QED BY <1>4, <3>1, <3>2, <3>3, <3>4, <3>5 DEF Past
  <2>2. CASE value # old
    <3>1. it \in Handles \ {e} /\ P \cup {e} \in SUBSET Handles BY <1>v, <1>p
    <3>2. PICK Q \in SUBSET Handles :
            Split(lists', Q, it, old) /\ Q \ {e} = (P \cup {e}) \ {e}
      BY <1>a, <1>p, <1>2, <3>1 DEF Spares
    <3>3. e \notin Q BY <1>v, <1>5, <2>2, <3>2 DEF Split
    <3>4. Q = P
      <4>1. \A g \in Q : g \in P BY <3>2, <3>3
      <4>2. \A g \in P : g \in Q BY <1>p, <3>2
      <4> QED BY <4>1, <4>2
    <3>5. \A g \in f.stayed \cap f.seen : lists'.val[g] = old => g \in P
      <4>1. f.stayed \subseteq Handles BY <1>4 DEF Frame
      <4> QED BY <1>4, <1>5, <1>p, <2>2, <4>1
    <3>6. \A g \in P : f.new # Null /\ Kind[g] \in {"Assert", "Callback"}
      BY <1>4, <1>p
    <3>7. P \cap f.stayed \subseteq f.seen BY <1>4, <1>p
    <3> QED BY <1>4, <3>2, <3>4, <3>5, <3>6, <3>7 DEF Past
  <2> QED BY <2>1, <2>2
<1>10. \A h \in Client : \/ lists'.val[h] = lists.val[h]
                         \/ \A d \in 1..n : lists'.val[h] = Fr(stack, d).old =>
                                            Fr(stack, d).new # Null
  <2>1. CASE value = old BY <1>5, <1>v, <2>1 DEF Client
  <2>2. CASE value # old BY <1>5, <1>6, <2>2 DEF Client
  <2> QED BY <2>1, <2>2
<1>11. \A g \in Handles : lists'.val[g] \in alive \cup {Null, Tombstone}
  BY <1>5 DEF JInv
<1>12. ASSUME f.new = Null, NEW h \in Client, lists'.val[h] = f.old
       PROVE  Kind[h] # "Assert"
  <2>1. Apart(alive, lists, stack, n) BY <1>v DEF JInv
  <2>2. h \in Handles BY DEF Client
  <2>3. value # old BY <1>4, <1>7, <1>12
  <2>4. lists.val[h] = old BY <1>4, <1>5, <1>12, <2>2, <2>3
  <2>5. ~New(Loop, h) BY DEF New
  <2> QED BY <1>4, <1>v, <1>12, <2>1, <2>4, <2>5 DEF Apart, old
<1> QED BY <1>v, <1>3, <1>4, <1>8, <1>9, <1>10, <1>11, <1>12, InnerJInv DEF it, old

(* One turn of a loop, up to a callback.                                     *)
LEMMA VisitJInv ==
  ASSUME JInv, IInv', Visit
  PROVE  JInv'
<1>v. /\ stack # <<>> /\ ~Loop.callback /\ Loop.entry # Null /\ alive' = alive
  BY DEF Visit
<1>1. /\ Loop \in Frame /\ Loop.entry \in Handles /\ Loop = Fr(stack, Len(stack))
      /\ Len(stack) \in 1..Len(stack) /\ lists.val[Loop.entry] = Loop.old
      /\ Loop.entry # Iterators[Len(stack)]
  BY <1>v, VisitFacts
<1>a. /\ Apart(alive, lists, stack, Len(stack))
      /\ Loop.old \in alive /\ Loop.new \in alive \cup {Null}
  BY <1>1 DEF JInv, Apart
<1>2. Kind[Loop.entry] \in {"Assert", "Callback", "Tracking", "Weak"}
  BY <1>1, ValueHandlesAssumption
<1>3. CASE Kind[Loop.entry] = "Weak"
  BY <1>v, <1>a, <1>3, VisitToJInv DEF Visit
<1>4. CASE Kind[Loop.entry] = "Tracking"
  <2>1. VisitTo(IF Loop.new = Null THEN Tombstone ELSE Loop.new)
    BY <1>4 DEF Visit
  <2>2. CASE Loop.new = Null BY <1>v, <1>4, <2>1, <2>2, VisitToJInv
  <2>3. CASE Loop.new # Null BY <1>v, <1>a, <1>4, <2>1, <2>3, VisitToJInv
  <2> QED BY <2>2, <2>3
<1>5. CASE Kind[Loop.entry] = "Assert"
  <2>1. Loop.new # Null
    <3>1. CASE Loop.entry \in Client BY <1>v, <1>1, <1>a, <1>5, <3>1 DEF Apart, New
    <3>2. CASE Loop.entry \notin Client
      <4>1. PICK j \in 1..Len(Iterators) : Iterators[j] = Loop.entry
        BY <1>1, <3>2 DEF Client
      <4>2. j \in 1..Len(stack)
        <5>1. j > Len(stack) => lists.val[Iterators[j]] = Null
          BY DEF JInv, IInv, LoopsHold
        <5>2. Loop.old # Null BY <1>1, ValueHandleListsAssumption DEF Frame
        <5>3. ~(j > Len(stack)) BY <1>1, <4>1, <5>1, <5>2
        <5> QED BY <5>3, LoopFacts, IteratorFacts
      <4>3. Fr(stack, j).old = Loop.old /\ j # Len(stack)
        BY <1>1, <4>1, <4>2, LoopFacts
      <4> QED BY <1>1, <1>a, <4>2, <4>3 DEF Apart
    <3> QED BY <3>1, <3>2
  <2>2. VisitTo(Loop.old) BY <1>5 DEF Visit
  <2> QED BY <1>v, <1>a, <1>5, <2>1, <2>2, VisitToJInv
<1>6. CASE Kind[Loop.entry] = "Callback"
  <2> DEFINE n == Len(stack)
             it == Iterators[n]
             e == Loop.entry
             old == Loop.old
             M == MoveIterator
             f == [Loop EXCEPT !.callback = TRUE, !.seen = @ \cup {e}]
  <2>1. /\ lists' = M
        /\ stack' = [stack EXCEPT ![1].callback = TRUE, ![1].seen = @ \cup {e}]
    BY <1>6 DEF Visit
  <2>v. /\ n \in 1..n /\ n \in Nat /\ Loop = stack[1]
        /\ Iterator = it /\ M.val = lists.val
        /\ \A d \in 1..(n - 1) : Past(M, Fr(stack, d), Iterators[d])
    BY <1>v, VisitFacts
  <2>p. PICK P \in SUBSET Handles :
          /\ e \notin P /\ Split(M, P \cup {e}, it, old)
          /\ IF Loop.new = Null THEN P = {}
             ELSE \A g \in P : Kind[g] \in {"Assert", "Callback"}
          /\ P \cap Loop.stayed \subseteq Loop.seen
          /\ \A g \in Loop.stayed \cap Loop.seen : lists.val[g] = old => g \in P
    BY <1>v, <2>v, VisitFacts
  <2>2. stack' = [stack EXCEPT ![1] = f] BY <2>1, <2>v, <1>1, LoopFacts
  <2>3. /\ f \in Frame /\ f.old = old /\ f.new = Loop.new /\ f.callback = TRUE
        /\ f.entry = e /\ f.stayed = Loop.stayed /\ f.seen = Loop.seen \cup {e}
    BY <1>1 DEF Frame
  <2> HIDE DEF f, M, it
  <2>4. Past(M, f, it)
    <3>1. \A g \in P \cup {e} : IF f.new = Null THEN f.callback /\ g = f.entry
                                ELSE Kind[g] \in {"Assert", "Callback"}
      BY <1>6, <2>3, <2>p
    <3>2. (P \cup {e}) \cap f.stayed \subseteq f.seen BY <2>3, <2>p
    <3>3. \A g \in f.stayed \cap f.seen : M.val[g] = f.old => g \in P \cup {e}
      BY <2>3, <2>p, <2>v
    <3>4. P \cup {e} \in SUBSET Handles /\ Split(M, P \cup {e}, it, f.old)
      BY <1>1, <2>3, <2>p
    <3> QED BY <3>1, <3>2, <3>3, <3>4 DEF Past
  <2>5. \A g \in Handles : lists'.val[g] \in alive \cup {Null, Tombstone}
    BY <2>1, <2>v DEF JInv
  <2>6. \A h \in Client : lists'.val[h] = lists.val[h] BY <2>1, <2>v
  <2>7. ASSUME f.new = Null, NEW h \in Client, lists'.val[h] = f.old
        PROVE  Kind[h] # "Assert"
    <3>1. lists.val[h] = Loop.old /\ ~New(Loop, h) BY <1>v, <2>3, <2>6, <2>7 DEF New
    <3> QED BY <1>1, <1>a, <2>3, <2>7, <3>1 DEF Apart
  <2> QED BY <1>v, <2>1, <2>v, <2>2, <2>3, <2>4, <2>5, <2>6, <2>7, InnerJInv DEF it
<1> QED BY <1>2, <1>3, <1>4, <1>5, <1>6

(* A callback returns. When it may not, it has left no handle on the value.  *)
LEMMA CallbackReturnsJInv ==
  ASSUME JInv, IInv', CallbackReturns
  PROVE  JInv'
<1> DEFINE n == Len(stack)
           it == Iterators[n]
           e == Loop.entry
           old == Loop.old
           f == [Loop EXCEPT !.entry = lists'.next[it], !.callback = FALSE]
<1>s. /\ stack # <<>> /\ Loop.callback /\ alive' = alive
      /\ stack \in Seq(Frame) /\ n \in Nat /\ Good(lists)
      /\ lists.val \in [Handles -> Values \cup {Null, Tombstone}]
  BY LoopFacts DEF CallbackReturns
<1>n. n \in 1..n /\ 1 \in 1..n /\ n + 1 - n = 1 /\ Loop = stack[1] /\ Iterator = it
  BY <1>s DEF Loop, Iterator
<1>1. Loop = Fr(stack, n) /\ Loop \in Frame BY <1>s, <1>n DEF Fr
<1>2. /\ it \in Handles /\ Kind[it] = "Assert" /\ lists.val[it] = old
      /\ old \in Values /\ old # Null /\ Loop.stayed \subseteq Handles
  <2>1. old \in Values /\ Loop.stayed \subseteq Handles BY <1>1 DEF Frame
  <2>2. it \in Handles /\ Kind[it] = "Assert" /\ lists.val[it] = old
    BY <1>n, <1>1, LoopFacts
  <2> QED BY <2>1, <2>2, ValueHandleListsAssumption
<1>3. e \in Handles /\ Kind[e] = "Callback"
  BY <1>s, <1>n DEF JInv, IInv, LoopsHold
<1>4. PICK P \in SUBSET Handles :
        /\ Split(lists, P, it, old)
        /\ IF Loop.new = Null THEN P \subseteq {e}
           ELSE \A g \in P : Kind[g] \in {"Assert", "Callback"}
        /\ P \cap Loop.stayed \subseteq Loop.seen
        /\ \A g \in Loop.stayed \cap Loop.seen : lists.val[g] = old => g \in P
  <2>1. Past(lists, Loop, it) BY <1>n, <1>1 DEF JInv
  <2>2. PICK P \in SUBSET Handles :
          /\ Split(lists, P, it, old)
          /\ \A g \in P : \/ New(Loop, g)
                           \/ IF Loop.new = Null THEN g = e
                              ELSE Kind[g] \in {"Assert", "Callback"}
          /\ P \cap Loop.stayed \subseteq Loop.seen
          /\ \A g \in Loop.stayed \cap Loop.seen : lists.val[g] = old => g \in P
    BY <2>1 DEF Past
  <2>3. ASSUME NEW g \in P
        PROVE  IF Loop.new = Null THEN g = e ELSE Kind[g] \in {"Assert", "Callback"}
    <3>1. CASE ~New(Loop, g) BY <2>2, <3>1
    <3>2. CASE New(Loop, g) /\ g \in Client
      <4>1. g \in Watching(old) /\ g \notin Loop.stayed
        BY <2>2, <3>2 DEF Watching, Split, New
      <4> QED BY <1>3, <4>1 DEF CallbackReturns, LeavesNoNewHandle
    <3>3. CASE g \notin Client
      <4>1. PICK j \in 1..Len(Iterators) : Iterators[j] = g
        BY <3>3 DEF Client
      <4>2. lists.val[g] = old /\ g # it BY <2>2 DEF Split
      <4>3. j \in 1..n
        <5>1. j > n => lists.val[Iterators[j]] = Null BY DEF JInv, IInv, LoopsHold
        <5> QED BY <1>s, <1>2, <4>1, <4>2, <5>1, IteratorFacts
      <4>4. Fr(stack, j).old = old /\ j # n BY <4>1, <4>2, <4>3, LoopFacts
      <4>5. Loop.new # Null BY <1>n, <1>1, <4>3, <4>4 DEF JInv, Apart
      <4> QED BY <4>1, <4>5, ValueHandlesAssumption
    <3> QED BY <3>1, <3>2, <3>3
  <2> QED BY <2>2, <2>3
<1>5. stack' = [stack EXCEPT ![1] = f]
  BY <1>n, <1>s DEF CallbackReturns, NextOfIterator
<1>k. \A d \in 1..(n - 1) :
        /\ Iterators[d] # e /\ Null # Fr(stack, d).old
        /\ Past(lists, Fr(stack, d), Iterators[d])
  <2>1. \A d \in 1..(n - 1) : d \in 1..n BY <1>s
  <2> QED BY <1>3, <2>1, LoopFacts, ValueHandleListsAssumption DEF JInv
<1>6. /\ lists'.next[it] \in Handles \cup {Null}
      /\ \A g \in Handles : lists'.val[g] \in {Null, lists.val[g]}
      /\ \A d \in 1..(n - 1) : Past(lists', Fr(stack, d), Iterators[d])
      /\ \E Q \in SUBSET Handles :
           /\ Split(lists', Q, it, old)
           /\ IF Loop.new = Null THEN Q = {}
              ELSE \A g \in Q : Kind[g] \in {"Assert", "Callback"}
           /\ Q \cap Loop.stayed \subseteq Loop.seen
           /\ \A g \in Loop.stayed \cap Loop.seen : lists'.val[g] = old => g \in Q
  <2>1. CASE Loop.new = Null /\ lists.val[e] = old
    <3> HIDE DEF e, it, old
    <3>1. lists' = Drop(lists, e) BY <2>1 DEF CallbackReturns, e, old
    <3>2. /\ Good(lists') /\ lists'.val = [lists.val EXCEPT ![e] = Null]
          /\ Spares(lists, lists', e)
      BY <1>s, <1>3, <3>1, DropGood, DropSpares
    <3>3. \A g \in Handles : lists'.val[g] = IF g = e THEN Null ELSE lists.val[g]
      BY <1>s, <3>2
    <3>4. it \in Handles \ {e} BY <1>2, <1>3
    <3>5. PICK Q \in SUBSET Handles : Split(lists', Q, it, old) /\ Q \ {e} = P \ {e}
      BY <1>2, <1>4, <3>2, <3>4 DEF Spares
    <3>6. e \notin Q BY <1>2, <1>3, <3>3, <3>5 DEF Split
    <3>7. Q = {}
      <4>1. \A g \in Q : g \in P BY <3>5, <3>6
      <4> QED BY <1>4, <2>1, <3>6, <4>1
    <3>8. \A g \in Loop.stayed \cap Loop.seen : lists'.val[g] = old => g \in Q
      <4>1. ASSUME NEW g \in Loop.stayed \cap Loop.seen, lists'.val[g] = old
            PROVE  FALSE
        <5>1. g # e /\ lists.val[g] = old BY <1>2, <3>3, <4>1
        <5>2. g \in P BY <1>4, <4>1, <5>1
        <5> QED BY <1>4, <2>1, <5>1, <5>2
      <4> QED BY <4>1
    <3>9. \A d \in 1..(n - 1) : Past(lists', Fr(stack, d), Iterators[d])
      BY <1>3, <1>k, <3>2, OutersSpared
    <3>10. lists'.next[it] \in Handles \cup {Null} BY <1>2, <3>2 DEF Good, Shape
    <3> QED BY <2>1, <3>3, <3>5, <3>7, <3>8, <3>9, <3>10
  <2>2. CASE ~(Loop.new = Null /\ lists.val[e] = old)
    <3>1. lists' = lists BY <2>2 DEF CallbackReturns
    <3>2. Loop.new = Null => P = {}
      <4>1. Loop.new = Null => e \notin P BY <1>4, <2>2 DEF Split
      <4> QED BY <1>4, <4>1
    <3>3. lists.next[it] \in Handles \cup {Null} BY <1>s, <1>2 DEF Good, Shape
    <3> HIDE DEF e, it, old
    <3>4. /\ Split(lists', P, it, old)
          /\ IF Loop.new = Null THEN P = {}
             ELSE \A g \in P : Kind[g] \in {"Assert", "Callback"}
          /\ P \cap Loop.stayed \subseteq Loop.seen
          /\ \A g \in Loop.stayed \cap Loop.seen : lists'.val[g] = old => g \in P
      BY <1>4, <3>1, <3>2
    <3> QED BY <1>k, <3>1, <3>3, <3>4
  <2> QED BY <2>1, <2>2
<1>7. /\ f \in Frame /\ f.old = old /\ f.new = Loop.new /\ f.callback = FALSE
      /\ f.entry = lists'.next[it] /\ f.stayed = Loop.stayed /\ f.seen = Loop.seen
  BY <1>1, <1>6 DEF Frame
<1> HIDE DEF f, it
<1>8. Past(lists', f, it)
  <2>1. PICK Q \in SUBSET Handles :
           /\ Split(lists', Q, it, old)
           /\ IF Loop.new = Null THEN Q = {}
              ELSE \A g \in Q : Kind[g] \in {"Assert", "Callback"}
           /\ Q \cap Loop.stayed \subseteq Loop.seen
           /\ \A g \in Loop.stayed \cap Loop.seen : lists'.val[g] = old => g \in Q
    BY <1>6
  <2> QED BY <1>7, <2>1 DEF Past
<1>9. \A g \in Handles : lists'.val[g] \in alive \cup {Null, Tombstone}
  BY <1>6 DEF JInv
<1>10. \A h \in Client : \/ lists'.val[h] = lists.val[h]
                         \/ \A d \in 1..n : lists'.val[h] = Fr(stack, d).old =>
                                            Fr(stack, d).new # Null
  BY <1>6, LoopFacts, ValueHandleListsAssumption DEF Client
<1>11. ASSUME f.new = Null, NEW h \in Client, lists'.val[h] = f.old
       PROVE  Kind[h] # "Assert"
  <2>1. Loop.new = Null /\ lists.val[h] = old
    BY <1>2, <1>6, <1>7, <1>11 DEF Client
  <2>2. Kind[h] # "Assert" \/ New(Loop, h) BY <1>n, <1>1, <2>1 DEF JInv, Apart
  <2>3. New(Loop, h) => h = e
    BY <2>1 DEF CallbackReturns, LeavesNoNewHandle, Watching, New
  <2> QED BY <1>3, <2>2, <2>3
<1> QED
  BY <1>s, <1>n, <1>5, <1>6, <1>7, <1>8, <1>9, <1>10, <1>11, InnerJInv DEF it

(* When a loop ends, its iterator is past all handles of the value.          *)
LEMMA EndFacts ==
  ASSUME JInv, End
  PROVE  /\ Len(stack) \in 1..Len(stack) /\ Len(stack) \in Nat
         /\ Loop = stack[1] /\ Loop = Fr(stack, Len(stack)) /\ Loop \in Frame
         /\ Iterator = Iterators[Len(stack)] /\ Iterator \in Handles \ Client
         /\ Loop.stayed \subseteq Client /\ lists.val[Iterator] = Loop.old
         /\ \E P \in SUBSET Handles :
              /\ IF Loop.new = Null THEN P = {}
                 ELSE \A g \in P : Kind[g] \in {"Assert", "Callback"}
              /\ P \cap Loop.stayed \subseteq Loop.seen
              /\ \A h \in Handles : lists.val[h] = Loop.old => h \in P \cup {Iterator}
<1> DEFINE n == Len(stack)
           it == Iterators[n]
           old == Loop.old
<1>s. /\ stack # <<>> /\ ~Loop.callback /\ Loop.entry = Null
      /\ stack \in Seq(Frame) /\ n \in Nat /\ Good(lists)
  BY LoopFacts DEF End
<1>n. n \in 1..n /\ 1 \in 1..n /\ n + 1 - n = 1 /\ Loop = stack[1] /\ Iterator = it
  BY <1>s DEF Loop, Iterator
<1>1. Loop = Fr(stack, n) /\ Loop \in Frame BY <1>s, <1>n DEF Fr
<1>2. /\ it \in Handles \ Client /\ lists.val[it] = old /\ old \in Values
      /\ Loop.stayed \subseteq Client
  <2>1. Apart(alive, lists, stack, n) BY <1>n DEF JInv
  <2> QED BY <1>n, <1>1, <2>1, LoopFacts DEF Apart
<1>3. lists.next[it] = Null BY <1>s, <1>n DEF JInv
<1>4. PICK P \in SUBSET Handles :
        /\ Split(lists, P, it, old)
        /\ \A g \in P : Loop.new # Null /\ Kind[g] \in {"Assert", "Callback"}
        /\ P \cap Loop.stayed \subseteq Loop.seen
  <2>1. Past(lists, Loop, it) BY <1>n, <1>1 DEF JInv
  <2> QED BY <1>s, <2>1 DEF Past, New
<1> HIDE DEF it, old
<1>5. \A h \in Handles : lists.val[h] = old => h \in P \cup {it}
  <2> DEFINE X == P \cup {it}
  <2>1. lists.head[old] \in X BY <1>4 DEF Split
  <2>2. \A g \in X \cap Handles : lists.val[g] = old => lists.next[g] \in X \cup {Null}
    BY <1>3, <1>4 DEF Split
  <2> HIDE DEF X
  <2>3. \A h \in Handles : lists.val[h] = old => h \in X
    BY <1>s, <1>2, <2>1, <2>2, ListInduction
  <2> QED BY <2>3 DEF X
<1>6. IF Loop.new = Null THEN P = {}
      ELSE \A g \in P : Kind[g] \in {"Assert", "Callback"}
  BY <1>4
<1>7. \E R \in SUBSET Handles :
        /\ IF Loop.new = Null THEN R = {}
           ELSE \A g \in R : Kind[g] \in {"Assert", "Callback"}
        /\ R \cap Loop.stayed \subseteq Loop.seen
        /\ \A h \in Handles : lists.val[h] = old => h \in R \cup {it}
  BY <1>4, <1>5, <1>6
<1>8. /\ Iterator \in Handles \ Client /\ lists.val[Iterator] = Loop.old
      /\ Iterator = Iterators[Len(stack)] /\ Iterator = it /\ Loop.old = old
  BY <1>n, <1>2 DEF it, old
<1>9. \E R \in SUBSET Handles :
        /\ IF Loop.new = Null THEN R = {}
           ELSE \A g \in R : Kind[g] \in {"Assert", "Callback"}
        /\ R \cap Loop.stayed \subseteq Loop.seen
        /\ \A h \in Handles : lists.val[h] = Loop.old => h \in R \cup {Iterator}
  BY <1>7, <1>8
<1>10. /\ Len(stack) \in 1..Len(stack) /\ Len(stack) \in Nat
       /\ Loop = stack[1] /\ Loop = Fr(stack, Len(stack)) /\ Loop \in Frame
       /\ Loop.stayed \subseteq Client
  BY <1>n, <1>s, <1>1, <1>2
<1> QED BY <1>8, <1>9, <1>10

(* A loop ends, and with it the value if it was being deleted.               *)
LEMMA EndJInv ==
  ASSUME JInv, IInv', End
  PROVE  JInv'
<1> DEFINE n == Len(stack)
           it == Iterators[n]
           old == Loop.old
<1>e. /\ n \in 1..n /\ n \in Nat /\ Loop = Fr(stack, n) /\ Iterator = it
      /\ it \in Handles \ Client /\ Loop \in Frame
  BY EndFacts
<1>s. /\ Good(lists) /\ lists.val \in [Handles -> Values \cup {Null, Tombstone}]
      /\ stack \in Seq(Frame)
      /\ \A d \in 1..(n - 1) : d \in 1..n /\ d # n
      /\ stack # <<>>
      /\ alive' = IF Loop.new = Null THEN alive \ {old} ELSE alive
      /\ lists' = Drop(lists, it) /\ stack' = Tail(stack)
  BY <1>e, LoopFacts DEF End
<1>1. /\ lists'.val = [lists.val EXCEPT ![it] = Null] /\ Spares(lists, lists', it)
  <2>1. it \in Handles BY <1>e
  <2> HIDE DEF it
  <2> QED BY <1>s, <2>1, DropGood, DropSpares
<1>2. \A g \in Handles : lists'.val[g] = IF g = it THEN Null ELSE lists.val[g]
  BY <1>s, <1>1
<1>3. /\ Len(stack') = n - 1
      /\ \A d \in 1..(n - 1) : Fr(stack', d) = Fr(stack, d)
  <2>1. Len(stack') = n - 1 /\ \A i \in 1..(n - 1) : stack'[i] = stack[i + 1]
    BY <1>s
  <2>2. ASSUME NEW d \in 1..(n - 1) PROVE Fr(stack', d) = Fr(stack, d)
    <3>1. n - 1 + 1 - d \in 1..(n - 1) /\ n - 1 + 1 - d + 1 = n + 1 - d
      BY <1>e
    <3>2. stack'[n - 1 + 1 - d] = stack[n + 1 - d] BY <2>1, <3>1
    <3> QED BY <2>1, <3>2 DEF Fr
  <2> QED BY <2>1, <2>2
<1>4. \A d \in 1..(n - 1) : Past(lists', Fr(stack, d), Iterators[d])
  <2>1. \A d \in 1..(n - 1) :
          /\ Iterators[d] # it /\ Null # Fr(stack, d).old
          /\ Past(lists, Fr(stack, d), Iterators[d])
    BY <1>e, <1>s, LoopFacts, ValueHandleListsAssumption DEF JInv
  <2>2. it \in Handles BY <1>e
  <2> HIDE DEF it
  <2> QED BY <1>1, <2>1, <2>2, OutersSpared
<1>5. Loop.new = Null => \A g \in Handles : lists'.val[g] # old
  <2>1. Loop.new = Null => \A g \in Handles : lists.val[g] = old => g = it
    BY <1>e, EndFacts
  <2>2. old # Null BY <1>e, ValueHandleListsAssumption DEF Frame
  <2> QED BY <1>2, <2>1, <2>2
<1>6. \A g \in Handles : lists'.val[g] \in alive' \cup {Null, Tombstone}
  BY <1>2, <1>5, <1>s DEF JInv
<1>7. ASSUME NEW d \in 1..(n - 1) PROVE Apart(alive', lists', stack', d)
  <2>1. /\ Apart(alive, lists, stack, d) /\ Apart(alive, lists, stack, n)
        /\ d \in 1..n /\ d # n
    BY <1>e, <1>s DEF JInv
  <2>2. Loop.new = Null => Fr(stack, d).old # old /\ Fr(stack, d).new # old
    BY <1>e, <2>1 DEF Apart
  <2>3. Fr(stack, d).old \in alive' /\ Fr(stack, d).new \in alive' \cup {Null}
    BY <1>s, <2>1, <2>2 DEF Apart
  <2>4. \A x \in 1..d : x \in 1..(n - 1) BY <1>e
  <2>5. \A x \in 1..d : Fr(stack', d).new # Fr(stack', x).old
    BY <1>3, <2>1, <2>4 DEF Apart
  <2>6. \A h \in Client : lists'.val[h] = lists.val[h] BY <1>2, <1>e DEF Client
  <2>7. ASSUME Fr(stack, d).new = Null
        PROVE  /\ \A x \in 1..(n - 1) : x # d =>
                    Fr(stack, d).old \notin {Fr(stack, x).old, Fr(stack, x).new}
               /\ \A h \in Client : lists.val[h] = Fr(stack, d).old =>
                    Kind[h] # "Assert" \/ New(Fr(stack, d), h)
    BY <1>s, <2>1, <2>7 DEF Apart
  <2> QED BY <1>3, <2>1, <2>3, <2>5, <2>6, <2>7 DEF Apart
<1>8. stack' = <<>> \/ stack'[1].callback
  <2>1. CASE n = 1 BY <1>s, <1>3, <2>1
  <2>2. CASE n # 1
    <3>a. \A k \in Nat : k \in 1..k /\ k # 1 => 2 \in 1..k OBVIOUS
    <3>0. 2 \in 1..n BY <1>e, <2>2, <3>a
    <3>1. stack'[1] = stack[2] BY <1>e, <1>s, <3>0
    <3>2. \A i \in 1..n : i > 1 => stack[i].callback
      BY DEF JInv, IInv, LoopsHold
    <3>3. stack[2].callback BY <3>0, <3>2
    <3> QED BY <3>1, <3>3
  <2> QED BY <2>1, <2>2
<1> QED BY <1>3, <1>4, <1>6, <1>7, <1>8 DEF JInv

(* Every step of clients and loops keeps the invariant.                      *)
LEMMA NextJInv == JInv /\ [Next]_vars => JInv'
<1> SUFFICES ASSUME JInv, [Next]_vars PROVE JInv' OBVIOUS
<1>1. IInv' BY NextIInv DEF JInv
<1>2. ASSUME NEW h \in Client,
             \/ \E v \in Values \cup {Null} : Construct(h, v) \/ Assign(h, v)
             \/ Destroy(h)
             \/ \E g \in Client \ {h} : Copy(h, g)
      PROVE  JInv'
  BY <1>1, <1>2, ClientJInv
<1>3. ASSUME NEW v \in Values, DeleteValue(v) PROVE JInv'
  BY <1>1, <1>3, DeleteJInv
<1>4. ASSUME NEW v \in Values, NEW w \in Values, replaceAllUsesWith(v, w)
      PROVE  JInv'
  <2>1. /\ v \in alive /\ w \in alive /\ v # w /\ Begin(v, w) /\ w # Null
        /\ \A i \in 1..Len(stack) : /\ w # stack[i].old
                                    /\ stack[i].old = v => stack[i].new # Null
    BY <1>4, ValueHandleListsAssumption DEF replaceAllUsesWith
  <2> QED BY <1>1, <2>1, BeginJInv
<1>5. CASE UNCHANGED vars
  <2>1. lists' = lists /\ alive' = alive /\ stack' = stack BY <1>5 DEF vars
  <2> QED BY <1>1, <2>1 DEF JInv
<1> QED
  BY <1>1, <1>2, <1>3, <1>4, <1>5, VisitJInv, CallbackReturnsJInv, EndJInv
     DEF Next

LEMMA InitJInv == Init => JInv
<1> SUFFICES ASSUME Init PROVE JInv OBVIOUS
<1>1. Len(stack) = 0 BY DEF Init
<1>2. \A h \in Handles : lists.val[h] = Null BY DEF Init, Empty
<1> QED BY <1>1, <1>2, InitIInv DEF Init, JInv
-----------------------------------------------------------------------------
(* When a loop ends, only asserting and callback handles watch a value that  *)
(* was replaced, and none watches a deleted one, whatever the callbacks have *)
(* done meanwhile.                                                           *)
THEOREM NothingLeftBehind == Spec => LoopLeavesNothingBehind
<1>1. ASSUME JInv, End, NEW h \in Handles, lists'.val[h] = Loop.old
      PROVE  Loop.new # Null /\ Kind[h] \in {"Assert", "Callback"}
  <2>1. /\ Loop \in Frame /\ Iterator \in Handles BY <1>1, EndFacts
  <2>2. lists'.val = [lists.val EXCEPT ![Iterator] = Null]
    BY <1>1, <2>1, LoopFacts, DropGood DEF End
  <2>3. lists.val \in [Handles -> Values \cup {Null, Tombstone}] BY <1>1, LoopFacts
  <2>4. Loop.old # Null BY <2>1, ValueHandleListsAssumption DEF Frame
  <2>5. h # Iterator /\ lists.val[h] = Loop.old BY <1>1, <2>1, <2>2, <2>3, <2>4
  <2> QED BY <1>1, <2>5, EndFacts
<1>2. JInv /\ [Next]_vars =>
        [End => \A h \in Handles : lists'.val[h] = Loop.old =>
                  Loop.new # Null /\ Kind[h] \in {"Assert", "Callback"}]_vars
  BY <1>1
<1> QED BY <1>2, InitJInv, NextJInv, PTL DEF Spec, LoopLeavesNothingBehind

(* A handle that is on the list from the start of a loop to its end, and     *)
(* that no callback touches, is visited, and no such handle is visited twice.*)
THEOREM AllVisitedOnce == Spec => EachHandleVisited
<1>1. ASSUME JInv, End
      PROVE  Loop.stayed \subseteq Loop.seen \cup {h \in Handles : lists.val[h] # Loop.old}
  <2>1. Loop.stayed \subseteq Handles /\ Iterator \notin Loop.stayed
    BY <1>1, EndFacts DEF Client
  <2>2. PICK P \in SUBSET Handles :
          /\ P \cap Loop.stayed \subseteq Loop.seen
          /\ \A h \in Handles : lists.val[h] = Loop.old => h \in P \cup {Iterator}
    BY <1>1, EndFacts
  <2> QED BY <2>1, <2>2
<1>2. ASSUME JInv, Visit
      PROVE  Loop.entry \notin Loop.stayed \cap Loop.seen
  BY <1>2, VisitFacts DEF Visit
<1>3. JInv /\ [Next]_vars =>
        [/\ End => Loop.stayed \subseteq Loop.seen \cup {h \in Handles : lists.val[h] # Loop.old}
         /\ Visit => Loop.entry \notin Loop.stayed \cap Loop.seen]_vars
  BY <1>1, <1>2
<1> QED BY <1>3, InitJInv, NextJInv, PTL DEF Spec, EachHandleVisited
-----------------------------------------------------------------------------
(* Induction over the natural numbers, for a set. *)
Less == {ss \in Nat \X Nat : ss[1] < ss[2]}
LEMMA LessWF == IsWellFoundedOn(Less, Nat)
BY NatLessThanWellFounded DEF OpToRel, Less

LEMMA NatSet ==
  ASSUME NEW S, 0 \in S, \A n \in Nat : n \in S => n + 1 \in S
  PROVE  Nat \subseteq S
<1> DEFINE T == Nat \ S
<1> SUFFICES ASSUME T # {} PROVE FALSE OBVIOUS
<1>1. PICK x \in T : \A y \in T : ~(<<y, x>> \in Less)
  <2>1. T \subseteq Nat OBVIOUS
  <2> HIDE DEF T
  <2> QED BY <2>1, LessWF, WFMin
<1>2. x \in Nat /\ x # 0 OBVIOUS
<1>3. x - 1 \in Nat /\ x - 1 < x BY <1>2
<1>4. <<x - 1, x>> \in Less BY <1>2, <1>3 DEF Less
<1>5. x - 1 \in S BY <1>1, <1>3, <1>4
<1> QED BY <1>3, <1>5

(* A walk along the list of a value, for as many steps as there are handles. *)
Steps == Cardinality(Handles)
Follow(S, h) == IF h = Null THEN Null ELSE S.next[h]
Walk(S, v) ==
  CHOOSE at : at = [n \in 0..Steps |->
                      IF n = 0 THEN S.head[v] ELSE IF at[n - 1] = Null THEN Null
                                                   ELSE S.next[at[n - 1]]]
LEMMA StepsFacts == Steps \in Nat
BY ValueHandlesAssumption, FS_CardinalityType DEF Steps

LEMMA WalkFacts ==
  ASSUME NEW S, NEW v
  PROVE  /\ DOMAIN Walk(S, v) = 0..Steps
         /\ Walk(S, v)[0] = S.head[v]
         /\ \A n \in Nat : n + 1 <= Steps =>
              Walk(S, v)[n + 1] = Follow(S, Walk(S, v)[n])
<1> DEFINE Next1(h) == IF h = Null THEN Null ELSE S.next[h]
           Good1(k, g) == g = [n \in 0..k |-> IF n = 0 THEN S.head[v] ELSE Next1(g[n - 1])]
           N == {k \in Nat : \E g : Good1(k, g)}
<1>1. 0 \in N
  <2>1. Good1(0, [n \in 0..0 |-> S.head[v]]) OBVIOUS
  <2> QED BY <2>1
<1>2. ASSUME NEW k \in Nat, k \in N PROVE k + 1 \in N
  <2>1. PICK g : Good1(k, g) BY <1>2
  <2> HIDE DEF Next1
  <2> DEFINE h == [n \in 0..(k + 1) |-> IF n = 0 THEN S.head[v] ELSE Next1(g[n - 1])]
  <2>2. ASSUME NEW n \in 0..k PROVE h[n] = g[n]
    <3>1. g[n] = IF n = 0 THEN S.head[v] ELSE Next1(g[n - 1]) BY <2>1
    <3>2. n \in 0..(k + 1) OBVIOUS
    <3>3. h[n] = IF n = 0 THEN S.head[v] ELSE Next1(g[n - 1]) BY <3>2
    <3> HIDE DEF h
    <3> QED BY <3>1, <3>3
  <2>3. \A n \in 0..(k + 1) : n # 0 => n - 1 \in 0..k OBVIOUS
  <2>4. \A n \in 0..(k + 1) : n # 0 => h[n - 1] = g[n - 1] BY <2>2, <2>3
  <2>5. h = [n \in 0..(k + 1) |-> IF n = 0 THEN S.head[v] ELSE Next1(h[n - 1])]
    <3>1. \A n \in 0..(k + 1) :
            h[n] = IF n = 0 THEN S.head[v] ELSE Next1(h[n - 1])
      BY <2>4
    <3> QED BY <3>1
  <2>6. Good1(k + 1, h) BY <2>5
  <2> HIDE DEF h, Good1
  <2>7. k + 1 \in Nat /\ \E x : Good1(k + 1, x) BY <2>6
  <2> QED BY <2>7
<1>3. Steps \in N
  <2> HIDE DEF N
  <2> QED BY <1>1, <1>2, NatSet, StepsFacts
<1>4. PICK g : Good1(Steps, g) BY <1>3
<1>5. Good1(Steps, Walk(S, v)) BY <1>4 DEF Walk
<1>6. \A n \in 0..Steps :
        Walk(S, v)[n] = IF n = 0 THEN S.head[v] ELSE Next1(Walk(S, v)[n - 1])
  BY <1>5
<1>7. DOMAIN Walk(S, v) = 0..Steps BY <1>5
<1>8. Walk(S, v)[0] = S.head[v]
  <2>1. 0 \in 0..Steps BY StepsFacts
  <2> QED BY <1>6, <2>1
<1> HIDE DEF Good1
<1>9. ASSUME NEW n \in Nat, n + 1 <= Steps
      PROVE  Walk(S, v)[n + 1] = Follow(S, Walk(S, v)[n])
  <2>1. n + 1 \in 0..Steps /\ n + 1 # 0 /\ (n + 1) - 1 = n
    BY <1>9, StepsFacts
  <2> QED BY <1>6, <2>1 DEF Follow
<1> QED BY <1>7, <1>8, <1>9

(* The walk finds the handles of the value, and comes to the list's end.     *)
LEMMA WalkFindsAll ==
  ASSUME NEW S, Good(S), NEW v \in Values
  PROVE  {Walk(S, v)[n] : n \in DOMAIN Walk(S, v)}
           = {h \in Handles : S.val[h] = v} \cup {Null}
<1> DEFINE at == Walk(S, v)
<1>n. Steps \in Nat BY StepsFacts
<1>w. /\ DOMAIN at = 0..Steps /\ at[0] = S.head[v]
      /\ \A n \in Nat : n + 1 <= Steps => at[n + 1] = Follow(S, at[n])
  BY WalkFacts
<1> HIDE DEF at
<1>1. PICK r \in [Handles -> Int] : Ordered(S, r) BY DEF Good
<1>2. ASSUME NEW h \in Handles, S.val[h] = v
      PROVE  S.next[h] # Null => /\ S.next[h] \in Handles /\ S.val[S.next[h]] = v
                                 /\ r[h] < r[S.next[h]]
  <2>1. isValid(S.val[h]) BY <1>2 DEF isValid
  <2> QED BY <1>1, <1>2, <2>1, NextGood DEF Ordered, On
<1>3. \A n \in 0..Steps : at[n] # Null => at[n] \in Handles /\ S.val[at[n]] = v
  <2> DEFINE N == {n \in Nat : n <= Steps => (at[n] # Null =>
                                 at[n] \in Handles /\ S.val[at[n]] = v)}
  <2>1. 0 \in N
    <3>1. S.head[v] # Null => S.head[v] \in Handles /\ S.val[S.head[v]] = v
      BY DEF Good, WellLinked, HeadLinked
    <3> QED BY <1>w, <3>1
  <2>2. ASSUME NEW n \in Nat, n \in N PROVE n + 1 \in N
    <3>1. SUFFICES ASSUME n + 1 <= Steps, at[n + 1] # Null
                   PROVE  at[n + 1] \in Handles /\ S.val[at[n + 1]] = v
      OBVIOUS
    <3>2. at[n + 1] = Follow(S, at[n]) BY <1>w, <3>1
    <3>3. at[n] # Null /\ at[n + 1] = S.next[at[n]] BY <3>1, <3>2 DEF Follow
    <3>4. n <= Steps BY <1>n, <3>1
    <3> QED BY <1>2, <2>2, <3>1, <3>3, <3>4
  <2> HIDE DEF N
  <2>3. Nat \subseteq N BY <2>1, <2>2, NatSet
  <2> QED BY <1>n, <2>3 DEF N
<1>4. \A n \in 0..Steps : at[n] # Null =>
        \A m \in 0..Steps : m < n => at[m] # Null /\ r[at[m]] < r[at[n]]
  <2> DEFINE N == {n \in Nat : n <= Steps => (at[n] # Null =>
                     \A m \in 0..Steps : m < n => at[m] # Null /\ r[at[m]] < r[at[n]])}
  <2>1. 0 \in N BY <1>n
  <2>2. ASSUME NEW n \in Nat, n \in N PROVE n + 1 \in N
    <3>1. SUFFICES ASSUME n + 1 <= Steps, at[n + 1] # Null, NEW m \in 0..Steps, m < n + 1
                   PROVE  at[m] # Null /\ r[at[m]] < r[at[n + 1]]
      BY <2>2
    <3>2. at[n + 1] = Follow(S, at[n]) BY <1>w, <3>1
    <3>3. at[n] # Null /\ at[n + 1] = S.next[at[n]] BY <3>1, <3>2 DEF Follow
    <3>4. n \in 0..Steps BY <1>n, <3>1
    <3>5. at[n] \in Handles /\ S.val[at[n]] = v BY <1>3, <3>3, <3>4
    <3>6. at[n + 1] \in Handles /\ r[at[n]] < r[at[n + 1]]
      BY <1>2, <3>1, <3>3, <3>5
    <3>7. CASE m = n BY <3>3, <3>6, <3>7
    <3>8. CASE m # n
      <4>1. m < n BY <3>1, <3>8
      <4>2. at[m] # Null /\ r[at[m]] < r[at[n]] BY <2>2, <3>3, <3>4, <4>1
      <4>3. at[m] \in Handles BY <1>3, <4>2
      <4> QED BY <3>5, <3>6, <4>2, <4>3
    <3> QED BY <3>7, <3>8
  <2> HIDE DEF N
  <2>3. Nat \subseteq N BY <2>1, <2>2, NatSet
  <2> QED BY <1>n, <2>3 DEF N
<1>5. at[Steps] = Null
  <2> SUFFICES ASSUME at[Steps] # Null PROVE FALSE OBVIOUS
  <2>1. \A n \in 0..Steps : at[n] \in Handles
    <3>1. ASSUME NEW n \in 0..Steps PROVE at[n] # Null
      <4>1. Steps \in 0..Steps /\ (n < Steps \/ n = Steps) BY <1>n
      <4> QED BY <1>4, <4>1
    <3> QED BY <1>3, <3>1
  <2>2. \A m, n \in 0..Steps : at[m] = at[n] => m = n
    <3>1. ASSUME NEW m \in 0..Steps, NEW n \in 0..Steps, m < n
          PROVE  at[m] # at[n]
      <4>1. at[n] # Null BY <2>1, ValueHandleListsAssumption
      <4>2. r[at[m]] < r[at[n]] BY <1>4, <3>1, <4>1
      <4>3. r[at[m]] \in Int BY <2>1
      <4> QED BY <4>2, <4>3
    <3>2. \A m, n \in 0..Steps : m < n \/ n < m \/ m = n BY <1>n
    <3> QED BY <3>1, <3>2
  <2> DEFINE g == [n \in 0..Steps |-> at[n]]
  <2>3. g \in [0..Steps -> Handles] BY <2>1
  <2>4. IsFiniteSet(Handles) BY ValueHandlesAssumption
  <2>5. IsFiniteSet(0..Steps) /\ Cardinality(0..Steps) = Steps + 1
    BY <1>n, FS_Interval
  <2>6. Cardinality(0..Steps) > Cardinality(Handles) BY <1>n, <2>5 DEF Steps
  <2>7. PICK m \in 0..Steps, n \in 0..Steps : m # n /\ g[m] = g[n]
    <3> HIDE DEF g
    <3> QED BY <2>3, <2>4, <2>5, <2>6, FS_PigeonHole
  <2> QED BY <2>2, <2>7
<1>6. \A h \in Handles : S.val[h] = v => h \in {at[n] : n \in 0..Steps}
  <2> DEFINE X == {at[n] : n \in 0..Steps}
  <2>1. v \in S.has => S.head[v] \in X
    <3>1. 0 \in 0..Steps BY <1>n
    <3> QED BY <1>w, <3>1
  <2>2. ASSUME NEW g \in X \cap Handles, S.val[g] = v
        PROVE  S.next[g] \in X \cup {Null}
    <3>1. PICK n \in 0..Steps : g = at[n] OBVIOUS
    <3>2. g # Null BY ValueHandleListsAssumption
    <3>3. n # Steps BY <1>5, <3>1, <3>2
    <3>4. n \in Nat /\ n + 1 <= Steps /\ n + 1 \in 0..Steps BY <1>n, <3>3
    <3>5. at[n + 1] = S.next[g] BY <1>w, <3>1, <3>2, <3>4 DEF Follow
    <3> QED BY <3>4, <3>5
  <2> HIDE DEF X
  <2> QED BY <2>1, <2>2, ListInduction DEF X
<1>7. \A n \in 0..Steps : at[n] \in {h \in Handles : S.val[h] = v} \cup {Null}
  BY <1>3
<1>8. Null \in {at[n] : n \in 0..Steps}
  <2>1. Steps \in 0..Steps BY <1>n
  <2> QED BY <1>5, <2>1
<1>9. {at[n] : n \in 0..Steps} = {h \in Handles : S.val[h] = v} \cup {Null}
  BY <1>6, <1>7, <1>8
<1> QED BY <1>w, <1>9 DEF at

(* However callbacks create, move and destroy handles and replace or delete  *)
(* values, each handle of a value can be found from the value's bucket, and  *)
(* no handle points to a value that is no more.                              *)
THEOREM NothingLost == Spec => []NoHandleIsLost
<1>1. JInv => NoHandleIsLost
  <2> SUFFICES ASSUME JInv PROVE NoHandleIsLost OBVIOUS
  <2>1. Good(lists) BY LoopFacts
  <2>2. \A h \in built : lists.val[h] \in alive \cup {Null, Tombstone}
    BY DEF JInv, IInv
  <2>3. \A v \in Values : {Walk(lists, v)[n] : n \in DOMAIN Walk(lists, v)}
                            = {h \in Handles : lists.val[h] = v} \cup {Null}
    BY <2>1, WalkFindsAll
  <2> QED BY <2>2, <2>3 DEF NoHandleIsLost, Walk, Steps
<1> QED BY <1>1, InitJInv, NextJInv, PTL DEF Spec
=============================================================================
