---------------------------- MODULE DenseMapProofs ----------------------------
(* Proofs about the hash table, for any keys, any hash function and any      *)
(* sizes of the table (that they are powers of two is needed only for        *)
(* searches to end).                                                         *)
EXTENDS DenseMap, Integers, FiniteSetTheorems, WellFoundedInduction, TLAPS

(* The buckets a search for key k looks at in a table of n buckets: triangular *)
(* numbers from the hash value on.                                            *)
Path(n, k, i) == (Hash[k] + ((i * (i + 1)) \div 2)) % n

(* Bucket b is found by a search for k, as no empty bucket comes before it.  *)
OnPath(tab, n, k, b) ==
  \E p \in 0..(2 * n - 1) :
    /\ b = Path(n, k, p)
    /\ \A i \in 0..(p - 1) : tab[Path(n, k, i)] # Empty

(* A table in which every key is in one bucket, where a search finds it.     *)
Findable(tab, n) ==
  /\ \A i, j \in 0..(n - 1) : tab[i] = tab[j] /\ tab[i] \in Keys => i = j
  /\ \A b \in 0..(n - 1) : tab[b] \in Keys => OnPath(tab, n, tab[b], b)

Full(tab, n) == {i \in 0..(n - 1) : tab[i] \in Keys}
Dead(tab, n) == {i \in 0..(n - 1) : tab[i] = Tombstone}
-----------------------------------------------------------------------------
Searching == pc \in {"probe", "found", "absent"}
Growing == pc = "move" \/ old # NoOld

(* The shapes of the records, for which TypeOK is not enough.                *)
Shapes ==
  /\ old = [size |-> old.size, first |-> old.first, second |-> old.second,
            at |-> old.at]
  /\ probe \in [key : Keys \cup {Empty}, no : Nat, amt : Nat,
                tombstone : SUBSET Nat]
  /\ call = NoCall \/ call \in D!Calls

(* Whose key is searched for: that of the call, or of an entry to be moved.  *)
Control ==
  /\ call = NoCall => step = "answer"
  /\ pc = "idle" => old = NoOld /\ call = NoCall
  /\ pc \in {"idle", "move"} => probe = NoProbe
  /\ Searching /\ old = NoOld => call \in D!Calls /\ probe.key = call.key
  /\ Searching /\ old # NoOld =>
       old.at < old.size /\ old.first[old.at] = probe.key /\ probe.key \in Keys
  /\ pc \in {"probe", "found"} \/ (Searching /\ old # NoOld) => numBuckets # 0

(* How many buckets are in use: never all of them, and few after growing.    *)
Load ==
  /\ numBuckets # 0 => numEntries + numTombstones < numBuckets
  /\ Growing =>
       numEntries <= old.at /\ numTombstones = 0 /\ old.size < numBuckets
  /\ step # "answer" => numBuckets # 0
  /\ step = "place" =>
       /\ numTombstones = 0
       /\ (IF Growing THEN old.size ELSE numEntries) + 1 < numBuckets

(* Each key is in one bucket of the old or of the new table.                 *)
Tables ==
  /\ Findable(first, numBuckets)
  /\ \A i, j \in old.at..(old.size - 1) :
       old.first[i] = old.first[j] /\ old.first[i] \in Keys => i = j
  /\ \A i \in old.at..(old.size - 1), j \in Buckets :
       old.first[i] \in Keys => first[j] # old.first[i]

(* What a search has seen so far, and what its answer means.                 *)
Searches ==
  /\ pc = "probe" =>
       /\ probe.amt \in 1..(2 * numBuckets)
       /\ probe.no = Path(numBuckets, probe.key, probe.amt - 1)
       /\ \A i \in 0..(probe.amt - 2) :
            first[Path(numBuckets, probe.key, i)] \notin {probe.key, Empty}
       /\ \A b \in probe.tombstone :
            /\ b \in Buckets /\ first[b] = Tombstone
            /\ OnPath(first, numBuckets, probe.key, b)
  /\ pc = "found" => first[probe.no] = probe.key
  /\ pc = "absent" =>
       /\ \A i \in Buckets : first[i] # probe.key
       /\ numBuckets # 0 => /\ probe.no \in Buckets
                            /\ first[probe.no] \in {Empty, Tombstone}
                            /\ OnPath(first, numBuckets, probe.key, probe.no)

IInv ==
  TypeOK /\ Shapes /\ Control /\ Load /\ Tables /\ Searches /\ CountsAreTrue
-----------------------------------------------------------------------------
(* Division with remainder...                                                *)
LEMMA Division ==
  ASSUME NEW n \in Nat \ {0}, NEW x \in Nat
  PROVE  x % n \in 0..(n - 1) /\ x \div n \in Nat /\ x = n * (x \div n) + (x % n)
OBVIOUS

(* ...is unique...                                                           *)
LEMMA UniqueRemainder ==
  ASSUME NEW n \in Nat \ {0}, NEW q \in Nat, NEW p \in Nat,
         NEW r \in 0..(n - 1), NEW s \in 0..(n - 1), n * q + r = n * p + s
  PROVE  r = s
OBVIOUS

(* ...so that what is added may be added before or after...                  *)
LEMMA RemainderOfSum ==
  ASSUME NEW n \in Nat \ {0}, NEW x \in Nat, NEW y \in Nat
  PROVE  ((x % n) + y) % n = (x + y) % n
<1> DEFINE a == x \div n
           r == x % n
           b == (r + y) \div n
           s == (r + y) % n
           c == (x + y) \div n
           t == (x + y) % n
<1>1. a \in Nat /\ r \in 0..(n - 1) /\ x = n * a + r
  BY Division
<1>2. b \in Nat /\ s \in 0..(n - 1) /\ r + y = n * b + s
  <2>1. r + y \in Nat
    BY <1>1
  <2> QED BY <2>1, Division
<1>3. c \in Nat /\ t \in 0..(n - 1) /\ x + y = n * c + t
  <2>1. x + y \in Nat
    OBVIOUS
  <2> QED BY <2>1, Division
<1> HIDE DEF a, r, b, s, c, t
<1>4. n * (a + b) = n * a + n * b
  BY <1>1, <1>2
<1>5. n * (a + b) + s = n * c + t
  BY <1>1, <1>2, <1>3, <1>4
<1>6. a + b \in Nat
  BY <1>1, <1>2
<1>7. s = t
  BY <1>2, <1>3, <1>5, <1>6, UniqueRemainder
<1> QED BY <1>7 DEF s, t, r

(* ...and multiples left out.                                                *)
LEMMA RemainderOfMultiple ==
  ASSUME NEW n \in Nat \ {0}, NEW x \in Nat, NEW m \in Nat
  PROVE  (x + n * m) % n = x % n
<1> DEFINE a == x \div n
           r == x % n
           c == (x + n * m) \div n
           t == (x + n * m) % n
<1>1. n * m \in Nat
  OBVIOUS
<1>2. a \in Nat /\ r \in 0..(n - 1) /\ x = n * a + r
  BY Division
<1>3. c \in Nat /\ t \in 0..(n - 1) /\ x + n * m = n * c + t
  <2>1. x + n * m \in Nat
    BY <1>1
  <2> QED BY <2>1, Division
<1> HIDE DEF a, r, c, t
<1>4. n * (a + m) = n * a + n * m
  BY <1>2
<1>5. n * (a + m) + r = n * c + t
  BY <1>1, <1>2, <1>3, <1>4
<1>6. a + m \in Nat
  BY <1>2
<1>7. r = t
  BY <1>2, <1>3, <1>5, <1>6, UniqueRemainder
<1> QED BY <1>7 DEF r, t

(* Triangular numbers.                                                       *)
LEMMA Triangular ==
  ASSUME NEW i \in Nat
  PROVE  /\ (i * (i + 1)) \div 2 \in Nat
         /\ ((i * (i + 1)) \div 2) + (i + 1) = ((i + 1) * ((i + 1) + 1)) \div 2
OBVIOUS

(* A path stays in the table, begins at the hash value, goes on as the code  *)
(* goes on, and after twice as many steps as buckets begins again.           *)
LEMMA PathSteps ==
  ASSUME NEW n \in Nat \ {0}, NEW k \in Keys
  PROVE  /\ \A i \in Nat : Path(n, k, i) \in 0..(n - 1)
         /\ Path(n, k, 0) = Hash[k] % n
         /\ \A i \in Nat : (Path(n, k, i) + (i + 1)) % n = Path(n, k, i + 1)
         /\ Path(n, k, 2 * n) = Path(n, k, 0)
<1>1. Hash[k] \in Nat
  BY DenseMapAssumption
<1>2. ASSUME NEW i \in Nat
      PROVE  Path(n, k, i) \in 0..(n - 1)
  <2>1. Hash[k] + ((i * (i + 1)) \div 2) \in Nat
    BY <1>1, Triangular
  <2> QED BY <2>1, Division DEF Path
<1>3. Path(n, k, 0) = Hash[k] % n
  <2>1. (0 * (0 + 1)) \div 2 = 0
    OBVIOUS
  <2> QED BY <1>1, <2>1 DEF Path
<1>4. ASSUME NEW i \in Nat
      PROVE  (Path(n, k, i) + (i + 1)) % n = Path(n, k, i + 1)
  <2> DEFINE t == (i * (i + 1)) \div 2
             u == ((i + 1) * ((i + 1) + 1)) \div 2
  <2>1. t \in Nat /\ t + (i + 1) = u
    BY Triangular
  <2> HIDE DEF t, u
  <2>2. Hash[k] + t \in Nat /\ i + 1 \in Nat
    BY <1>1, <2>1
  <2>3. (((Hash[k] + t) % n) + (i + 1)) % n = ((Hash[k] + t) + (i + 1)) % n
    BY <2>2, RemainderOfSum
  <2>4. (Hash[k] + t) + (i + 1) = Hash[k] + u
    BY <1>1, <2>1
  <2> QED BY <2>3, <2>4 DEF Path, t, u
<1>5. Path(n, k, 2 * n) = Path(n, k, 0)
  <2>1. ((2 * n) * (2 * n + 1)) \div 2 = n * (2 * n + 1)
    OBVIOUS
  <2>2. (Hash[k] + n * (2 * n + 1)) % n = Hash[k] % n
    <3>1. 2 * n + 1 \in Nat
      OBVIOUS
    <3> QED BY <1>1, <3>1, RemainderOfMultiple
  <2> QED BY <1>3, <2>1, <2>2 DEF Path
<1> QED BY <1>2, <1>3, <1>4, <1>5
-----------------------------------------------------------------------------
(* A bucket that is written with anything but Empty hides nothing from the   *)
(* searches.                                                                 *)
LEMMA FillKeepsPaths ==
  ASSUME NEW n \in Nat \ {0}, NEW tab \in [0..(n - 1) -> Slots],
         NEW b \in 0..(n - 1), NEW s \in Slots \ {Empty},
         NEW k \in Keys, NEW c, OnPath(tab, n, k, c)
  PROVE  OnPath([tab EXCEPT ![b] = s], n, k, c)
<1>1. PICK p \in 0..(2 * n - 1) :
        /\ c = Path(n, k, p)
        /\ \A i \in 0..(p - 1) : tab[Path(n, k, i)] # Empty
  BY DEF OnPath
<1>2. \A i \in 0..(p - 1) : Path(n, k, i) \in 0..(n - 1)
  <2>1. \A i \in Nat : Path(n, k, i) \in 0..(n - 1)
    BY PathSteps
  <2>2. \A i \in 0..(p - 1) : i \in Nat
    OBVIOUS
  <2> QED BY <2>1, <2>2
<1>3. \A i \in 0..(p - 1) : [tab EXCEPT ![b] = s][Path(n, k, i)] # Empty
  BY <1>1, <1>2
<1> QED BY <1>1, <1>3 DEF OnPath

(* Keys remain findable when a tombstone is written, or a key that is not in *)
(* the table yet into a bucket where a search for it comes by.               *)
LEMMA FillKeepsFindable ==
  ASSUME NEW n \in Nat \ {0}, NEW tab \in [0..(n - 1) -> Slots],
         NEW b \in 0..(n - 1), NEW s \in Slots \ {Empty}, Findable(tab, n),
         s \in Keys => /\ OnPath(tab, n, s, b)
                       /\ \A i \in 0..(n - 1) : tab[i] # s
  PROVE  Findable([tab EXCEPT ![b] = s], n)
<1> DEFINE U == [tab EXCEPT ![b] = s]
<1>1. \A i \in 0..(n - 1) : U[i] = IF i = b THEN s ELSE tab[i]
  OBVIOUS
<1>2. ASSUME NEW i \in 0..(n - 1), NEW j \in 0..(n - 1),
             U[i] = U[j], U[i] \in Keys
      PROVE  i = j
  BY <1>1, <1>2 DEF Findable
<1>3. ASSUME NEW i \in 0..(n - 1), U[i] \in Keys
      PROVE  OnPath(U, n, U[i], i)
  <2>1. OnPath(tab, n, U[i], i)
    BY <1>1, <1>3 DEF Findable
  <2> QED BY <1>3, <2>1, FillKeepsPaths
<1> QED BY <1>2, <1>3 DEF Findable

LEMMA EmptyTable ==
  ASSUME NEW n \in Nat
  PROVE  /\ AllEmpty(n) \in [0..(n - 1) -> Slots]
         /\ NoValues(n) \in [0..(n - 1) -> Values \cup {NoValue}]
         /\ \A i \in 0..(n - 1) : AllEmpty(n)[i] = Empty
         /\ Findable(AllEmpty(n), n)
         /\ Cardinality(Full(AllEmpty(n), n)) = 0
         /\ Cardinality(Dead(AllEmpty(n), n)) = 0
<1>1. \A i \in 0..(n - 1) : AllEmpty(n)[i] = Empty
  BY DEF AllEmpty
<1>2. Full(AllEmpty(n), n) = {} /\ Dead(AllEmpty(n), n) = {}
  BY <1>1, DenseMapAssumption DEF Full, Dead
<1>3. Findable(AllEmpty(n), n)
  BY <1>1, DenseMapAssumption DEF Findable
<1> QED BY <1>1, <1>2, <1>3, FS_EmptySet DEF AllEmpty, NoValues, Slots
-----------------------------------------------------------------------------
(* Two sets that differ in one element at most.                              *)
LEMMA CountDiffering ==
  ASSUME NEW S, NEW T, NEW b, IsFiniteSet(S), IsFiniteSet(T), S \ {b} = T \ {b}
  PROVE  /\ Cardinality(S) \in Nat /\ Cardinality(T) \in Nat
         /\ b \in S /\ b \notin T => Cardinality(T) = Cardinality(S) - 1
         /\ b \notin S /\ b \in T => Cardinality(T) = Cardinality(S) + 1
         /\ (b \in S <=> b \in T) => Cardinality(T) = Cardinality(S)
<1>1. Cardinality(S) \in Nat /\ Cardinality(T) \in Nat
  BY FS_CardinalityType
<1>2. Cardinality(S \ {b}) = IF b \in S THEN Cardinality(S) - 1 ELSE Cardinality(S)
  BY FS_RemoveElement
<1>3. Cardinality(T \ {b}) = IF b \in T THEN Cardinality(T) - 1 ELSE Cardinality(T)
  BY FS_RemoveElement
<1> QED BY <1>1, <1>2, <1>3

LEMMA FiniteCounts ==
  ASSUME NEW n \in Nat, NEW tab
  PROVE  /\ IsFiniteSet(Full(tab, n)) /\ IsFiniteSet(Dead(tab, n))
         /\ Cardinality(Full(tab, n)) \in Nat /\ Cardinality(Dead(tab, n)) \in Nat
<1>1. IsFiniteSet(0..(n - 1))
  BY FS_Interval
<1>2. Full(tab, n) \in SUBSET (0..(n - 1)) /\ Dead(tab, n) \in SUBSET (0..(n - 1))
  BY DEF Full, Dead
<1>3. IsFiniteSet(Full(tab, n)) /\ IsFiniteSet(Dead(tab, n))
  BY <1>1, <1>2, FS_Subset
<1> QED BY <1>3, FS_CardinalityType

(* What writing to one bucket does to the counts.                            *)
LEMMA FillCounts ==
  ASSUME NEW n \in Nat, NEW tab \in [0..(n - 1) -> Slots],
         NEW b \in 0..(n - 1), NEW s \in Slots \ {Empty}
  PROVE  LET U == [tab EXCEPT ![b] = s] IN
         /\ s \in Keys /\ tab[b] \notin Keys =>
              Cardinality(Full(U, n)) = Cardinality(Full(tab, n)) + 1
         /\ s = Tombstone /\ tab[b] \in Keys =>
              /\ Cardinality(Full(U, n)) = Cardinality(Full(tab, n)) - 1
              /\ Cardinality(Dead(U, n)) = Cardinality(Dead(tab, n)) + 1
         /\ s \in Keys /\ tab[b] = Tombstone =>
              Cardinality(Dead(U, n)) = Cardinality(Dead(tab, n)) - 1
         /\ s \in Keys /\ tab[b] # Tombstone =>
              Cardinality(Dead(U, n)) = Cardinality(Dead(tab, n))
<1> DEFINE U == [tab EXCEPT ![b] = s]
<1>1. \A i \in 0..(n - 1) : U[i] = IF i = b THEN s ELSE tab[i]
  OBVIOUS
<1> HIDE DEF U
<1>2. Full(tab, n) \ {b} = Full(U, n) \ {b} /\ Dead(tab, n) \ {b} = Dead(U, n) \ {b}
  BY <1>1 DEF Full, Dead
<1>3. /\ b \in Full(tab, n) <=> tab[b] \in Keys
      /\ b \in Full(U, n) <=> s \in Keys
      /\ b \in Dead(tab, n) <=> tab[b] = Tombstone
      /\ b \in Dead(U, n) <=> s = Tombstone
  BY <1>1 DEF Full, Dead
<1>4. Tombstone \notin Keys
  BY DenseMapAssumption
<1>5. /\ IsFiniteSet(Full(tab, n)) /\ IsFiniteSet(Full(U, n))
      /\ IsFiniteSet(Dead(tab, n)) /\ IsFiniteSet(Dead(U, n))
  BY FiniteCounts
<1>6. /\ b \in Full(tab, n) /\ b \notin Full(U, n) =>
           Cardinality(Full(U, n)) = Cardinality(Full(tab, n)) - 1
      /\ b \notin Full(tab, n) /\ b \in Full(U, n) =>
           Cardinality(Full(U, n)) = Cardinality(Full(tab, n)) + 1
  BY <1>2, <1>5, CountDiffering
<1>7. /\ b \in Dead(tab, n) /\ b \notin Dead(U, n) =>
           Cardinality(Dead(U, n)) = Cardinality(Dead(tab, n)) - 1
      /\ b \notin Dead(tab, n) /\ b \in Dead(U, n) =>
           Cardinality(Dead(U, n)) = Cardinality(Dead(tab, n)) + 1
      /\ (b \in Dead(tab, n) <=> b \in Dead(U, n)) =>
           Cardinality(Dead(U, n)) = Cardinality(Dead(tab, n))
  BY <1>2, <1>5, CountDiffering
<1>8. QED BY <1>3, <1>4, <1>6, <1>7 DEF U

(* When less than all buckets are in use, one of them is empty.              *)
LEMMA RoomLeft ==
  ASSUME NEW n \in Nat, NEW tab \in [0..(n - 1) -> Slots],
         Cardinality(Full(tab, n)) + Cardinality(Dead(tab, n)) < n
  PROVE  \E i \in 0..(n - 1) : tab[i] = Empty
<1> SUFFICES ASSUME \A i \in 0..(n - 1) : tab[i] # Empty
             PROVE  FALSE
  OBVIOUS
<1>1. Full(tab, n) \cup Dead(tab, n) = 0..(n - 1)
  BY DEF Full, Dead, Slots
<1>2. Full(tab, n) \cap Dead(tab, n) = {}
  BY DenseMapAssumption DEF Full, Dead
<1>3. IsFiniteSet(Full(tab, n)) /\ IsFiniteSet(Dead(tab, n))
  BY FiniteCounts
<1>4. Cardinality(Full(tab, n) \cup Dead(tab, n)) =
        Cardinality(Full(tab, n)) + Cardinality(Dead(tab, n))
        - Cardinality(Full(tab, n) \cap Dead(tab, n))
  BY <1>3, FS_Union
<1>5. Cardinality(0..(n - 1)) = n
  BY FS_Interval
<1>6. /\ Cardinality(Full(tab, n)) \in Nat /\ Cardinality(Dead(tab, n)) \in Nat
  BY FiniteCounts
<1>7. Cardinality(Full(tab, n) \cap Dead(tab, n)) = 0
  BY <1>2, FS_EmptySet
<1>8. Cardinality(Full(tab, n) \cup Dead(tab, n)) = n
  BY <1>1, <1>5
<1> QED BY <1>4, <1>6, <1>7, <1>8
-----------------------------------------------------------------------------
(* Facts that most steps need.                                               *)
LEMMA Basics ==
  ASSUME IInv
  PROVE  /\ numBuckets \in Nat /\ old.size \in Nat /\ old.at \in Nat
         /\ numBuckets # 0 => probe.no \in Buckets
         /\ Searching => probe.key \in Keys
         /\ call # NoCall => call \in D!Calls /\ call.key \in Keys
         /\ numEntries = Cardinality(Full(first, numBuckets))
         /\ numTombstones = Cardinality(Dead(first, numBuckets))
<1>1. \A n \in Sizes \cup {0} : n \in Nat
  BY DenseMapAssumption
<1>2. numBuckets \in Nat /\ old.size \in Nat /\ old.at \in Nat
  <2>1. /\ numBuckets \in Sizes \cup {0} /\ old.size \in Sizes \cup {0}
        /\ old.at \in 0..old.size
    BY DEF IInv, TypeOK
  <2>2. numBuckets \in Nat /\ old.size \in Nat
    BY <1>1, <2>1
  <2> QED BY <2>1, <2>2
<1>3. numBuckets # 0 => probe.no \in Buckets
  BY <1>2 DEF IInv, TypeOK, Buckets
<1>4. call # NoCall => call \in D!Calls /\ call.key \in Keys
  BY DEF IInv, Shapes, D!Calls
<1>5. Searching => probe.key \in Keys
  BY DEF IInv, Control, D!Calls
<1>6. /\ numEntries = Cardinality(Full(first, numBuckets))
      /\ numTombstones = Cardinality(Dead(first, numBuckets))
  BY DEF IInv, CountsAreTrue, Full, Dead, Buckets
<1> QED BY <1>2, <1>3, <1>4, <1>5, <1>6

LEMMA EmptyRecords ==
  /\ NoCall \notin D!Calls
  /\ NoOld.size = 0 /\ NoOld.at = 0
  /\ NoProbe \in [key : Keys \cup {Empty}, no : Nat, amt : Nat,
                  tombstone : SUBSET Nat]
  /\ NoProbe.no = 0 /\ NoProbe.amt = 1
BY DEF NoCall, NoOld, NoProbe, D!Calls

LEMMA InitHolds == Init => IInv
<1> SUFFICES ASSUME Init
             PROVE  IInv
  OBVIOUS
<1>1. numBuckets \in Nat /\ numBuckets \in Sizes \cup {0}
  BY DenseMapAssumption DEF Init
<1>2. TypeOK
  BY <1>1, EmptyTable, EmptyRecords DEF Init, TypeOK, Buckets, NoOld
<1>3. Shapes
  BY EmptyRecords DEF Init, Shapes, NoOld
<1>4. Control
  BY DEF Init, Control, Searching
<1>5. Load
  BY <1>1 DEF Init, Load, Growing
<1>6. Tables
  BY <1>1, EmptyTable, EmptyRecords DEF Init, Tables
<1>7. Searches
  BY DEF Init, Searches
<1>8. CountsAreTrue
  BY <1>1, EmptyTable DEF Init, CountsAreTrue, Full, Dead, Buckets
<1> QED BY <1>2, <1>3, <1>4, <1>5, <1>6, <1>7, <1>8 DEF IInv
-----------------------------------------------------------------------------
(* The beginning of a search.                                                *)
LEMMA LookupStarts ==
  ASSUME numBuckets \in Nat, NEW key \in Keys, Lookup(key),
         UNCHANGED <<numBuckets, first>>
  PROVE  /\ probe' \in [key : Keys \cup {Empty}, no : Nat, amt : Nat,
                        tombstone : SUBSET Nat]
         /\ probe'.key = key /\ probe'.no \in Buckets \cup {0} /\ probe'.amt = 1
         /\ pc' = IF numBuckets = 0 THEN "absent" ELSE "probe"
         /\ Searches'
<1> DEFINE no == IF numBuckets = 0 THEN 0 ELSE Hash[key] % numBuckets
<1>1. probe' = [key |-> key, no |-> no, amt |-> 1, tombstone |-> {}]
  BY DEF Lookup, NoProbe
<1>2. pc' = IF numBuckets = 0 THEN "absent" ELSE "probe"
  BY DEF Lookup
<1>3. numBuckets # 0 => no = Path(numBuckets, key, 0) /\ no \in Buckets
  BY PathSteps DEF Buckets
<1>4. no \in Buckets \cup {0} /\ no \in Nat
  BY <1>3 DEF Buckets
<1>5. Searches'
  <2>1. CASE numBuckets = 0
    BY <1>1, <1>2, <2>1 DEF Searches, Buckets
  <2>2. CASE numBuckets # 0
    <3>1. 1 \in 1..(2 * numBuckets) /\ 1 - 1 = 0 /\ 0..(1 - 2) = {}
      BY <2>2
    <3> QED BY <1>1, <1>2, <1>3, <2>2, <3>1 DEF Searches
  <2> QED BY <2>1, <2>2
<1> HIDE DEF no
<1> QED BY <1>1, <1>2, <1>4, <1>5

LEMMA CallHolds ==
  ASSUME IInv, NEW op \in {"find", "insert", "assign", "erase"},
         NEW key \in Keys, NEW value \in Values \cup {NoValue},
         Call(op, key, value)
  PROVE  IInv'
<1>1. /\ UNCHANGED <<numBuckets, first, second, numEntries, numTombstones, old,
                     answer, step>>
      /\ pc = "idle" /\ Lookup(key) /\ call' \in D!Calls /\ call'.key = key
  BY DEF Call, table, counts, D!Calls
<1>2. /\ probe' \in [key : Keys \cup {Empty}, no : Nat, amt : Nat,
                     tombstone : SUBSET Nat]
      /\ probe'.key = key /\ probe'.no \in Buckets \cup {0} /\ probe'.amt = 1
      /\ pc' = IF numBuckets = 0 THEN "absent" ELSE "probe"
      /\ Searches'
  BY <1>1, Basics, LookupStarts
<1>3. old = NoOld /\ call = NoCall /\ step = "answer"
  BY <1>1 DEF IInv, Control
<1>4. TypeOK'
  BY <1>1, <1>2 DEF IInv, TypeOK, Buckets
<1>5. Shapes'
  BY <1>1, <1>2 DEF IInv, Shapes
<1>6. Control'
  BY <1>1, <1>2, <1>3, EmptyRecords DEF Control, Searching
<1>7. Load'
  BY <1>1, <1>2, <1>3 DEF IInv, Load, Growing
<1>8. Tables'
  BY <1>1 DEF IInv, Tables, Buckets
<1>9. CountsAreTrue'
  BY <1>1 DEF IInv, CountsAreTrue, Buckets
<1> QED BY <1>2, <1>4, <1>5, <1>6, <1>7, <1>8, <1>9 DEF IInv
(* One turn of the search.                                                   *)
LEMMA ProbeHolds ==
  ASSUME IInv, Probe
  PROVE  IInv'
<1> DEFINE n == numBuckets
           key == probe.key
           no == probe.no
           i == probe.amt - 1
<1>1. /\ UNCHANGED <<numBuckets, first, second, numEntries, numTombstones, old,
                     call, answer, step>>
      /\ pc = "probe"
  BY DEF Probe, table, counts
<1>2. n \in Nat \ {0} /\ key \in Keys /\ no \in 0..(n - 1) /\ Searching
  BY <1>1, Basics DEF IInv, Control, Searching, Buckets
<1>3. /\ probe.amt \in 1..(2 * n) /\ no = Path(n, key, i)
      /\ \A j \in 0..(i - 1) : first[Path(n, key, j)] \notin {key, Empty}
      /\ \A b \in probe.tombstone :
           b \in Buckets /\ first[b] = Tombstone /\ OnPath(first, n, key, b)
  <2>1. probe.amt \in 1..(2 * n)
    BY <1>1 DEF IInv, Searches
  <2>2. probe.amt - 2 = i - 1
    BY <2>1
  <2> QED BY <1>1, <2>1, <2>2 DEF IInv, Searches
<1>4. i \in 0..(2 * n - 1) /\ OnPath(first, n, key, no)
  <2>1. i \in 0..(2 * n - 1)
    BY <1>2, <1>3
  <2> QED BY <1>3, <2>1 DEF OnPath
<1>5. first[no] \in Slots /\ first \in [0..(n - 1) -> Slots]
  BY <1>2 DEF IInv, TypeOK, Buckets
<1>6. probe \in [key : Keys \cup {Empty}, no : Nat, amt : Nat,
                 tombstone : SUBSET Nat]
  BY DEF IInv, Shapes
<1>7. CASE first[no] = key
  <2>1. pc' = "found" /\ probe' = probe
    BY <1>2, <1>7, DenseMapAssumption DEF Probe
  <2>2. Searches'
    BY <1>1, <1>7, <2>1 DEF Searches
  <2>3. TypeOK' /\ Shapes'
    BY <1>1, <2>1 DEF IInv, TypeOK, Shapes, Buckets
  <2>4. Control' /\ Load'
    BY <1>1, <2>1 DEF IInv, Control, Load, Growing, Searching
  <2>5. Tables' /\ CountsAreTrue'
    BY <1>1 DEF IInv, Tables, CountsAreTrue, Buckets
  <2> QED BY <2>2, <2>3, <2>4, <2>5 DEF IInv
<1>8. CASE first[no] = Empty
  <2>1. pc' = "absent" /\ probe' = [probe EXCEPT !.no = Preferred]
    BY <1>2, <1>8, DenseMapAssumption DEF Probe
  <2>2. /\ Preferred \in Buckets /\ first[Preferred] \in {Empty, Tombstone}
        /\ OnPath(first, n, key, Preferred)
    <3>1. CASE probe.tombstone = {}
      BY <1>2, <1>4, <1>8, <3>1 DEF Preferred, Buckets
    <3>2. CASE probe.tombstone # {}
      <4>1. Preferred \in probe.tombstone
        BY <3>2 DEF Preferred
      <4> QED BY <1>3, <4>1
    <3> QED BY <3>1, <3>2
  <2>3. ASSUME NEW b \in Buckets
        PROVE  first[b] # key
    <3> SUFFICES ASSUME first[b] = key
                 PROVE  FALSE
      OBVIOUS
    <3>1. OnPath(first, n, key, b)
      BY <1>2 DEF IInv, Tables, Findable, Buckets
    <3>2. PICK p \in 0..(2 * n - 1) :
            /\ b = Path(n, key, p)
            /\ \A j \in 0..(p - 1) : first[Path(n, key, j)] # Empty
      BY <3>1 DEF OnPath
    <3>3. p # i
      BY <1>2, <1>3, <1>8, <3>2, DenseMapAssumption
    <3>4. ~(p < i)
      <4> SUFFICES ASSUME p < i
                   PROVE  FALSE
        OBVIOUS
      <4>1. p \in 0..(i - 1)
        BY <1>4
      <4> QED BY <1>3, <3>2, <4>1
    <3>5. i \in 0..(p - 1)
      BY <1>4, <3>3, <3>4
    <3> QED BY <1>3, <1>8, <3>2, <3>5
  <2>4. /\ probe'.key = key /\ probe'.no = Preferred
        /\ probe'.amt = probe.amt
        /\ probe' \in [key : Keys \cup {Empty}, no : Nat, amt : Nat,
                       tombstone : SUBSET Nat]
    <3>1. Preferred \in Nat
      BY <1>2, <2>2 DEF Buckets
    <3> QED BY <1>6, <2>1, <3>1
  <2>5. Searches'
    BY <1>1, <2>1, <2>2, <2>3, <2>4 DEF Searches, Buckets
  <2>6. TypeOK' /\ Shapes'
    BY <1>1, <1>6, <2>1, <2>2, <2>4 DEF IInv, TypeOK, Shapes, Buckets
  <2>7. Control' /\ Load'
    BY <1>1, <2>1, <2>4 DEF IInv, Control, Load, Growing, Searching
  <2>8. Tables' /\ CountsAreTrue'
    BY <1>1 DEF IInv, Tables, CountsAreTrue, Buckets
  <2> QED BY <2>5, <2>6, <2>7, <2>8 DEF IInv
<1>9. CASE first[no] \notin {key, Empty}
  <2> DEFINE T == IF first[no] = Tombstone /\ probe.tombstone = {}
                  THEN {no} ELSE probe.tombstone
             m == (no + probe.amt) % n
  <2>1. pc' = "probe" /\ probe' = [probe EXCEPT !.no = m, !.amt = NextAmt,
                                                !.tombstone = T]
    BY <1>1, <1>9 DEF Probe
  <2>2. m = Path(n, key, NextAmt - 1) /\ m \in 0..(n - 1)
        /\ NextAmt \in 1..(2 * n)
        /\ \A j \in 0..(NextAmt - 2) : first[Path(n, key, j)] \notin {key, Empty}
    <3>1. m = Path(n, key, i + 1) /\ m \in 0..(n - 1)
      <4>1. i \in Nat /\ i + 1 = probe.amt /\ i + 1 \in Nat
        BY <1>2, <1>3
      <4>2. (Path(n, key, i) + (i + 1)) % n = Path(n, key, i + 1)
        BY <1>2, <4>1, PathSteps
      <4>3. Path(n, key, i + 1) \in 0..(n - 1)
        BY <1>2, <4>1, PathSteps
      <4> QED BY <1>3, <4>1, <4>2, <4>3
    <3>2. CASE probe.amt = 2 * n
      <4>1. NextAmt = 1 /\ i + 1 = 2 * n
        BY <1>2, <3>2 DEF NextAmt
      <4>2. Path(n, key, 2 * n) = Path(n, key, 0)
        BY <1>2, PathSteps
      <4>3. NextAmt - 1 = 0 /\ NextAmt \in 1..(2 * n) /\ 0..(NextAmt - 2) = {}
        BY <1>2, <4>1
      <4> QED BY <3>1, <4>1, <4>2, <4>3
    <3>3. CASE probe.amt # 2 * n
      <4>1. NextAmt = probe.amt + 1
        BY <3>3 DEF NextAmt
      <4>2. NextAmt - 1 = i + 1 /\ NextAmt \in 1..(2 * n)
            /\ \A j \in 0..(NextAmt - 2) : j = i \/ j \in 0..(i - 1)
        BY <1>2, <1>3, <3>3, <4>1
      <4> QED BY <1>3, <1>9, <3>1, <4>2
    <3> QED BY <3>2, <3>3
  <2>3. /\ probe'.key = key /\ probe'.no = m
        /\ probe'.amt = NextAmt /\ probe'.tombstone = T
    BY <1>6, <2>1
  <2>4. \A b \in T : b \in Buckets /\ first[b] = Tombstone
                     /\ OnPath(first, n, key, b)
    BY <1>2, <1>3, <1>4 DEF Buckets
  <2>5. probe' \in [key : Keys \cup {Empty}, no : Nat, amt : Nat,
                    tombstone : SUBSET Nat]
    <3>1. T \subseteq Nat /\ m \in Nat /\ NextAmt \in Nat
      BY <1>2, <2>2, <2>4 DEF Buckets
    <3> HIDE DEF T, m
    <3> QED BY <1>6, <2>1, <3>1
  <2> HIDE DEF T, m
  <2>6. Searches'
    BY <1>1, <2>1, <2>2, <2>3, <2>4 DEF Searches, Buckets
  <2>7. TypeOK' /\ Shapes'
    BY <1>1, <2>1, <2>2, <2>3, <2>5 DEF IInv, TypeOK, Shapes, Buckets
  <2>8. Control' /\ Load'
    BY <1>1, <2>1, <2>3 DEF IInv, Control, Load, Growing, Searching
  <2>9. Tables' /\ CountsAreTrue'
    BY <1>1 DEF IInv, Tables, CountsAreTrue, Buckets
  <2> QED BY <2>6, <2>7, <2>8, <2>9 DEF IInv
<1> QED BY <1>7, <1>8, <1>9
-----------------------------------------------------------------------------
(* The end of a call: what is left to show of each is what it does to the    *)
(* buckets and the counts.                                                   *)
LEMMA ReturnHolds ==
  ASSUME IInv, old = NoOld, NEW result \in Values \cup {NoValue}, Return(result),
         numBuckets' = numBuckets,
         first' \in [Buckets -> Slots],
         second' \in [Buckets -> Values \cup {NoValue}],
         numEntries' = Cardinality(Full(first', numBuckets)),
         numTombstones' = Cardinality(Dead(first', numBuckets)),
         numBuckets # 0 => numEntries' + numTombstones' < numBuckets,
         Findable(first', numBuckets)
  PROVE  IInv'
<1>1. /\ pc' = "idle" /\ call' = NoCall /\ probe' = NoProbe /\ step' = "answer"
      /\ answer' = result /\ old' = NoOld
  BY DEF Return
<1>2. numEntries' \in Nat /\ numTombstones' \in Nat
  BY Basics, FiniteCounts
<1>3. TypeOK'
  BY <1>1, <1>2, EmptyRecords DEF IInv, TypeOK, Buckets
<1>4. Shapes'
  BY <1>1, EmptyRecords DEF IInv, Shapes
<1>5. Control' /\ Searches'
  BY <1>1 DEF Control, Searches, Searching
<1>6. Load'
  BY <1>1 DEF Load, Growing
<1>7. Tables'
  BY <1>1, EmptyRecords DEF Tables
<1>8. CountsAreTrue'
  BY DEF CountsAreTrue, Full, Dead, Buckets
<1> QED BY <1>3, <1>4, <1>5, <1>6, <1>7, <1>8 DEF IInv

(* Calls that change nothing, or only the value of an entry.                 *)
LEMMA AnswerHolds ==
  ASSUME IInv, AssignFound \/ AnswerFound \/ AnswerAbsent
  PROVE  IInv'
<1>1. \E result \in Values \cup {NoValue} : Return(result)
  <2>1. CASE AnswerAbsent
    BY <2>1 DEF AnswerAbsent
  <2>2. CASE AssignFound \/ AnswerFound
    <3>1. pc = "found" /\ numBuckets # 0
      BY <2>2 DEF AssignFound, AnswerFound, Answered, IInv, Control, Searching
    <3>2. Found \in Values \cup {NoValue}
      BY <3>1, Basics DEF IInv, TypeOK, Found
    <3> QED BY <2>2, <3>2 DEF AssignFound, AnswerFound
  <2> QED BY <2>1, <2>2
<1>2. UNCHANGED <<numBuckets, first, numEntries, numTombstones>> /\ old = NoOld
  BY DEF AssignFound, AnswerFound, AnswerAbsent, Answered, table, counts
<1>3. second' \in [Buckets -> Values \cup {NoValue}]
  <2>1. CASE AssignFound
    <3>1. call \in D!Calls
      BY <2>1, Basics DEF AssignFound, Answered, NoCall
    <3>2. call.value \in Values \cup {NoValue}
      BY <3>1 DEF D!Calls
    <3> QED BY <2>1, <3>2 DEF AssignFound, IInv, TypeOK
  <2>2. CASE AnswerFound \/ AnswerAbsent
    BY <2>2 DEF AnswerFound, AnswerAbsent, table, IInv, TypeOK
  <2> QED BY <2>1, <2>2
<1>4. /\ first' \in [Buckets -> Slots] /\ Findable(first', numBuckets)
      /\ numBuckets # 0 => numEntries' + numTombstones' < numBuckets
  BY <1>2 DEF IInv, TypeOK, Tables, Load
<1> QED BY <1>1, <1>2, <1>3, <1>4, Basics, ReturnHolds

LEMMA EraseHolds ==
  ASSUME IInv, EraseFound
  PROVE  IInv'
<1> DEFINE n == numBuckets
           no == probe.no
<1>1. /\ pc = "found" /\ old = NoOld
      /\ first' = [first EXCEPT ![no] = Tombstone]
      /\ second' = [second EXCEPT ![no] = NoValue]
      /\ numEntries' = numEntries - 1 /\ numTombstones' = numTombstones + 1
      /\ Return(Found) /\ numBuckets' = numBuckets
  BY DEF EraseFound, Answered
<1>2. n \in Nat \ {0} /\ no \in 0..(n - 1) /\ Searching /\ probe.key \in Keys
  BY <1>1, Basics DEF IInv, Control, Searching, Buckets
<1>3. first[no] \in Keys
  BY <1>1, <1>2 DEF IInv, Searches
<1>4. /\ first \in [0..(n - 1) -> Slots]
      /\ second \in [0..(n - 1) -> Values \cup {NoValue}]
      /\ Tombstone \in Slots \ {Empty} /\ Tombstone \notin Keys
  BY DenseMapAssumption DEF IInv, TypeOK, Buckets, Slots
<1>5. Found \in Values \cup {NoValue}
  BY <1>2, <1>4 DEF Found
<1>6. first' \in [Buckets -> Slots] /\ second' \in [Buckets -> Values \cup {NoValue}]
  BY <1>1, <1>4 DEF Buckets
<1>7. /\ numEntries' = Cardinality(Full(first', n))
      /\ numTombstones' = Cardinality(Dead(first', n))
  <2>1. /\ Cardinality(Full(first', n)) = Cardinality(Full(first, n)) - 1
        /\ Cardinality(Dead(first', n)) = Cardinality(Dead(first, n)) + 1
    <3>1. LET U == [first EXCEPT ![no] = Tombstone] IN
            /\ Cardinality(Full(U, n)) = Cardinality(Full(first, n)) - 1
            /\ Cardinality(Dead(U, n)) = Cardinality(Dead(first, n)) + 1
      BY <1>2, <1>3, <1>4, FillCounts
    <3> QED BY <1>1, <3>1
  <2> QED BY <1>1, <2>1, Basics
<1>8. numEntries' + numTombstones' < n
  BY <1>1, <1>2 DEF IInv, TypeOK, Load
<1>9. Findable(first', n)
  <2>1. Findable(first, n)
    BY DEF IInv, Tables
  <2> QED BY <1>1, <1>2, <1>4, <2>1, FillKeepsFindable
<1> QED BY <1>1, <1>5, <1>6, <1>7, <1>8, <1>9, ReturnHolds

LEMMA InsertHolds ==
  ASSUME IInv, InsertEntry
  PROVE  IInv'
<1> DEFINE n == numBuckets
           no == probe.no
           key == call.key
<1>1. /\ pc = "absent" /\ old = NoOld /\ call.op \in {"insert", "assign"}
      /\ step = "place" \/ (PastLoad /\ ~FewEmpty)
      /\ first' = [first EXCEPT ![no] = key]
      /\ second' = [second EXCEPT ![no] = call.value]
      /\ numEntries' = numEntries + 1
      /\ numTombstones' = IF first[no] = Empty THEN numTombstones
                          ELSE numTombstones - 1
      /\ Return(NoValue) /\ numBuckets' = numBuckets
  BY DEF InsertEntry, Inserting, Answered
<1>2. /\ n \in Nat /\ numEntries \in Nat /\ numTombstones \in Nat
      /\ call \in D!Calls /\ key \in Keys /\ probe.key = key
  BY <1>1, Basics DEF IInv, TypeOK, Control, Searching, NoCall
<1>3. n # 0
  <2>1. CASE step = "answer" /\ ~Crowded
    BY <1>2, <2>1 DEF Crowded
  <2>2. CASE step # "answer"
    BY <2>2 DEF IInv, Load
  <2> QED BY <1>1, <2>1, <2>2 DEF PastLoad
<1>4. /\ no \in 0..(n - 1) /\ first[no] \in {Empty, Tombstone}
      /\ OnPath(first, n, key, no) /\ \A i \in 0..(n - 1) : first[i] # key
  BY <1>1, <1>2, <1>3 DEF IInv, Searches, Buckets
<1>5. /\ first \in [0..(n - 1) -> Slots]
      /\ second \in [0..(n - 1) -> Values \cup {NoValue}]
      /\ key \in Slots \ {Empty} /\ call.value \in Values \cup {NoValue}
      /\ Empty # Tombstone /\ Empty \notin Keys /\ Tombstone \notin Keys
  BY <1>2, DenseMapAssumption DEF IInv, TypeOK, Buckets, Slots, D!Calls
<1>6. first' \in [Buckets -> Slots] /\ second' \in [Buckets -> Values \cup {NoValue}]
  BY <1>1, <1>4, <1>5 DEF Buckets
<1>7. /\ numEntries' = Cardinality(Full(first', n))
      /\ numTombstones' = Cardinality(Dead(first', n))
  <2> DEFINE U == [first EXCEPT ![no] = key]
  <2>1. /\ Cardinality(Full(U, n)) = Cardinality(Full(first, n)) + 1
        /\ first[no] = Tombstone =>
             Cardinality(Dead(U, n)) = Cardinality(Dead(first, n)) - 1
        /\ first[no] # Tombstone =>
             Cardinality(Dead(U, n)) = Cardinality(Dead(first, n))
    <3>1. /\ n \in Nat /\ first \in [0..(n - 1) -> Slots] /\ no \in 0..(n - 1)
          /\ key \in Keys /\ key \in Slots \ {Empty} /\ key # Tombstone
          /\ first[no] \notin Keys
      BY <1>2, <1>4, <1>5
    <3> QED BY <3>1, FillCounts
  <2>2. U = first'
    BY <1>1
  <2> HIDE DEF U
  <2> QED BY <1>1, <1>4, <1>5, <2>1, <2>2, Basics
<1>8. numEntries' + numTombstones' < n
  <2>1. numEntries + 1 + numTombstones < n
    <3>1. numEntries + numTombstones < n
      BY <1>3 DEF IInv, Load
    <3>2. CASE step = "place"
      <4>1. ~Growing
        BY <1>1 DEF Growing
      <4>2. numTombstones = 0 /\ numEntries + 1 < n
        BY <3>2, <4>1 DEF IInv, Load
      <4> QED BY <1>2, <4>2
    <3>3. CASE ~FewEmpty
      <4>1. n \div 8 \in Nat
        BY <1>2
      <4> QED BY <1>2, <3>1, <3>3, <4>1 DEF FewEmpty
    <3> QED BY <1>1, <3>2, <3>3
  <2> QED BY <1>1, <1>2, <2>1
<1>9. Findable(first', n)
  <2>1. Findable(first, n)
    BY DEF IInv, Tables
  <2> QED BY <1>1, <1>2, <1>3, <1>4, <1>5, <2>1, FillKeepsFindable
<1> QED BY <1>1, <1>6, <1>7, <1>8, <1>9, ReturnHolds
-----------------------------------------------------------------------------
(* Allocating a larger table.                                                *)
LEMMA GrowHolds ==
  ASSUME IInv, old = NoOld, pc \in {"idle", "absent"},
         NEW atLeast \in Nat, grow(atLeast),
         atLeast > numBuckets \/ atLeast = 2 * numBuckets,
         step' \in {"answer", "room", "place"},
         step' # "answer" => call # NoCall /\ atLeast = 2 * numBuckets
  PROVE  IInv'
<1>1. PICK n \in Sizes :
        /\ n >= atLeast /\ n >= MinBuckets
        /\ numBuckets' = n
        /\ first' = AllEmpty(n) /\ second' = NoValues(n)
  BY DEF grow
<1>2. /\ numEntries' = 0 /\ numTombstones' = 0 /\ probe' = NoProbe /\ pc' = "move"
      /\ old' = [size |-> numBuckets, first |-> first, second |-> second, at |-> 0]
      /\ call' = call /\ answer' = answer
  BY DEF grow
<1>3. /\ old'.size = numBuckets /\ old'.at = 0
      /\ old'.first = first /\ old'.second = second
  BY <1>2
<1>4. n \in Nat /\ n > 2 /\ numBuckets \in Nat
  BY <1>1, Basics, DenseMapAssumption
<1>5. numBuckets < n /\ (atLeast = 2 * numBuckets => numBuckets + 1 < n)
  <2>1. CASE atLeast = 2 * numBuckets
    <3>1. n >= 2 * numBuckets
      BY <1>1, <2>1
    <3> QED BY <1>4, <3>1
  <2>2. CASE atLeast > numBuckets /\ atLeast # 2 * numBuckets
    BY <1>1, <1>4, <2>2
  <2> QED BY <2>1, <2>2
<1>6. TypeOK'
  <2>1. /\ first' \in [0..(n - 1) -> Slots]
        /\ second' \in [0..(n - 1) -> Values \cup {NoValue}]
    BY <1>1, <1>4, EmptyTable
  <2>2. /\ old'.first \in [0..(old'.size - 1) -> Slots]
        /\ old'.second \in [0..(old'.size - 1) -> Values \cup {NoValue}]
        /\ old'.size \in Sizes \cup {0} /\ old'.at \in 0..old'.size
    BY <1>3, <1>4 DEF IInv, TypeOK, Buckets
  <2> QED BY <1>1, <1>2, <2>1, <2>2, EmptyRecords DEF IInv, TypeOK, Buckets
<1>7. Shapes'
  BY <1>2, <1>3, EmptyRecords DEF IInv, Shapes
<1>8. Control'
  BY <1>2 DEF Control, Searching
<1>9. Load'
  BY <1>1, <1>2, <1>3, <1>4, <1>5 DEF Load, Growing
<1>10. Tables'
  <2>1. Findable(first', n) /\ \A j \in 0..(n - 1) : first'[j] = Empty
    BY <1>1, <1>4, EmptyTable
  <2>2. ASSUME NEW i \in 0..(numBuckets - 1), NEW j \in 0..(numBuckets - 1),
               first[i] = first[j], first[i] \in Keys
        PROVE  i = j
    BY <2>2 DEF IInv, Tables, Findable
  <2>3. Empty \notin Keys
    BY DenseMapAssumption
  <2> QED BY <1>1, <1>3, <2>1, <2>2, <2>3 DEF Tables, Buckets
<1>11. Searches'
  BY <1>2 DEF Searches
<1>12. CountsAreTrue'
  BY <1>1, <1>2, <1>4, EmptyTable DEF CountsAreTrue, Full, Dead, Buckets
<1> QED BY <1>6, <1>7, <1>8, <1>9, <1>10, <1>11, <1>12 DEF IInv

LEMMA InsertionGrows ==
  ASSUME IInv, GrowForLoad \/ GrowForTombstones
  PROVE  IInv'
<1>1. /\ grow(numBuckets * 2) /\ old = NoOld /\ pc = "absent" /\ call # NoCall
      /\ step' \in {"room", "place"}
  BY DEF GrowForLoad, GrowForTombstones, Inserting, Answered, NoCall
<1>2. numBuckets * 2 \in Nat /\ numBuckets * 2 = 2 * numBuckets
  BY Basics
<1> QED BY <1>1, <1>2, GrowHolds

LEMMA ResizeHolds ==
  ASSUME IInv, NEW size \in Sizes, resize(size)
  PROVE  IInv'
<1>1. grow(size) /\ pc = "idle" /\ size > numBuckets /\ step' = step
  BY DEF resize
<1>2. old = NoOld /\ step = "answer"
  BY <1>1 DEF IInv, Control
<1>3. size \in Nat
  BY DenseMapAssumption
<1> QED BY <1>1, <1>2, <1>3, GrowHolds

(* Looking up an entry that is to be moved.                                  *)
LEMMA LookupMovedHolds ==
  ASSUME IInv, LookupMoved
  PROVE  IInv'
<1> DEFINE key == old.first[old.at]
<1>1. /\ UNCHANGED <<numBuckets, first, second, numEntries, numTombstones, old,
                     call, answer, step>>
      /\ pc = "move" /\ old.at < old.size /\ key \in Keys /\ Lookup(key)
  BY DEF LookupMoved, table, counts
<1>2. numBuckets \in Nat /\ numBuckets # 0 /\ old.size \in Nat /\ old.at \in Nat
  BY <1>1, Basics DEF IInv, Load, Growing
<1>3. /\ probe' \in [key : Keys \cup {Empty}, no : Nat, amt : Nat,
                     tombstone : SUBSET Nat]
      /\ probe'.key = key /\ probe'.no \in Buckets \cup {0} /\ probe'.amt = 1
      /\ pc' = "probe" /\ Searches'
  BY <1>1, <1>2, LookupStarts
<1>4. old # NoOld
  BY <1>1, <1>2, EmptyRecords
<1>5. TypeOK' /\ Shapes'
  BY <1>1, <1>3 DEF IInv, TypeOK, Shapes, Buckets
<1>6. Control'
  BY <1>1, <1>2, <1>3, <1>4 DEF IInv, Control, Searching
<1>7. Load'
  BY <1>1, <1>3, <1>4 DEF IInv, Load, Growing
<1>8. Tables' /\ CountsAreTrue'
  BY <1>1 DEF IInv, Tables, CountsAreTrue, Buckets
<1> QED BY <1>3, <1>5, <1>6, <1>7, <1>8 DEF IInv

(* Going on to the next of the old buckets.                                  *)
LEMMA NextOld ==
  ASSUME IInv, old.at < old.size, old' = [old EXCEPT !.at = @ + 1]
  PROVE  /\ old'.size = old.size /\ old'.at = old.at + 1
         /\ old'.first = old.first /\ old'.second = old.second
         /\ old' = [size |-> old'.size, first |-> old'.first,
                    second |-> old'.second, at |-> old'.at]
         /\ old'.at \in 0..old'.size
<1> DEFINE o == [size |-> old.size, first |-> old.first, second |-> old.second,
                 at |-> old.at]
<1>1. old = o
  BY DEF IInv, Shapes
<1>2. old' = [o EXCEPT !.at = @ + 1]
  BY <1>1
<1>3. old' = [size |-> old.size, first |-> old.first, second |-> old.second,
              at |-> old.at + 1]
  BY <1>2
<1>4. old.at + 1 \in 0..old.size
  BY Basics
<1> HIDE DEF o
<1> QED BY <1>3, <1>4

LEMMA LeaveBehindHolds ==
  ASSUME IInv, LeaveBehind
  PROVE  IInv'
<1>1. /\ UNCHANGED <<numBuckets, first, second, numEntries, numTombstones,
                     call, answer, step, probe, pc>>
      /\ pc = "move" /\ old.at < old.size /\ old' = [old EXCEPT !.at = @ + 1]
  BY DEF LeaveBehind, table, counts
<1>2. /\ old'.size = old.size /\ old'.at = old.at + 1
      /\ old'.first = old.first /\ old'.second = old.second
      /\ old' = [size |-> old'.size, first |-> old'.first,
                 second |-> old'.second, at |-> old'.at]
      /\ old'.at \in 0..old'.size
  BY <1>1, NextOld
<1>3. numBuckets \in Nat /\ old.size \in Nat /\ old.at \in Nat
      /\ numEntries \in Nat
  BY Basics DEF IInv, TypeOK
<1>4. TypeOK' /\ Shapes'
  BY <1>1, <1>2 DEF IInv, TypeOK, Shapes, Buckets
<1>5. Control' /\ Searches'
  BY <1>1 DEF IInv, Control, Searching, Searches
<1>6. Load'
  BY <1>1, <1>2, <1>3 DEF IInv, Load, Growing
<1>7. Tables'
  <2>1. \A i \in (old.at + 1)..(old.size - 1) : i \in old.at..(old.size - 1)
    BY <1>3
  <2> QED BY <1>1, <1>2, <2>1 DEF IInv, Tables, Buckets
<1>8. CountsAreTrue'
  BY <1>1 DEF IInv, CountsAreTrue, Buckets
<1> QED BY <1>4, <1>5, <1>6, <1>7, <1>8 DEF IInv
(* An entry of the old table is found by nobody in the new one, and put into *)
(* an empty bucket.                                                          *)
LEMMA MoveMeetsEmpty ==
  ASSUME IInv, pc \in {"found", "absent"}, old # NoOld
  PROVE  /\ pc = "absent" /\ numBuckets # 0 /\ probe.no \in Buckets
         /\ old.at < old.size /\ probe.key = old.first[old.at] /\ probe.key \in Keys
         /\ \A i \in Buckets : first[i] # probe.key
         /\ OnPath(first, numBuckets, probe.key, probe.no)
         /\ first[probe.no] = Empty
<1>1. /\ old.at < old.size /\ probe.key = old.first[old.at] /\ probe.key \in Keys
      /\ numBuckets # 0
  BY DEF IInv, Control, Searching
<1>2. probe.no \in Buckets
  BY <1>1, Basics
<1>3. pc = "absent"
  <2>1. old.at \in old.at..(old.size - 1)
    BY <1>1, Basics
  <2>2. first[probe.no] # probe.key
    BY <1>1, <1>2, <2>1 DEF IInv, Tables
  <2> QED BY <2>2 DEF IInv, Searches
<1>4. /\ first[probe.no] \in {Empty, Tombstone}
      /\ OnPath(first, numBuckets, probe.key, probe.no)
      /\ \A i \in Buckets : first[i] # probe.key
  BY <1>1, <1>3 DEF IInv, Searches
<1>5. first[probe.no] # Tombstone
  <2>1. Cardinality(Dead(first, numBuckets)) = 0
    BY Basics DEF IInv, Load, Growing
  <2>2. Dead(first, numBuckets) = {}
    BY <2>1, Basics, FiniteCounts, FS_EmptySet
  <2> QED BY <1>2, <2>2 DEF Dead, Buckets
<1> QED BY <1>1, <1>2, <1>3, <1>4, <1>5

LEMMA MoveHolds ==
  ASSUME IInv, Move
  PROVE  IInv'
<1> DEFINE n == numBuckets
           no == probe.no
           key == probe.key
<1>1. /\ pc \in {"found", "absent"} /\ old # NoOld
      /\ first' = [first EXCEPT ![no] = key]
      /\ second' = [second EXCEPT ![no] = old.second[old.at]]
      /\ numEntries' = numEntries + 1
      /\ old' = [old EXCEPT !.at = @ + 1] /\ pc' = "move" /\ probe' = NoProbe
      /\ UNCHANGED <<numBuckets, numTombstones, call, answer, step>>
  BY DEF Move
<1>2. /\ n # 0 /\ no \in 0..(n - 1)
      /\ old.at < old.size /\ key = old.first[old.at] /\ key \in Keys
      /\ \A i \in 0..(n - 1) : first[i] # key
      /\ OnPath(first, n, key, no) /\ first[no] = Empty
  BY <1>1, MoveMeetsEmpty DEF Buckets
<1>3. /\ old'.size = old.size /\ old'.at = old.at + 1
      /\ old'.first = old.first /\ old'.second = old.second
      /\ old' = [size |-> old'.size, first |-> old'.first,
                 second |-> old'.second, at |-> old'.at]
      /\ old'.at \in 0..old'.size
  BY <1>1, <1>2, NextOld
<1>4. n \in Nat /\ old.size \in Nat /\ old.at \in Nat /\ numEntries \in Nat
  BY Basics DEF IInv, TypeOK
<1>5. /\ first \in [0..(n - 1) -> Slots]
      /\ second \in [0..(n - 1) -> Values \cup {NoValue}]
      /\ old.second[old.at] \in Values \cup {NoValue}
      /\ key \in Slots \ {Empty}
      /\ Empty # Tombstone /\ Empty \notin Keys /\ Tombstone \notin Keys
  <2>1. old.at \in 0..(old.size - 1)
    BY <1>2, <1>4
  <2> QED BY <1>2, <2>1, DenseMapAssumption DEF IInv, TypeOK, Buckets, Slots
<1>6. TypeOK'
  <2>1. /\ first' \in [Buckets' -> Slots]
        /\ second' \in [Buckets' -> Values \cup {NoValue}]
    BY <1>1, <1>5 DEF Buckets
  <2> QED BY <1>1, <1>3, <1>4, <2>1, EmptyRecords DEF IInv, TypeOK
<1>7. Shapes'
  BY <1>1, <1>3, EmptyRecords DEF IInv, Shapes
<1>8. Control'
  BY <1>1 DEF IInv, Control, Searching
<1>9. Load'
  BY <1>1, <1>2, <1>3, <1>4 DEF IInv, Load, Growing
<1>10. Tables'
  <2>1. Findable(first', n)
    <3>1. Findable(first, n)
      BY DEF IInv, Tables
    <3> QED BY <1>1, <1>2, <1>4, <1>5, <3>1, FillKeepsFindable
  <2>2. old.at \in old.at..(old.size - 1)
        /\ \A i \in (old.at + 1)..(old.size - 1) :
             i \in old.at..(old.size - 1) /\ i # old.at
    BY <1>2, <1>4
  <2>3. ASSUME NEW i \in (old.at + 1)..(old.size - 1), NEW j \in 0..(n - 1),
               old.first[i] \in Keys
        PROVE  first'[j] # old.first[i]
    <3>1. old.first[i] # key
      BY <1>2, <2>2, <2>3 DEF IInv, Tables
    <3>2. first[j] # old.first[i]
      BY <2>2, <2>3 DEF IInv, Tables, Buckets
    <3> QED BY <1>1, <1>5, <3>1, <3>2
  <2>4. \A i, j \in (old.at + 1)..(old.size - 1) :
          old.first[i] = old.first[j] /\ old.first[i] \in Keys => i = j
    BY <2>2 DEF IInv, Tables
  <2> QED BY <1>1, <1>3, <2>1, <2>3, <2>4 DEF Tables, Buckets
<1>11. Searches'
  BY <1>1 DEF Searches
<1>12. CountsAreTrue'
  <2> DEFINE U == [first EXCEPT ![no] = key]
  <2>1. /\ Cardinality(Full(U, n)) = Cardinality(Full(first, n)) + 1
        /\ Cardinality(Dead(U, n)) = Cardinality(Dead(first, n))
    <3>1. /\ n \in Nat /\ first \in [0..(n - 1) -> Slots] /\ no \in 0..(n - 1)
          /\ key \in Keys /\ key \in Slots \ {Empty} /\ key # Tombstone
          /\ first[no] \notin Keys /\ first[no] # Tombstone
      BY <1>2, <1>4, <1>5
    <3> QED BY <3>1, FillCounts
  <2>2. U = first'
    BY <1>1
  <2> HIDE DEF U
  <2>3. /\ numEntries' = Cardinality(Full(first', numBuckets'))
        /\ numTombstones' = Cardinality(Dead(first', numBuckets'))
    BY <1>1, <2>1, <2>2, Basics
  <2> QED BY <2>3 DEF CountsAreTrue, Full, Dead, Buckets
<1> QED BY <1>6, <1>7, <1>8, <1>9, <1>10, <1>11, <1>12 DEF IInv

(* The old buckets are gone; the search for the call's key begins again.     *)
LEMMA GrownHolds ==
  ASSUME IInv, Grown
  PROVE  IInv'
<1>1. /\ UNCHANGED <<numBuckets, first, second, numEntries, numTombstones,
                     call, answer, step>>
      /\ pc = "move" /\ old.at = old.size /\ old' = NoOld
  BY DEF Grown, table, counts
<1>2. numBuckets \in Nat /\ old.size \in Nat /\ numEntries \in Nat
      /\ numBuckets # 0
  BY <1>1, Basics DEF IInv, TypeOK, Load, Growing
<1>3. /\ old'.size = 0 /\ old'.at = 0
      /\ old'.first = <<>> /\ old'.second = <<>>
  BY <1>1 DEF NoOld
<1>4. /\ old'.first \in [0..(old'.size - 1) -> Slots]
      /\ old'.second \in [0..(old'.size - 1) -> Values \cup {NoValue}]
      /\ old'.size \in Sizes \cup {0} /\ old'.at \in 0..old'.size
  BY <1>3
<1>5. Load' /\ Tables' /\ CountsAreTrue'
  <2>1. pc' # "move"
    BY <1>1, <1>2 DEF Grown, Lookup
  <2>2. Load'
    BY <1>1, <1>2, <2>1 DEF IInv, Load, Growing
  <2>3. Tables' /\ CountsAreTrue'
    BY <1>1, <1>3 DEF IInv, Tables, CountsAreTrue, Buckets
  <2> QED BY <2>2, <2>3
<1>6. CASE call = NoCall
  <2>1. pc' = "idle" /\ probe' = probe
    BY <1>6 DEF Grown
  <2>2. TypeOK' /\ Shapes'
    BY <1>1, <1>4, <2>1 DEF IInv, TypeOK, Shapes, Buckets, NoOld
  <2>3. Control' /\ Searches'
    BY <1>1, <1>6, <2>1 DEF IInv, Control, Searches, Searching
  <2> QED BY <1>5, <2>2, <2>3 DEF IInv
<1>7. CASE call # NoCall
  <2>1. call \in D!Calls /\ call.key \in Keys /\ Lookup(call.key)
    BY <1>7, Basics DEF Grown
  <2>2. /\ probe' \in [key : Keys \cup {Empty}, no : Nat, amt : Nat,
                       tombstone : SUBSET Nat]
        /\ probe'.key = call.key /\ probe'.no \in Buckets \cup {0}
        /\ probe'.amt = 1 /\ pc' = "probe" /\ Searches'
    BY <1>1, <1>2, <2>1, LookupStarts
  <2>3. TypeOK' /\ Shapes'
    BY <1>1, <1>4, <2>2 DEF IInv, TypeOK, Shapes, Buckets, NoOld
  <2>4. Control'
    BY <1>1, <1>2, <1>7, <2>1, <2>2 DEF Control, Searching
  <2> QED BY <1>5, <2>2, <2>3, <2>4 DEF IInv
<1> QED BY <1>6, <1>7

LEMMA ClearHolds ==
  ASSUME IInv, ClearBuckets \/ ShrinkAndClear
  PROVE  IInv'
<1>1. /\ pc = "idle" /\ UNCHANGED <<old, call, answer, step, probe, pc>>
      /\ numTombstones' = 0
  BY DEF ClearBuckets, ShrinkAndClear
<1>2. PICK n \in Sizes \cup {0} :
        numBuckets' = n /\ first' = AllEmpty(n) /\ second' = NoValues(n)
  <2>1. numBuckets \in Sizes \cup {0}
    BY DEF IInv, TypeOK
  <2> QED BY <2>1 DEF ClearBuckets, ShrinkAndClear
<1>3. numEntries' = 0
  <2>1. numEntries - Cardinality({i \in Buckets : first[i] \in Keys}) = 0
    BY DEF IInv, TypeOK, CountsAreTrue
  <2> QED BY <2>1 DEF ClearBuckets, ShrinkAndClear
<1>4. n \in Nat
  BY DenseMapAssumption
<1>5. old = NoOld /\ probe = NoProbe /\ step = "answer"
  BY <1>1 DEF IInv, Control
<1>6. TypeOK' /\ Shapes'
  BY <1>1, <1>2, <1>3, <1>4, <1>5, EmptyTable, EmptyRecords
     DEF IInv, TypeOK, Shapes, Buckets
<1>7. Control' /\ Searches'
  BY <1>1 DEF IInv, Control, Searches, Searching
<1>8. Load'
  BY <1>1, <1>2, <1>3, <1>4, <1>5 DEF Load, Growing
<1>9. Tables'
  BY <1>1, <1>2, <1>4, <1>5, EmptyTable, EmptyRecords DEF Tables
<1>10. CountsAreTrue'
  BY <1>1, <1>2, <1>3, <1>4, EmptyTable DEF CountsAreTrue, Full, Dead, Buckets
<1> QED BY <1>6, <1>7, <1>8, <1>9, <1>10 DEF IInv
-----------------------------------------------------------------------------
LEMMA StepHolds == IInv /\ [Next]_vars => IInv'
<1> SUFFICES ASSUME IInv, [Next]_vars
             PROVE  IInv'
  OBVIOUS
<1>1. CASE Working
  BY <1>1, ProbeHolds, EraseHolds, AnswerHolds, LookupMovedHolds, MoveHolds,
     LeaveBehindHolds, GrownHolds, InsertionGrows, InsertHolds DEF Working
<1>2. ASSUME NEW key \in Keys, NEW op \in {"find", "erase"},
             Call(op, key, NoValue)
      PROVE  IInv'
  BY <1>2, CallHolds
<1>3. ASSUME NEW key \in Keys, NEW op \in {"insert", "assign"},
             NEW value \in Values, Call(op, key, value)
      PROVE  IInv'
  BY <1>3, CallHolds
<1>4. CASE \E size \in Sizes : resize(size)
  BY <1>4, ResizeHolds
<1>5. CASE ClearBuckets \/ ShrinkAndClear
  BY <1>5, ClearHolds
<1>6. CASE UNCHANGED vars
  BY <1>6 DEF vars, table, counts, IInv, TypeOK, Shapes, Control, Searching,
              Load, Growing, Tables, Searches, CountsAreTrue, Buckets
<1> QED BY <1>1, <1>2, <1>3, <1>4, <1>5, <1>6 DEF Next

LEMMA Invariance == Spec => []IInv
<1>1. Init => IInv
  BY InitHolds
<1>2. IInv /\ [Next]_vars => IInv'
  BY StepHolds
<1> QED BY <1>1, <1>2, PTL DEF Spec
(* The variables have their types, and the counters count.                   *)
THEOREM TypeCorrect == Spec => []TypeOK
<1>1. IInv => TypeOK
  BY DEF IInv
<1> QED BY <1>1, Invariance, PTL

(* numEntries and numTombstones say what is in the buckets, also while they  *)
(* are being moved.                                                          *)
THEOREM TrueCounts == Spec => []CountsAreTrue
<1>1. IInv => CountsAreTrue
  BY DEF IInv
<1> QED BY <1>1, Invariance, PTL

(* Insertions leave an empty bucket, at which failing searches can end.      *)
THEOREM EmptyBucketLeft == Spec => []SomeBucketIsEmpty
<1>1. IInv => SomeBucketIsEmpty
  <2> SUFFICES ASSUME IInv, numBuckets # 0
               PROVE  \E i \in Buckets : first[i] = Empty
    BY DEF SomeBucketIsEmpty
  <2>1. numBuckets \in Nat /\ first \in [0..(numBuckets - 1) -> Slots]
    BY Basics DEF IInv, TypeOK, Buckets
  <2>2. numEntries + numTombstones < numBuckets
    BY DEF IInv, Load
  <2>3. Cardinality(Full(first, numBuckets)) + Cardinality(Dead(first, numBuckets))
          < numBuckets
    BY <2>2, Basics
  <2> QED BY <2>1, <2>3, RoomLeft DEF Buckets
<1> QED BY <1>1, Invariance, PTL

(* What LookupBucketFor says of a key is true, and no key is in two buckets, *)
(* whatever was erased, grown or cleared before.                             *)
THEOREM TrueAnswers == Spec => []AnswersAreTrue
<1>1. IInv => AnswersAreTrue
  BY DEF IInv, AnswersAreTrue, Tables, Findable, Searches, Buckets
<1> QED BY <1>1, Invariance, PTL
-----------------------------------------------------------------------------
(* An odd factor of a multiple of a power of two can be left out: the least  *)
(* number that makes m a multiple of n divides n and the factor.             *)
LEMMA OddFactor ==
  ASSUME NEW n \in Nat \ {0}, \A d \in 1..n : n % d = 0 => d = 1 \/ d % 2 = 0,
         NEW h \in Nat, NEW m \in Nat, NEW c \in Nat, (2 * h + 1) * m = n * c
  PROVE  \E e \in Nat : m = n * e
<1> DEFINE a == 2 * h + 1
           X == {x \in Nat \ {0} : \E e \in Nat : x * m = n * e}
<1>1. n \in X /\ a \in X
  OBVIOUS
<1>2. PICK d \in X : \A x \in X : d <= x
  <2>0. X \subseteq Nat /\ X # {}
    BY <1>1
  <2> HIDE DEF X
  <2>1. PICK y \in X : \A x \in X : ~(<<x, y>> \in OpToRel(<, Nat))
    BY <2>0, NatLessThanWellFounded, WFMin
  <2>2. \A x \in X : ~(x < y)
    BY <2>0, <2>1 DEF OpToRel
  <2>3. \A x \in X : y <= x
    BY <2>0, <2>2
  <2> QED BY <2>3
<1>3. PICK f \in Nat : d * m = n * f
  OBVIOUS
<1>4. ASSUME NEW x \in X
      PROVE  \E q \in Nat : x = d * q
  <2> DEFINE q == x \div d
             r == x % d
  <2>1. q \in Nat /\ r \in 0..(d - 1) /\ x = d * q + r
    BY Division
  <2> HIDE DEF q, r
  <2>2. PICK e \in Nat : x * m = n * e
    OBVIOUS
  <2>3. r * m = n * (e - q * f)
    <3>1. x * m = (d * m) * q + r * m
      BY <2>1
    <3>2. n * e = (n * f) * q + r * m
      BY <1>3, <2>2, <3>1
    <3>3. (n * f) * q = n * (q * f)
      BY <2>1
    <3>4. n * (e - q * f) = n * e - n * (q * f)
      BY <2>1
    <3> QED BY <2>1, <3>2, <3>3, <3>4
  <2>4. e - q * f \in Nat
    <3>1. r * m >= 0 /\ e - q * f \in Int
      BY <2>1
    <3> DEFINE z == e - q * f
    <3> HIDE DEF z
    <3>2. z < 0 => n * z < 0
      BY <3>1 DEF z
    <3> QED BY <2>3, <3>1, <3>2 DEF z
  <2>5. r # 0 => r \in X
    BY <2>1, <2>3, <2>4
  <2>6. r = 0
    BY <1>2, <2>1, <2>5
  <2>7. q \in Nat /\ x = d * q
    BY <2>1, <2>6
  <2> QED BY <2>7
<1>5. PICK q \in Nat : n = d * q
  BY <1>1, <1>4
<1>6. PICK p \in Nat : a = d * p
  BY <1>1, <1>4
<1>7. d \in 1..n /\ n % d = 0
  <2>1. q # 0 /\ d \in Nat \ {0}
    BY <1>5
  <2>2. d <= n
    BY <1>1, <1>2
  <2>3. n = d * (n \div d) + (n % d) /\ n % d \in 0..(d - 1) /\ n \div d \in Nat
    BY <2>1, Division
  <2>4. d * q + 0 = d * (n \div d) + (n % d)
    BY <1>5, <2>1, <2>3
  <2>5. n % d = 0
    <3> DEFINE u == n \div d
               r == n % d
    <3>1. u \in Nat /\ r \in 0..(d - 1) /\ 0 \in 0..(d - 1) /\ d * q + 0 = d * u + r
      BY <2>1, <2>3, <2>4
    <3> HIDE DEF u, r
    <3>2. r = 0
      BY <2>1, <3>1, UniqueRemainder
    <3> QED BY <3>2 DEF r
  <2> QED BY <2>1, <2>2, <2>5
<1>8. d % 2 # 0
  <2> SUFFICES ASSUME d % 2 = 0 PROVE FALSE
    OBVIOUS
  <2>1. PICK g \in Nat : d = 2 * g
    BY <1>7
  <2>2. a = 2 * (g * p)
    BY <1>6, <2>1
  <2>3. g * p \in Nat
    BY <2>1
  <2> QED BY <2>2, <2>3
<1>9. d = 1
  BY <1>7, <1>8
<1> QED BY <1>3, <1>9

(* Nothing between 0 and n is a multiple of n.                               *)
LEMMA NoMultiple ==
  ASSUME NEW n \in Nat \ {0}, NEW y \in 1..(n - 1), NEW e \in Nat, y = n * e
  PROVE  FALSE
<1>1. e = 0 \/ n * e >= n
  OBVIOUS
<1> QED BY <1>1

(* As long as a search has made fewer turns than there are buckets, it has   *)
(* looked at no bucket twice: the difference of two triangular numbers is    *)
(* half the product of an odd and an even number, both of them too small.    *)
LEMMA PathIsInjective ==
  ASSUME NEW n \in Nat \ {0}, \A d \in 1..n : n % d = 0 => d = 1 \/ d % 2 = 0,
         NEW k \in Keys, NEW i \in 0..(n - 1), NEW j \in 0..(n - 1), i < j,
         Path(n, k, i) = Path(n, k, j)
  PROVE  FALSE
<1> DEFINE t == (i * (i + 1)) \div 2
           u == (j * (j + 1)) \div 2
<1>1. /\ t \in Nat /\ 2 * t = i * (i + 1)
      /\ u \in Nat /\ 2 * u = j * (j + 1)
  <2>1. ASSUME NEW x \in Nat
        PROVE  /\ (x * (x + 1)) \div 2 \in Nat
               /\ 2 * ((x * (x + 1)) \div 2) = x * (x + 1)
    <3>1. CASE x % 2 = 0
      <4>1. PICK y \in Nat : x = 2 * y
        BY <3>1
      <4>2. x * (x + 1) = 2 * (y * (x + 1)) /\ y * (x + 1) \in Nat
        BY <4>1
      <4> QED BY <4>2
    <3>2. CASE x % 2 # 0
      <4> DEFINE y == x \div 2 + 1
                 v == x * (x + 1)
                 w == x * y
      <4>1. y \in Nat /\ x + 1 = 2 * y
        BY <3>2
      <4> HIDE DEF y
      <4>2. v = 2 * w /\ w \in Nat
        BY <4>1
      <4> HIDE DEF v, w
      <4>3. v \div 2 \in Nat /\ 2 * (v \div 2) = v
        BY <4>2
      <4> QED BY <4>3 DEF v
    <3> QED BY <3>1, <3>2
  <2> QED BY <2>1
<1>2. Hash[k] \in Nat
  BY DenseMapAssumption
<1>3. PICK c \in Int : u - t = n * c
  <2> DEFINE p == (Hash[k] + t) \div n
             q == (Hash[k] + u) \div n
             r == (Hash[k] + t) % n
  <2>1. r = (Hash[k] + u) % n
    BY DEF Path
  <2> HIDE DEF t, u
  <2>2. Hash[k] + t \in Nat /\ Hash[k] + u \in Nat
    BY <1>1, <1>2
  <2>3. p \in Nat /\ r \in Nat /\ Hash[k] + t = n * p + r
    <3>1. p \in Nat /\ r \in 0..(n - 1) /\ Hash[k] + t = n * p + r
      BY <2>2, Division
    <3> HIDE DEF p, r
    <3> QED BY <3>1
  <2>4. q \in Nat /\ Hash[k] + u = n * q + r
    BY <2>1, <2>2, Division
  <2> HIDE DEF p, q, r
  <2>5. u - t = n * q - n * p
    BY <1>1, <1>2, <2>3, <2>4
  <2>6. n * q - n * p = n * (q - p) /\ q - p \in Int
    BY <2>3, <2>4
  <2> QED BY <2>5, <2>6
<1> HIDE DEF t, u
<1> DEFINE s == j - i
<1>4. s \in 1..(n - 1) /\ j = i + s
  OBVIOUS
<1>5. s * (2 * i + s + 1) = 2 * (n * c)
  <2>1. j * (j + 1) = i * (i + 1) + s * (2 * i + s + 1)
    BY <1>4
  <2> QED BY <1>1, <1>3, <1>4, <2>1
<1> HIDE DEF s
<1>6. c \in Nat
  <2>1. s * (2 * i + s + 1) >= 0
    BY <1>4
  <2>2. c < 0 => n * c < 0
    OBVIOUS
  <2> QED BY <1>5, <2>1, <2>2
<1>7. PICK h \in Nat : s = 2 * h \/ s = 2 * h + 1
  BY <1>4
<1>8. CASE s = 2 * h
  <2>1. (2 * (h + i) + 1) * h = n * c /\ h + i \in Nat
    BY <1>5, <1>6, <1>8
  <2>2. PICK e \in Nat : h = n * e
    BY <1>6, <2>1, OddFactor
  <2>3. h \in 1..(n - 1)
    BY <1>4, <1>8
  <2> QED BY <2>2, <2>3, NoMultiple
<1>9. CASE s = 2 * h + 1
  <2> DEFINE y == h + i + 1
  <2>1. (2 * h + 1) * y = n * c /\ y \in Nat
    BY <1>5, <1>6, <1>9
  <2>2. PICK e \in Nat : y = n * e
    BY <1>6, <2>1, OddFactor
  <2>3. y \in 1..(n - 1)
    BY <1>4, <1>9
  <2> QED BY <2>2, <2>3, NoMultiple
<1> QED BY <1>7, <1>8, <1>9

(* So the first turns, as many as there are buckets, look at all of them.    *)
LEMMA PathVisitsAll ==
  ASSUME NEW n \in Nat \ {0}, \A d \in 1..n : n % d = 0 => d = 1 \/ d % 2 = 0,
         NEW k \in Keys, NEW b \in 0..(n - 1)
  PROVE  \E i \in 0..(n - 1) : b = Path(n, k, i)
<1> DEFINE S == 0..(n - 1)
           f == [i \in S |-> Path(n, k, i)]
<1>1. f \in [S -> S]
  <2>1. \A i \in Nat : Path(n, k, i) \in 0..(n - 1)
    BY PathSteps
  <2> QED BY <2>1
<1>2. ASSUME NEW i \in S, NEW j \in S, f[i] = f[j]
      PROVE  i = j
  <2>1. i \in 0..(n - 1) /\ j \in 0..(n - 1) /\ Path(n, k, i) = Path(n, k, j)
    BY <1>2
  <2>2. ~(i < j)
    BY <2>1, PathIsInjective
  <2>3. ~(j < i)
    BY <2>1, PathIsInjective
  <2> QED BY <2>1, <2>2, <2>3
<1>3. IsFiniteSet(S)
  BY FS_Interval
<1> HIDE DEF f, S
<1>4. f \in Injection(S, S)
  BY <1>1, <1>2 DEF Injection, IsInjective
<1>5. f \in Surjection(S, S)
  BY <1>3, <1>4, FS_Injection
<1>6. \E i \in S : f[i] = b
  BY <1>5 DEF Surjection, S
<1> QED BY <1>6 DEF f, S

(* A search meets an empty bucket, at the latest, when it has seen the       *)
(* others: it takes no more turns than there are buckets, whatever the hash  *)
(* function.                                                                 *)
THEOREM SearchesEnd == ASSUME SizesArePowersOfTwo PROVE Spec => []SearchesAreShort
<1>1. IInv /\ SomeBucketIsEmpty => SearchesAreShort
  <2> SUFFICES ASSUME IInv, SomeBucketIsEmpty, pc = "probe", probe.amt > numBuckets
               PROVE  FALSE
    <3>1. IInv => numBuckets \in Nat /\ probe.amt \in Nat
      BY DenseMapAssumption DEF IInv, TypeOK
    <3> QED BY <3>1 DEF SearchesAreShort
  <2>1. numBuckets \in Sizes /\ numBuckets \in Nat \ {0}
    BY DenseMapAssumption DEF IInv, TypeOK, Control
  <2>2. \A d \in 1..numBuckets : numBuckets % d = 0 => d = 1 \/ d % 2 = 0
    BY <2>1 DEF SizesArePowersOfTwo
  <2>3. probe.key \in Keys
    BY Basics DEF Searching
  <2>4. PICK b \in 0..(numBuckets - 1) : first[b] = Empty
    BY <2>1 DEF SomeBucketIsEmpty, Buckets
  <2>5. PICK i \in 0..(numBuckets - 1) : b = Path(numBuckets, probe.key, i)
    BY <2>1, <2>2, <2>3, PathVisitsAll
  <2>6. probe.amt \in 1..(2 * numBuckets) /\ i \in 0..(probe.amt - 2)
    BY <2>1, <2>5 DEF IInv, Searches
  <2>7. first[Path(numBuckets, probe.key, i)] # Empty
    BY <2>6 DEF IInv, Searches
  <2> QED BY <2>4, <2>5, <2>7
<1> QED BY <1>1, Invariance, EmptyBucketLeft, PTL
-----------------------------------------------------------------------------
(* A table of n buckets with keys f and values s, and what is left of an old *)
(* table o, map k to v...                                                    *)
Maps(n, f, s, o, k, v) ==
  /\ k \in Keys
  /\ \/ \E i \in 0..(n - 1) : f[i] = k /\ s[i] = v
     \/ \E i \in o.at..(o.size - 1) : o.first[i] = k /\ o.second[i] = v

(* ...in no two ways...                                                      *)
OnePlace(n, f, o) ==
  /\ \A i, j \in 0..(n - 1) : f[i] = f[j] /\ f[i] \in Keys => i = j
  /\ \A i, j \in o.at..(o.size - 1) :
       o.first[i] = o.first[j] /\ o.first[i] \in Keys => i = j
  /\ \A i \in o.at..(o.size - 1), j \in 0..(n - 1) :
       o.first[i] \in Keys => f[j] # o.first[i]

(* ...so that they are this function, of which Contents is an instance.      *)
NewAt(n, f, k) == {i \in 0..(n - 1) : f[i] = k}
OldAt(o, k) == {i \in o.at..(o.size - 1) : o.first[i] = k}
Entries(n, f, s, o) ==
  [k \in {j \in Keys : NewAt(n, f, j) \cup OldAt(o, j) # {}} |->
     IF NewAt(n, f, k) # {} THEN s[CHOOSE i \in NewAt(n, f, k) : TRUE]
     ELSE o.second[CHOOSE i \in OldAt(o, k) : TRUE]]

IsGraph(d, n, f, s, o) ==
  /\ d = [k \in DOMAIN d |-> d[k]]
  /\ \A k, v : Maps(n, f, s, o, k, v) <=> k \in DOMAIN d /\ d[k] = v

LEMMA EntriesAreMapped ==
  ASSUME NEW n, NEW f, NEW s, NEW o, OnePlace(n, f, o)
  PROVE  IsGraph(Entries(n, f, s, o), n, f, s, o)
<1> DEFINE d == Entries(n, f, s, o)
<1>1. d = [k \in DOMAIN d |-> d[k]]
  BY DEF Entries
<1>2. DOMAIN d = {j \in Keys : NewAt(n, f, j) \cup OldAt(o, j) # {}}
  BY DEF Entries
<1>3. ASSUME NEW k, NEW v, Maps(n, f, s, o, k, v)
      PROVE  k \in DOMAIN d /\ d[k] = v
  <2>1. CASE \E i \in 0..(n - 1) : f[i] = k /\ s[i] = v
    <3>1. PICK i \in 0..(n - 1) : f[i] = k /\ s[i] = v
      BY <2>1
    <3>2. NewAt(n, f, k) = {i}
      BY <1>3, <3>1 DEF NewAt, OnePlace, Maps
    <3> QED BY <1>2, <1>3, <3>1, <3>2 DEF Entries, Maps
  <2>2. CASE \E i \in o.at..(o.size - 1) : o.first[i] = k /\ o.second[i] = v
    <3>1. PICK i \in o.at..(o.size - 1) : o.first[i] = k /\ o.second[i] = v
      BY <2>2
    <3>2. OldAt(o, k) = {i}
      BY <1>3, <3>1 DEF OldAt, OnePlace, Maps
    <3>3. NewAt(n, f, k) = {}
      BY <1>3, <3>1 DEF NewAt, OnePlace, Maps
    <3> QED BY <1>2, <1>3, <3>1, <3>2, <3>3 DEF Entries, Maps
  <2> QED BY <1>3, <2>1, <2>2 DEF Maps
<1>4. ASSUME NEW k, k \in DOMAIN d
      PROVE  Maps(n, f, s, o, k, d[k])
  <2>1. k \in Keys /\ (NewAt(n, f, k) # {} \/ OldAt(o, k) # {})
    BY <1>2, <1>4
  <2>2. CASE NewAt(n, f, k) # {}
    <3>1. d[k] = s[CHOOSE i \in NewAt(n, f, k) : TRUE]
      BY <1>4, <1>2, <2>2 DEF Entries
    <3>2. (CHOOSE i \in NewAt(n, f, k) : TRUE) \in NewAt(n, f, k)
      BY <2>2
    <3> QED BY <2>1, <3>1, <3>2 DEF Maps, NewAt
  <2>3. CASE NewAt(n, f, k) = {}
    <3>1. d[k] = o.second[CHOOSE i \in OldAt(o, k) : TRUE]
      BY <1>4, <1>2, <2>3 DEF Entries
    <3>2. (CHOOSE i \in OldAt(o, k) : TRUE) \in OldAt(o, k)
      BY <2>1, <2>3
    <3> QED BY <2>1, <3>1, <3>2 DEF Maps, OldAt
  <2> QED BY <2>2, <2>3
<1> HIDE DEF d
<1> QED BY <1>1, <1>3, <1>4 DEF IsGraph, d

(* Functions that map the same to the same are the same.                     *)
LEMMA SameGraph ==
  ASSUME NEW d, NEW e, d = [k \in DOMAIN d |-> d[k]], e = [k \in DOMAIN e |-> e[k]],
         \A k, v : (k \in DOMAIN d /\ d[k] = v) <=> (k \in DOMAIN e /\ e[k] = v)
  PROVE  d = e
<1>1. \A k : k \in DOMAIN d <=> k \in DOMAIN e
  OBVIOUS
<1>2. DOMAIN d = DOMAIN e
  BY <1>1
<1>3. \A k \in DOMAIN d : d[k] = e[k]
  BY <1>2
<1> QED BY <1>2, <1>3

LEMMA ContentsAreMapped ==
  /\ IInv => IsGraph(Contents, numBuckets, first, second, old)
  /\ IInv' => IsGraph(Contents', numBuckets', first', second', old')
<1>1. /\ Contents = Entries(numBuckets, first, second, old)
      /\ Contents' = Entries(numBuckets', first', second', old')
  BY DEF Contents, Places, OldPlaces, Buckets, Entries, NewAt, OldAt
<1>2. /\ IInv => OnePlace(numBuckets, first, old)
      /\ IInv' => OnePlace(numBuckets', first', old')
  BY DEF IInv, Tables, Findable, Buckets, OnePlace
<1>3. IInv => IsGraph(Entries(numBuckets, first, second, old),
                      numBuckets, first, second, old)
  BY <1>2, EntriesAreMapped
<1>4. IInv' => IsGraph(Entries(numBuckets', first', second', old'),
                       numBuckets', first', second', old')
  BY <1>2, EntriesAreMapped
<1> QED BY <1>1, <1>3, <1>4
-----------------------------------------------------------------------------
Mapped(k, v) == Maps(numBuckets, first, second, old, k, v)

LEMMA SameContents ==
  ASSUME IInv, IInv', \A k, v : Mapped(k, v)' <=> Mapped(k, v)
  PROVE  Contents' = Contents
BY ContentsAreMapped, SameGraph DEF Mapped, IsGraph

(* Where no entry is left in an old table.                                   *)
LEMMA MappedByTable ==
  /\ old = NoOld =>
       \A k, v : Mapped(k, v) <=>
         k \in Keys /\ \E i \in Buckets : first[i] = k /\ second[i] = v
  /\ old' = NoOld =>
       \A k, v : Mapped(k, v)' <=>
         k \in Keys /\ \E i \in Buckets' : first'[i] = k /\ second'[i] = v
BY EmptyRecords DEF Mapped, Maps, Buckets

(* Allocating a table, and moving an entry to it, changes nothing.           *)
LEMMA GrowKeeps ==
  ASSUME IInv, IInv', old = NoOld, NEW atLeast, grow(atLeast)
  PROVE  Contents' = Contents
<1>1. PICK n \in Sizes : numBuckets' = n /\ first' = AllEmpty(n)
  BY DEF grow
<1>2. /\ old'.size = numBuckets /\ old'.at = 0
      /\ old'.first = first /\ old'.second = second
  BY DEF grow
<1>3. n \in Nat /\ Empty \notin Keys
  BY DenseMapAssumption
<1>4. \A i \in 0..(n - 1) : first'[i] = Empty
  BY <1>1, <1>3, EmptyTable
<1>5. ASSUME NEW k, NEW v
      PROVE  Mapped(k, v)' <=> Mapped(k, v)
  <2>1. Mapped(k, v)' <=> k \in Keys /\ \E i \in 0..(numBuckets - 1) :
                                          first[i] = k /\ second[i] = v
    BY <1>1, <1>2, <1>3, <1>4 DEF Mapped, Maps
  <2>2. Mapped(k, v) <=> k \in Keys /\ \E i \in 0..(numBuckets - 1) :
                                         first[i] = k /\ second[i] = v
    BY MappedByTable DEF Buckets
  <2> QED BY <2>1, <2>2
<1> QED BY <1>5, SameContents

LEMMA LeaveBehindKeeps ==
  ASSUME IInv, IInv', LeaveBehind
  PROVE  Contents' = Contents
<1>1. /\ UNCHANGED <<numBuckets, first, second>>
      /\ old.at < old.size /\ old.first[old.at] \notin Keys
      /\ old' = [old EXCEPT !.at = @ + 1]
  BY DEF LeaveBehind, table
<1>2. /\ old'.size = old.size /\ old'.at = old.at + 1
      /\ old'.first = old.first /\ old'.second = old.second
  BY <1>1, NextOld
<1>3. \A i : i \in old.at..(old.size - 1) <=>
               i = old.at \/ i \in (old.at + 1)..(old.size - 1)
  BY <1>1, Basics
<1>4. \A k, v : Mapped(k, v)' <=> Mapped(k, v)
  BY <1>1, <1>2, <1>3 DEF Mapped, Maps
<1> QED BY <1>4, SameContents

LEMMA MoveKeeps ==
  ASSUME IInv, IInv', Move
  PROVE  Contents' = Contents
<1> DEFINE no == probe.no
           key == probe.key
           value == old.second[old.at]
<1>1. /\ pc \in {"found", "absent"} /\ old # NoOld
      /\ first' = [first EXCEPT ![no] = key]
      /\ second' = [second EXCEPT ![no] = value]
      /\ old' = [old EXCEPT !.at = @ + 1] /\ numBuckets' = numBuckets
  BY DEF Move
<1>2. /\ no \in Buckets /\ old.at < old.size /\ key = old.first[old.at]
      /\ key \in Keys /\ first[no] = Empty /\ Empty \notin Keys
  BY <1>1, MoveMeetsEmpty, DenseMapAssumption
<1>3. /\ old'.size = old.size /\ old'.at = old.at + 1
      /\ old'.first = old.first /\ old'.second = old.second
  BY <1>1, <1>2, NextOld
<1>4. \A i : i \in old.at..(old.size - 1) <=>
               i = old.at \/ i \in (old.at + 1)..(old.size - 1)
  BY <1>2, Basics
<1>5. \A i \in Buckets : /\ first'[i] = IF i = no THEN key ELSE first[i]
                         /\ second'[i] = IF i = no THEN value ELSE second[i]
  BY <1>1 DEF IInv, TypeOK
<1>6. ASSUME NEW k, NEW v
      PROVE  Mapped(k, v)' <=> Mapped(k, v)
  <2>1. Mapped(k, v)' <=>
          /\ k \in Keys
          /\ \/ \E i \in Buckets : first'[i] = k /\ second'[i] = v
             \/ \E i \in (old.at + 1)..(old.size - 1) :
                  old.first[i] = k /\ old.second[i] = v
    BY <1>1, <1>3 DEF Mapped, Maps, Buckets
  <2>2. k \in Keys =>
          ((\E i \in Buckets : first'[i] = k /\ second'[i] = v) <=>
             \/ \E i \in Buckets : first[i] = k /\ second[i] = v
             \/ k = key /\ v = value)
    BY <1>2, <1>5
  <2>3. Mapped(k, v) <=>
          /\ k \in Keys
          /\ \/ \E i \in Buckets : first[i] = k /\ second[i] = v
             \/ k = key /\ v = value
             \/ \E i \in (old.at + 1)..(old.size - 1) :
                  old.first[i] = k /\ old.second[i] = v
    BY <1>2, <1>4 DEF Mapped, Maps, Buckets
  <2> QED BY <2>1, <2>2, <2>3
<1> QED BY <1>6, SameContents

LEMMA GrownKeeps ==
  ASSUME IInv, IInv', Grown
  PROVE  Contents' = Contents
<1>1. UNCHANGED <<numBuckets, first, second>> /\ old.at = old.size /\ old' = NoOld
  BY DEF Grown, table
<1>2. old.at..(old.size - 1) = {}
  BY <1>1, Basics
<1>3. \A k, v : Mapped(k, v)' <=> Mapped(k, v)
  BY <1>1, <1>2, MappedByTable DEF Mapped, Maps, Buckets
<1> QED BY <1>3, SameContents

(* Clearing leaves nothing.                                                  *)
LEMMA ClearedContents ==
  ASSUME IInv, IInv', ClearBuckets \/ ShrinkAndClear
  PROVE  Contents' = D!Nothing
<1>1. PICK n \in Sizes \cup {0} : numBuckets' = n /\ first' = AllEmpty(n)
  <2>1. numBuckets \in Sizes \cup {0}
    BY DEF IInv, TypeOK
  <2> QED BY <2>1 DEF ClearBuckets, ShrinkAndClear
<1>2. n \in Nat /\ Empty \notin Keys
  BY DenseMapAssumption
<1>3. \A i \in Buckets' : first'[i] = Empty
  BY <1>1, <1>2, EmptyTable DEF Buckets
<1>4. old' = NoOld
  BY DEF ClearBuckets, ShrinkAndClear, IInv, Control
<1>5. \A k, v : ~Mapped(k, v)'
  BY <1>2, <1>3, <1>4, MappedByTable
<1>6. DOMAIN Contents' = {} /\ Contents' = [k \in DOMAIN Contents' |-> Contents'[k]]
  BY <1>5, ContentsAreMapped DEF Mapped, IsGraph
<1> QED BY <1>6 DEF D!Nothing
-----------------------------------------------------------------------------
(* What a finished search says about the entries.                            *)
LEMMA AnswerOfSearch ==
  ASSUME IInv, old = NoOld, pc \in {"found", "absent"}
  PROVE  /\ call \in D!Calls /\ call.key \in Keys /\ probe.key = call.key
         /\ pc = "found" =>
              /\ probe.no \in Buckets /\ first[probe.no] = call.key
              /\ call.key \in DOMAIN Contents /\ Contents[call.key] = Found
         /\ pc = "absent" => call.key \notin DOMAIN Contents
<1>1. call \in D!Calls /\ call.key \in Keys /\ probe.key = call.key
  BY DEF IInv, Control, Searching, D!Calls
<1>2. ASSUME pc = "found"
      PROVE  /\ probe.no \in Buckets /\ first[probe.no] = call.key
             /\ call.key \in DOMAIN Contents /\ Contents[call.key] = Found
  <2>1. probe.no \in Buckets /\ first[probe.no] = call.key
    BY <1>1, <1>2, Basics DEF IInv, Control, Searching, Searches
  <2>2. Mapped(call.key, Found)
    BY <1>1, <2>1, MappedByTable DEF Found
  <2> QED BY <2>1, <2>2, ContentsAreMapped DEF Mapped, IsGraph
<1>3. ASSUME pc = "absent"
      PROVE  call.key \notin DOMAIN Contents
  <2>1. \A i \in Buckets : first[i] # call.key
    BY <1>1, <1>3 DEF IInv, Searches
  <2>2. \A v : ~Mapped(call.key, v)
    BY <2>1, MappedByTable
  <2> QED BY <2>2, ContentsAreMapped DEF Mapped, IsGraph
<1> QED BY <1>1, <1>2, <1>3

(* Writing an entry to the bucket of its key, or to one without a key.       *)
LEMMA WrittenContents ==
  ASSUME IInv, IInv', old = NoOld, old' = NoOld, numBuckets' = numBuckets,
         NEW no \in Buckets, NEW key \in Keys, NEW value,
         first[no] \notin Keys \ {key},
         \A i \in Buckets : /\ first'[i] = IF i = no THEN key ELSE first[i]
                            /\ second'[i] = IF i = no THEN value ELSE second[i]
  PROVE  Contents' = D!With(Contents, key, value)
<1>1. \A i \in Buckets : i # no => first[i] # key
  BY DEF IInv, Tables, Findable, Buckets
<1>2. ASSUME NEW k, NEW v
      PROVE  Mapped(k, v)' <=> IF k = key THEN v = value ELSE Mapped(k, v)
  <2>1. Mapped(k, v)' <=>
          k \in Keys /\ \E i \in Buckets : first'[i] = k /\ second'[i] = v
    BY MappedByTable DEF Buckets
  <2>2. Mapped(k, v) <=>
          k \in Keys /\ \E i \in Buckets : first[i] = k /\ second[i] = v
    BY MappedByTable
  <2> QED BY <1>1, <2>1, <2>2
<1> DEFINE e == D!With(Contents, key, value)
<1>3. /\ DOMAIN e = DOMAIN Contents \cup {key}
      /\ \A k \in DOMAIN e : e[k] = IF k = key THEN value ELSE Contents[k]
      /\ e = [k \in DOMAIN e |-> e[k]]
  BY DEF D!With
<1> HIDE DEF e
<1>4. \A k, v : Mapped(k, v) <=> k \in DOMAIN Contents /\ Contents[k] = v
  BY ContentsAreMapped DEF Mapped, IsGraph
<1>5. /\ \A k, v : Mapped(k, v)' <=> k \in DOMAIN Contents' /\ Contents'[k] = v
      /\ Contents' = [k \in DOMAIN Contents' |-> Contents'[k]]
  BY ContentsAreMapped DEF Mapped, IsGraph
<1>6. \A k, v : (k \in DOMAIN Contents' /\ Contents'[k] = v)
                  <=> (k \in DOMAIN e /\ e[k] = v)
  BY <1>2, <1>3, <1>4, <1>5
<1>7. Contents' = e
  BY <1>3, <1>5, <1>6, SameGraph
<1> QED BY <1>7 DEF e

LEMMA ErasedContents ==
  ASSUME IInv, IInv', EraseFound
  PROVE  Contents' = D!Without(Contents, call.key)
<1> DEFINE no == probe.no
           key == call.key
<1>1. /\ pc = "found" /\ old = NoOld /\ old' = NoOld /\ numBuckets' = numBuckets
      /\ first' = [first EXCEPT ![no] = Tombstone]
      /\ second' = [second EXCEPT ![no] = NoValue]
  BY DEF EraseFound, Answered, Return
<1>2. no \in Buckets /\ first[no] = key /\ key \in Keys /\ Tombstone \notin Keys
  BY <1>1, AnswerOfSearch, DenseMapAssumption
<1>3. \A i \in Buckets : /\ first'[i] = IF i = no THEN Tombstone ELSE first[i]
                         /\ i # no => second'[i] = second[i] /\ first[i] # key
  BY <1>1, <1>2 DEF IInv, TypeOK, Tables, Findable, Buckets
<1>4. ASSUME NEW k, NEW v
      PROVE  Mapped(k, v)' <=> k # key /\ Mapped(k, v)
  <2>1. Mapped(k, v)' <=>
          k \in Keys /\ \E i \in Buckets : first'[i] = k /\ second'[i] = v
    BY <1>1, MappedByTable DEF Buckets
  <2>2. Mapped(k, v) <=>
          k \in Keys /\ \E i \in Buckets : first[i] = k /\ second[i] = v
    BY <1>1, MappedByTable
  <2> QED BY <1>2, <1>3, <2>1, <2>2
<1> DEFINE e == D!Without(Contents, key)
<1>5. /\ DOMAIN e = DOMAIN Contents \ {key}
      /\ \A k \in DOMAIN e : e[k] = Contents[k]
      /\ e = [k \in DOMAIN e |-> e[k]]
  BY DEF D!Without
<1> HIDE DEF e
<1>6. \A k, v : Mapped(k, v) <=> k \in DOMAIN Contents /\ Contents[k] = v
  BY ContentsAreMapped DEF Mapped, IsGraph
<1>7. /\ \A k, v : Mapped(k, v)' <=> k \in DOMAIN Contents' /\ Contents'[k] = v
      /\ Contents' = [k \in DOMAIN Contents' |-> Contents'[k]]
  BY ContentsAreMapped DEF Mapped, IsGraph
<1>8. \A k, v : (k \in DOMAIN Contents' /\ Contents'[k] = v)
                  <=> (k \in DOMAIN e /\ e[k] = v)
  BY <1>4, <1>5, <1>6, <1>7
<1>9. Contents' = e
  BY <1>5, <1>7, <1>8, SameGraph
<1> QED BY <1>9 DEF e
-----------------------------------------------------------------------------
(* The end of a call is its effect on the dictionary.                        *)
LEMMA EndsAsPromised ==
  ASSUME IInv, IInv',
         EraseFound \/ AssignFound \/ AnswerFound \/ AnswerAbsent \/ InsertEntry
  PROVE  D!End
<1> DEFINE key == call.key
<1>1. old = NoOld /\ pc \in {"found", "absent"}
  BY DEF EraseFound, AssignFound, AnswerFound, AnswerAbsent, InsertEntry,
         Inserting, Answered
<1>2. call \in D!Calls /\ call # D!NoCall /\ key \in Keys
  BY <1>1, AnswerOfSearch, EmptyRecords DEF D!Calls, D!NoCall
<1>3. call' = D!NoCall /\ old' = NoOld /\ numBuckets' = numBuckets
  BY <1>1 DEF EraseFound, AssignFound, AnswerFound, AnswerAbsent, InsertEntry,
              Return, NoCall, D!NoCall, table
<1>4. answer' = IF key \in DOMAIN Contents THEN Contents[key] ELSE NoValue
  <2>1. CASE pc = "found"
    <3>1. answer' = Found
      BY <2>1 DEF EraseFound, AssignFound, AnswerFound, AnswerAbsent, InsertEntry,
                  Inserting, Answered, Return
    <3> QED BY <1>1, <2>1, <3>1, AnswerOfSearch
  <2>2. CASE pc = "absent"
    <3>1. answer' = NoValue
      BY <2>2 DEF EraseFound, AssignFound, AnswerFound, AnswerAbsent, InsertEntry,
                  Inserting, Answered, Return
    <3> QED BY <1>1, <2>2, <3>1, AnswerOfSearch
  <2> QED BY <1>1, <2>1, <2>2
<1>5. Contents' = D!Effect(call, Contents)
  <2>1. CASE EraseFound
    <3>1. call.op = "erase"
      BY <2>1 DEF EraseFound, Answered
    <3> QED BY <2>1, <3>1, ErasedContents DEF D!Effect
  <2>2. CASE AssignFound
    <3>1. /\ call.op = "assign" /\ pc = "found" /\ first' = first
          /\ second' = [second EXCEPT ![probe.no] = call.value]
      BY <2>2 DEF AssignFound, Answered
    <3>2. probe.no \in Buckets /\ first[probe.no] = key
      BY <1>1, <3>1, AnswerOfSearch
    <3>3. \A i \in Buckets :
            /\ first'[i] = IF i = probe.no THEN key ELSE first[i]
            /\ second'[i] = IF i = probe.no THEN call.value ELSE second[i]
      BY <3>1, <3>2 DEF IInv, TypeOK
    <3>4. Contents' = D!With(Contents, key, call.value)
      BY <1>1, <1>2, <1>3, <3>2, <3>3, WrittenContents
    <3> QED BY <3>1, <3>4 DEF D!Effect
  <2>3. CASE InsertEntry
    <3>1. /\ call.op \in {"insert", "assign"} /\ pc = "absent"
          /\ first' = [first EXCEPT ![probe.no] = key]
          /\ second' = [second EXCEPT ![probe.no] = call.value]
      BY <2>3 DEF InsertEntry, Inserting, Answered
    <3>2. numBuckets # 0
      <4>1. CASE step = "answer" /\ ~Crowded
        BY <4>1, Basics DEF Crowded, IInv, TypeOK
      <4>2. CASE step # "answer"
        BY <4>2 DEF IInv, Load
      <4> QED BY <2>3, <4>1, <4>2 DEF InsertEntry, PastLoad
    <3>3. probe.no \in Buckets /\ first[probe.no] \notin Keys
      BY <3>1, <3>2, DenseMapAssumption DEF IInv, Searches
    <3>4. \A i \in Buckets :
            /\ first'[i] = IF i = probe.no THEN key ELSE first[i]
            /\ second'[i] = IF i = probe.no THEN call.value ELSE second[i]
      BY <3>1, <3>3 DEF IInv, TypeOK
    <3>5. Contents' = D!With(Contents, key, call.value)
      BY <1>1, <1>2, <1>3, <3>3, <3>4, WrittenContents
    <3>6. key \notin DOMAIN Contents
      BY <1>1, <3>1, AnswerOfSearch
    <3> QED BY <3>1, <3>5, <3>6 DEF D!Effect
  <2>4. CASE AnswerFound \/ AnswerAbsent
    <3>1. UNCHANGED <<numBuckets, first, second, old>>
      BY <2>4 DEF AnswerFound, AnswerAbsent, Return, table
    <3>2. Contents' = Contents
      BY <3>1 DEF Contents, Places, OldPlaces, Buckets
    <3>3. CASE call.op = "find"
      BY <3>2, <3>3 DEF D!Effect
    <3>4. CASE call.op = "insert" /\ key \in DOMAIN Contents
      BY <3>2, <3>4 DEF D!Effect
    <3>5. CASE call.op = "erase" /\ key \notin DOMAIN Contents
      <4> DEFINE e == D!Without(Contents, key)
      <4>1. /\ DOMAIN e = DOMAIN Contents
            /\ \A k \in DOMAIN Contents : e[k] = Contents[k]
            /\ e = [k \in DOMAIN e |-> e[k]]
        BY <3>5 DEF D!Without
      <4> HIDE DEF e
      <4>2. Contents = [k \in DOMAIN Contents |-> Contents[k]]
        BY ContentsAreMapped DEF IsGraph
      <4>3. e = Contents
        BY <4>1, <4>2, SameGraph
      <4> QED BY <3>2, <3>5, <4>3 DEF D!Effect, e
    <3> QED BY <1>1, <2>4, <3>3, <3>4, <3>5, AnswerOfSearch
            DEF AnswerFound, AnswerAbsent, Answered
  <2> QED BY <2>1, <2>2, <2>3, <2>4
<1> QED BY <1>2, <1>3, <1>4, <1>5 DEF D!End

(* Every step of the table is a step of the dictionary, or none.             *)
LEMMA StepRefines ==
  ASSUME IInv, IInv', [Next]_vars
  PROVE  [D!Next]_<<Contents, call, answer>>
<1>1. ASSUME UNCHANGED <<numBuckets, first, second, old>>
      PROVE  Contents' = Contents
  BY <1>1 DEF Contents, Places, OldPlaces, Buckets
<1>2. CASE EraseFound \/ AssignFound \/ AnswerFound \/ AnswerAbsent \/ InsertEntry
  BY <1>2, EndsAsPromised DEF D!Next
<1>3. CASE Probe \/ LookupMoved
  BY <1>1, <1>3 DEF Probe, LookupMoved, table
<1>4. CASE Move \/ LeaveBehind \/ Grown
  <2>1. Contents' = Contents
    BY <1>4, MoveKeeps, LeaveBehindKeeps, GrownKeeps
  <2> QED BY <1>4, <2>1 DEF Move, LeaveBehind, Grown
<1>5. CASE GrowForLoad \/ GrowForTombstones
  <2>1. old = NoOld /\ grow(numBuckets * 2)
    BY <1>5 DEF GrowForLoad, GrowForTombstones, Inserting, Answered
  <2> QED BY <2>1, GrowKeeps DEF grow
<1>6. ASSUME NEW size \in Sizes, resize(size)
      PROVE  UNCHANGED <<Contents, call, answer>>
  <2>1. old = NoOld /\ grow(size)
    BY <1>6 DEF resize, IInv, Control
  <2> QED BY <2>1, GrowKeeps DEF grow
<1>7. CASE ClearBuckets \/ ShrinkAndClear
  <2>1. Contents' = D!Nothing
    BY <1>7, ClearedContents
  <2>2. call = D!NoCall /\ UNCHANGED <<call, answer>>
    BY <1>7 DEF ClearBuckets, ShrinkAndClear, IInv, Control, NoCall, D!NoCall
  <2> QED BY <2>1, <2>2 DEF D!Next, D!Clear
<1>8. ASSUME NEW key \in Keys, NEW op \in {"find", "insert", "assign", "erase"},
             NEW value \in Values \cup {NoValue}, Call(op, key, value)
      PROVE  D!Begin
  <2>1. call = D!NoCall
    BY <1>8 DEF Call, IInv, Control, NoCall, D!NoCall
  <2>2. call' \in D!Calls
    BY <1>8 DEF Call, D!Calls
  <2>3. UNCHANGED <<Contents, answer>>
    BY <1>1, <1>8 DEF Call, table
  <2> QED BY <2>1, <2>2, <2>3 DEF D!Begin
<1>9. ASSUME NEW key \in Keys,
             \/ \E op \in {"find", "erase"} : Call(op, key, NoValue)
             \/ \E op \in {"insert", "assign"}, value \in Values :
                  Call(op, key, value)
      PROVE  D!Next
  BY <1>8, <1>9 DEF D!Next
<1>10. CASE UNCHANGED vars
  BY <1>1, <1>10 DEF vars, table
<1> QED BY <1>2, <1>3, <1>4, <1>5, <1>6, <1>7, <1>9, <1>10 DEF Next, Working

LEMMA InitRefines ==
  ASSUME Init, IInv
  PROVE  D!Init
<1>1. old = NoOld /\ numBuckets \in Nat /\ first = AllEmpty(numBuckets)
  BY DenseMapAssumption DEF Init
<1>2. \A k, v : ~Mapped(k, v)
  <2>1. \A i \in Buckets : first[i] = Empty
    BY <1>1, EmptyTable DEF Buckets
  <2> QED BY <1>1, <2>1, MappedByTable, DenseMapAssumption
<1>3. DOMAIN Contents = {} /\ Contents = [k \in DOMAIN Contents |-> Contents[k]]
  BY <1>2, ContentsAreMapped DEF Mapped, IsGraph
<1>4. Contents = D!Nothing
  BY <1>3 DEF D!Nothing
<1> QED BY <1>4 DEF Init, D!Init, NoCall, D!NoCall

(* A DenseMap is a dictionary: whatever is found, inserted, erased, cleared  *)
(* and resized in it, with whatever hash function, every call has the answer *)
(* and the effect that it would have on a plain map.                         *)
THEOREM DenseMapIsDictionary == Spec => ImplementsDictionary
<1>1. Init /\ IInv => D!Init
  BY InitRefines
<1>2. IInv /\ IInv' /\ [Next]_vars => [D!Next]_<<Contents, call, answer>>
  BY StepRefines
<1>3. Spec => []IInv
  BY Invariance
<1> QED BY <1>1, <1>2, <1>3, InitHolds, PTL DEF Spec, ImplementsDictionary, D!Spec
=============================================================================
