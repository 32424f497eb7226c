------------------------ MODULE JITMemoryManagerProofs ------------------------
(* Proofs about the JIT's memory manager, for slabs and requests of any size *)
(* and any number of slabs.                                                  *)
EXTENDS JITMemoryManager, Integers, SequenceTheorems, TLAPS

(* The fields of the headers of a heap h.                                    *)
Dom(h) == DOMAIN h.block
Taken(h, b) == h.block[b].allocated = TRUE
TakenBefore(h, b) == h.block[b].prevAllocated = TRUE
Size(h, b) == h.block[b].size
Before(h, b) == h.block[b].before
After(h, b) == b + Size(h, b)
FreeOnes(h) == {b \in Dom(h) : ~Taken(h, b)}

Headers == [allocated : BOOLEAN, prevAllocated : BOOLEAN,
            size : Nat \ {0}, before : Nat]
HasHeaders(h) ==
  /\ h = [block |-> h.block, free |-> h.free]
  /\ h.block \in [Dom(h) -> Headers]

Numbers(h) ==
  \A b \in Dom(h) : b \in Nat /\ Size(h, b) \in Nat \ {0} /\ Before(h, b) \in Nat

(* The circular list s has the members of F, each of them once.              *)
Lists(s, F) ==
  /\ s \in Seq(F) /\ s # <<>>
  /\ \A i, j \in 1..Len(s) : s[i] = s[j] => i = j
  /\ \A b \in F : \E i \in 1..Len(s) : s[i] = b
-----------------------------------------------------------------------------
LEMMA IndexFound ==
  ASSUME NEW s, NEW F, Lists(s, F), NEW b \in F
  PROVE  /\ Len(s) \in Nat \ {0} /\ IndexOf(s, b) \in 1..Len(s)
         /\ s[IndexOf(s, b)] = b
         /\ \A j \in 1..Len(s) : s[j] \in F
<1>1. \E i \in 1..Len(s) : s[i] = b
  BY DEF Lists
<1>2. IndexOf(s, b) \in 1..Len(s) /\ s[IndexOf(s, b)] = b
  BY <1>1 DEF IndexOf
<1> QED BY <1>2 DEF Lists

(* A block put at the end or in front of the list.                           *)
LEMMA Appended ==
  ASSUME NEW s, NEW F, Lists(s, F), NEW b, b \notin F
  PROVE  Lists(Append(s, b), F \cup {b})
<1> DEFINE G == F \cup {b}
           t == Append(s, b)
           n == Len(s)
<1>1. s \in Seq(F) /\ n \in Nat /\ \A i \in 1..n : s[i] \in F
  BY DEF Lists
<1>2. s \in Seq(G)
  BY <1>1, SeqMonotonic
<1>3. t \in Seq(G) /\ Len(t) = n + 1 /\ t[n + 1] = b
      /\ \A i \in 1..n : t[i] = s[i]
  BY <1>1, <1>2
<1>4. \A i, j \in 1..Len(t) : t[i] = t[j] => i = j
  <2> SUFFICES ASSUME NEW i \in 1..(n + 1), NEW j \in 1..(n + 1), t[i] = t[j]
               PROVE  i = j
    BY <1>3
  <2>1. CASE i \in 1..n /\ j \in 1..n
    BY <2>1, <1>3 DEF Lists
  <2>2. CASE i \notin 1..n \/ j \notin 1..n
    <3>1. i = n + 1 \/ j = n + 1
      BY <2>2, <1>1
    <3>2. i # j => (i \in 1..n \/ j \in 1..n)
      BY <1>1
    <3> QED BY <3>1, <3>2, <1>3, <1>1
  <2> QED BY <2>1, <2>2
<1>5. \A c \in G : \E i \in 1..Len(t) : t[i] = c
  <2> SUFFICES ASSUME NEW c \in G
               PROVE  \E i \in 1..(n + 1) : t[i] = c
    BY <1>3
  <2>1. CASE c = b
    BY <2>1, <1>1, <1>3
  <2>2. CASE c \in F
    <3>1. PICK i \in 1..n : s[i] = c
      BY <2>2 DEF Lists
    <3> QED BY <3>1, <1>1, <1>3
  <2> QED BY <2>1, <2>2
<1>6. t # <<>>
  BY <1>3, <1>1
<1> QED BY <1>3, <1>4, <1>5, <1>6 DEF Lists

LEMMA Prepended ==
  ASSUME NEW s, NEW F, Lists(s, F), NEW b, b \notin F
  PROVE  Lists(<<b>> \o s, F \cup {b})
<1> DEFINE G == F \cup {b}
           t == <<b>> \o s
           n == Len(s)
<1>1. s \in Seq(F) /\ n \in Nat /\ \A i \in 1..n : s[i] \in F
  BY DEF Lists
<1>2. s \in Seq(G) /\ <<b>> \in Seq(G) /\ Len(<<b>>) = 1 /\ <<b>>[1] = b
  BY <1>1, SeqMonotonic
<1>3. t \in Seq(G) /\ Len(t) = n + 1 /\ t[1] = b
      /\ \A i \in 2..(n + 1) : t[i] = s[i - 1]
  BY <1>1, <1>2, ConcatProperties
<1>4. \A i, j \in 1..Len(t) : t[i] = t[j] => i = j
  <2> SUFFICES ASSUME NEW i \in 1..(n + 1), NEW j \in 1..(n + 1), t[i] = t[j]
               PROVE  i = j
    BY <1>3
  <2>1. CASE i # 1 /\ j # 1
    <3>1. i \in 2..(n + 1) /\ j \in 2..(n + 1) /\ i - 1 \in 1..n /\ j - 1 \in 1..n
      BY <2>1, <1>1
    <3>2. s[i - 1] = s[j - 1]
      BY <3>1, <1>3
    <3>3. i - 1 = j - 1
      BY <3>1, <3>2 DEF Lists
    <3> QED BY <3>1, <3>3
  <2>2. CASE i = 1 \/ j = 1
    <3>1. \A k \in 1..(n + 1) : k # 1 => k \in 2..(n + 1) /\ k - 1 \in 1..n
      BY <1>1
    <3>2. \A k \in 1..(n + 1) : k # 1 => t[k] \in F
      BY <3>1, <1>3, <1>1
    <3> QED BY <2>2, <3>2, <1>3
  <2> QED BY <2>1, <2>2
<1>5. \A c \in G : \E i \in 1..Len(t) : t[i] = c
  <2> SUFFICES ASSUME NEW c \in G
               PROVE  \E i \in 1..(n + 1) : t[i] = c
    BY <1>3
  <2>1. CASE c = b
    BY <2>1, <1>1, <1>3
  <2>2. CASE c \in F
    <3>1. PICK i \in 1..n : s[i] = c
      BY <2>2 DEF Lists
    <3>2. i + 1 \in 2..(n + 1) /\ (i + 1) - 1 = i /\ i + 1 \in 1..(n + 1)
      BY <3>1, <1>1
    <3> QED BY <3>1, <3>2, <1>3
  <2> QED BY <2>1, <2>2
<1>6. t # <<>>
  BY <1>3, <1>1
<1> QED BY <1>3, <1>4, <1>5, <1>6 DEF Lists

(* A list seen from its m-th block, and without it.                          *)
LEMMA RotatedAt ==
  ASSUME NEW s, NEW F, Lists(s, F), NEW m \in 1..Len(s)
  PROVE  LET t == SubSeq(s, m, Len(s)) \o SubSeq(s, 1, m - 1)
         IN  Lists(t, F) /\ Len(t) = Len(s) /\ t[1] = s[m]
<1> DEFINE n == Len(s)
           front == SubSeq(s, m, n)
           back == SubSeq(s, 1, m - 1)
           t == front \o back
           k == n - m + 1
           r(i) == IF i <= k THEN m + i - 1 ELSE i - k
<1>0. n \in Nat \ {0} /\ m \in 1..n
  BY DEF Lists
<1>1. \A j \in 1..n : s[j] \in F
  BY DEF Lists
<1> HIDE DEF n
<1>2. /\ front \in Seq(F) /\ Len(front) = k
      /\ \A i \in 1..k : front[i] = s[m + i - 1]
  <2>1. m \in Int /\ n \in Int /\ m <= n /\ \A i \in m..n : s[i] \in F
    BY <1>0, <1>1
  <2> QED BY <2>1, SubSeqProperties
<1>3. /\ back \in Seq(F) /\ Len(back) = m - 1
      /\ \A i \in 1..(m - 1) : back[i] = s[i]
  <2>1. /\ 1 \in Int /\ m - 1 \in Int /\ \A i \in 1..(m - 1) : s[i] \in F
        /\ (IF 1 <= m - 1 THEN (m - 1) - 1 + 1 ELSE 0) = m - 1
        /\ (m - 1) - 1 + 1 = m - 1 /\ \A i \in 1..(m - 1) : 1 + i - 1 = i
    BY <1>0, <1>1
  <2> QED BY <2>1, SubSeqProperties
<1>4. /\ t \in Seq(F) /\ Len(t) = n
      /\ \A i \in 1..n : t[i] = s[r(i)]
  <2>1. k + (m - 1) = n /\ k \in Nat /\ m - 1 \in Nat
    BY <1>0
  <2>2. /\ t \in Seq(F) /\ Len(t) = n
        /\ \A i \in 1..n : t[i] = IF i <= k THEN front[i] ELSE back[i - k]
    <3> HIDE DEF front, back, k
    <3>1. /\ t \in Seq(F) /\ Len(t) = Len(front) + Len(back)
          /\ \A i \in 1..(Len(front) + Len(back)) :
               t[i] = IF i <= Len(front) THEN front[i] ELSE back[i - Len(front)]
      BY <1>2, <1>3, ConcatProperties
    <3> QED BY <1>2, <1>3, <2>1, <3>1
  <2>3. \A i \in 1..n : IF i <= k THEN i \in 1..k ELSE i - k \in 1..(m - 1)
    BY <2>1, <1>0
  <2> HIDE DEF front, back, k, t
  <2> QED BY <1>2, <1>3, <2>2, <2>3 DEF r
<1>5. \A i \in 1..n : r(i) \in 1..n
  BY <1>0
<1>6. \A i, j \in 1..n : r(i) = r(j) => i = j
  BY <1>0
<1>7. \A j \in 1..n : \E i \in 1..n : r(i) = j
  <2> SUFFICES ASSUME NEW j \in 1..n
               PROVE  \E i \in 1..n : r(i) = j
    BY <1>0
  <2>1. CASE j >= m
    <3>1. j - m + 1 \in 1..n /\ r(j - m + 1) = j
      BY <2>1, <1>0
    <3> QED BY <3>1
  <2>2. CASE j < m
    <3>1. j + k \in 1..n /\ r(j + k) = j
      BY <2>2, <1>0
    <3> QED BY <3>1
  <2> QED BY <2>1, <2>2
<1>8. r(1) = m /\ 1 \in 1..n
  BY <1>0
<1> HIDE DEF r, k, front, back, t
<1>9. \A i, j \in 1..n : t[i] = t[j] => i = j
  <2> SUFFICES ASSUME NEW i \in 1..n, NEW j \in 1..n, t[i] = t[j]
               PROVE  i = j
    BY <1>0
  <2>1. r(i) \in 1..n /\ r(j) \in 1..n /\ s[r(i)] = s[r(j)]
    BY <1>4, <1>5
  <2>2. r(i) = r(j)
    BY <2>1 DEF Lists, n
  <2> QED BY <2>2, <1>6
<1>10. \A c \in F : \E i \in 1..n : t[i] = c
  <2> SUFFICES ASSUME NEW c \in F
               PROVE  \E i \in 1..n : t[i] = c
    BY <1>0
  <2>1. PICK j \in 1..n : s[j] = c
    BY DEF Lists, n
  <2>2. PICK i \in 1..n : r(i) = j
    BY <1>7
  <2> QED BY <2>1, <2>2, <1>4
<1>11. t # <<>>
  BY <1>4, <1>0
<1>12. Lists(t, F) /\ Len(t) = n /\ t[1] = s[m]
  BY <1>4, <1>8, <1>9, <1>10, <1>11 DEF Lists
<1> QED BY <1>12 DEF t, front, back, n

LEMMA OmittedAt ==
  ASSUME NEW s, NEW F, Lists(s, F), NEW m \in 1..Len(s), F # {s[m]}
  PROVE  Lists(SubSeq(s, 1, m - 1) \o SubSeq(s, m + 1, Len(s)), F \ {s[m]})
<1> DEFINE n == Len(s)
           G == F \ {s[m]}
           front == SubSeq(s, 1, m - 1)
           back == SubSeq(s, m + 1, n)
           t == front \o back
           r(i) == IF i < m THEN i ELSE i + 1
<1>0. n \in Nat \ {0} /\ m \in 1..n
  BY DEF Lists
<1>1. \A j \in 1..n : j # m => s[j] \in G
  <2>1. \A j \in 1..n : s[j] \in F
    BY DEF Lists
  <2> QED BY <2>1, <1>0 DEF Lists
<1> HIDE DEF n
<1>2. /\ front \in Seq(G) /\ Len(front) = m - 1
      /\ \A i \in 1..(m - 1) : front[i] = s[i]
  <2>1. /\ 1 \in Int /\ m - 1 \in Int
        /\ \A i \in 1..(m - 1) : i \in 1..n /\ i # m
        /\ (IF 1 <= m - 1 THEN (m - 1) - 1 + 1 ELSE 0) = m - 1
        /\ (m - 1) - 1 + 1 = m - 1 /\ \A i \in 1..(m - 1) : 1 + i - 1 = i
    BY <1>0
  <2>2. \A i \in 1..(m - 1) : s[i] \in G
    BY <2>1, <1>1
  <2> HIDE DEF G
  <2> QED BY <2>1, <2>2, SubSeqProperties
<1>3. /\ back \in Seq(G) /\ Len(back) = n - m
      /\ \A i \in 1..(n - m) : back[i] = s[m + i]
  <2>1. /\ m + 1 \in Int /\ n \in Int
        /\ \A i \in (m + 1)..n : i \in 1..n /\ i # m
        /\ (IF m + 1 <= n THEN n - (m + 1) + 1 ELSE 0) = n - m
        /\ n - (m + 1) + 1 = n - m
        /\ \A i \in 1..(n - m) : (m + 1) + i - 1 = m + i
    BY <1>0
  <2>2. \A i \in (m + 1)..n : s[i] \in G
    BY <2>1, <1>1
  <2> HIDE DEF G
  <2> QED BY <2>1, <2>2, SubSeqProperties
<1>4. /\ t \in Seq(G) /\ Len(t) = n - 1
      /\ \A i \in 1..(n - 1) : t[i] = s[r(i)]
  <2>1. (m - 1) + (n - m) = n - 1 /\ m - 1 \in Nat /\ n - m \in Nat
    BY <1>0
  <2>2. \A i \in 1..(n - 1) : IF i < m THEN i \in 1..(m - 1) /\ i <= m - 1
           ELSE /\ i - (m - 1) \in 1..(n - m) /\ m + (i - (m - 1)) = i + 1
                /\ ~(i <= m - 1)
    BY <1>0
  <2>3. /\ t \in Seq(G) /\ Len(t) = n - 1
        /\ \A i \in 1..(n - 1) :
             t[i] = IF i <= m - 1 THEN front[i] ELSE back[i - (m - 1)]
    <3> HIDE DEF front, back, G
    <3>1. /\ t \in Seq(G) /\ Len(t) = Len(front) + Len(back)
          /\ \A i \in 1..(Len(front) + Len(back)) :
               t[i] = IF i <= Len(front) THEN front[i] ELSE back[i - Len(front)]
      BY <1>2, <1>3, ConcatProperties
    <3> QED BY <1>2, <1>3, <2>1, <3>1
  <2> HIDE DEF front, back, G, t
  <2> QED BY <1>2, <1>3, <2>1, <2>2, <2>3 DEF r
<1>5. \A i \in 1..(n - 1) : r(i) \in 1..n
  BY <1>0
<1>6. \A i, j \in 1..(n - 1) : r(i) = r(j) => i = j
  BY <1>0
<1>7. \A j \in 1..n : j # m => \E i \in 1..(n - 1) : r(i) = j
  <2> SUFFICES ASSUME NEW j \in 1..n, j # m
               PROVE  \E i \in 1..(n - 1) : r(i) = j
    BY <1>0
  <2>1. CASE j > m
    <3>1. j - 1 \in 1..(n - 1) /\ r(j - 1) = j
      BY <2>1, <1>0
    <3> QED BY <3>1
  <2>2. CASE j < m
    <3>1. j \in 1..(n - 1) /\ r(j) = j
      BY <2>2, <1>0
    <3> QED BY <3>1
  <2> QED BY <2>1, <2>2
<1> HIDE DEF r, front, back, t
<1>8. \A i, j \in 1..(n - 1) : t[i] = t[j] => i = j
  <2> SUFFICES ASSUME NEW i \in 1..(n - 1), NEW j \in 1..(n - 1), t[i] = t[j]
               PROVE  i = j
    BY <1>0
  <2>1. r(i) \in 1..n /\ r(j) \in 1..n /\ s[r(i)] = s[r(j)]
    BY <1>4, <1>5
  <2>2. r(i) = r(j)
    BY <2>1 DEF Lists, n
  <2> QED BY <2>2, <1>6
<1>9. \A c \in G : \E i \in 1..(n - 1) : t[i] = c
  <2> SUFFICES ASSUME NEW c \in G
               PROVE  \E i \in 1..(n - 1) : t[i] = c
    BY <1>0
  <2>1. PICK j \in 1..n : s[j] = c
    BY DEF Lists, n
  <2>2. PICK i \in 1..(n - 1) : r(i) = j
    BY <2>1, <1>7
  <2> QED BY <2>1, <2>2, <1>4
<1>10. t # <<>>
  <2>1. PICK c \in G : TRUE
    BY DEF Lists, n
  <2>2. PICK i \in 1..(n - 1) : t[i] = c
    BY <1>9
  <2> QED BY <1>4, <2>2
<1>11. Lists(t, G)
  BY <1>4, <1>8, <1>9, <1>10 DEF Lists
<1> QED BY <1>11 DEF t, front, back, n

LEMMA Rotated ==
  ASSUME NEW s, NEW F, Lists(s, F), NEW b \in F
  PROVE  /\ Lists(StartingAt(s, b), F) /\ Len(StartingAt(s, b)) = Len(s)
         /\ StartingAt(s, b)[1] = b
<1>1. IndexOf(s, b) \in 1..Len(s) /\ s[IndexOf(s, b)] = b
  BY IndexFound
<1> QED BY <1>1, RotatedAt, Zenon DEF StartingAt

LEMMA TakenOut ==
  ASSUME NEW s, NEW F, Lists(s, F), NEW b \in F, F # {b}
  PROVE  Lists(Without(s, b), F \ {b})
BY IndexFound, OmittedAt DEF Without

LEMMA Removed ==
  ASSUME NEW s, NEW F, Lists(s, F), NEW b \in F, F # {b}
  PROVE  Lists(RemoveFromFreeList(s, b), F \ {b})
<1> DEFINE u == StartingAt(s, b)
           n == Len(u)
<1>1. Len(s) # 1
  <2> SUFFICES ASSUME Len(s) = 1
               PROVE  FALSE
    OBVIOUS
  <2>1. PICK c \in F : c # b
    OBVIOUS
  <2>2. PICK i \in 1..1 : s[i] = c
    BY <2>1 DEF Lists
  <2>3. PICK j \in 1..1 : s[j] = b
    BY DEF Lists
  <2> QED BY <2>1, <2>2, <2>3
<1>2. Lists(u, F) /\ n \in Nat \ {0} /\ u[1] = b /\ u \in Seq(F) /\ u # <<>>
  <2>1. Lists(u, F) /\ u[1] = b /\ n = Len(s)
    BY Rotated
  <2>2. n \in Nat \ {0}
    BY <2>1, IndexFound
  <2> HIDE DEF u
  <2> QED BY <2>1, <2>2 DEF Lists
<1>3. Tail(u) = SubSeq(u, 2, n) /\ Tail(u) \in Seq(F)
  BY <1>2, TailIsSubSeq, HeadTailProperties
<1>4. Tail(u) = SubSeq(u, 1, 1 - 1) \o SubSeq(u, 1 + 1, n)
  <2> HIDE DEF u, n
  <2>1. SubSeq(u, 1, 0) = <<>>
    BY SubSeqEmpty
  <2>2. 1 - 1 = 0 /\ 1 + 1 = 2
    OBVIOUS
  <2>3. <<>> \o Tail(u) = Tail(u)
    BY <1>3, ConcatEmptySeq
  <2> QED BY <1>3, <2>1, <2>2, <2>3
<1>5. 1 \in 1..n
  BY <1>2
<1>6. Lists(Tail(u), F \ {b})
  <2>1. F # {u[1]}
    BY <1>2
  <2> HIDE DEF u
  <2>2. Lists(SubSeq(u, 1, 1 - 1) \o SubSeq(u, 1 + 1, Len(u)), F \ {u[1]})
    BY <1>2, <1>5, <2>1, OmittedAt, Zenon
  <2> QED BY <1>2, <1>4, <2>2
<1> QED BY <1>1, <1>6 DEF RemoveFromFreeList
-----------------------------------------------------------------------------
(* When a heap h is good, E being where the slabs end and S where they start.*)
(* The blocks divide the slabs.                                              *)
Divided(h, E) ==
  \A b \in Dom(h) :
    /\ After(h, b) \in Dom(h) \cup E
    /\ \A c \in Dom(h) \cup E : ~(b < c /\ c < After(h, b))

(* A header knows the block before it.                                       *)
Tags(h, E) ==
  /\ \A b \in Dom(h) : After(h, b) \notin E =>
       /\ TakenBefore(h, After(h, b)) <=> Taken(h, b)
       /\ ~Taken(h, b) => Before(h, After(h, b)) = Size(h, b)
  /\ \A b \in Dom(h) : ~TakenBefore(h, b) =>
       \E p \in FreeOnes(h) : After(h, p) = b

Merged(h, E) ==
  \A b \in FreeOnes(h) :
    After(h, b) \in Dom(h) /\ After(h, b) \notin E /\ Taken(h, After(h, b))

(* Only the blocks that nobody is given are smaller than the smallest block. *)
IsFixed(h, E, b) == b = Mem1 \/ After(h, b) \in E
Sized(h, E) ==
  \A b \in Dom(h) : IF IsFixed(h, E, b) THEN Taken(h, b) /\ Size(h, b) = Header
                    ELSE Size(h, b) >= MinBlock

(* The tiny free block between its two guards.                               *)
Guarded(h) ==
  /\ Mem1 \in Dom(h) /\ Mem2 \in FreeOnes(h) /\ Mem3 \in Dom(h)
  /\ Size(h, Mem2) = MinBlock

Slabs(h, E, S) ==
  /\ E \subseteq Nat /\ SlabWords \in E /\ \A e \in E : SlabWords <= e
  /\ S \subseteq E \cup {0}
  /\ \A s \in S : s \in Dom(h) /\ TakenBefore(h, s)

Good(h, E, S) ==
  /\ HasHeaders(h) /\ Numbers(h) /\ Divided(h, E) /\ Tags(h, E) /\ Merged(h, E)
  /\ Sized(h, E) /\ Guarded(h) /\ Slabs(h, E, S) /\ Lists(h.free, FreeOnes(h))

(* The blocks in use are the same in h and k, b perhaps excepted.            *)
InUse(h, c) == c \in Dom(h) /\ Taken(h, c)
Same(h, k, b) ==
  \A c \in Nat : c # b =>
    /\ InUse(h, c) <=> InUse(k, c)
    /\ InUse(h, c) => Size(k, c) = Size(h, c)

LEMMA Places ==
  /\ Mem1 \in Nat /\ Mem2 \in Nat /\ Mem3 \in Nat /\ SlabWords \in Nat
  /\ Mem2 = Mem1 + Header /\ Mem3 = Mem2 + MinBlock
  /\ SlabWords = Mem3 + Header /\ Mem1 > MinBlock
  /\ Header = 1 /\ MinBlock = 4
BY MemoryAssumption DEF Mem1, Mem2, Mem3, Header, MinBlock

(* No two blocks end at the same place.                                      *)
LEMMA OneBefore ==
  ASSUME NEW h, NEW E, NEW S, Good(h, E, S),
         NEW a \in Dom(h), NEW b \in Dom(h), After(h, a) = After(h, b)
  PROVE  a = b
<1>1. /\ a \in Nat /\ b \in Nat /\ Size(h, a) \in Nat \ {0}
      /\ Size(h, b) \in Nat \ {0}
      /\ ~(a < b /\ b < After(h, a)) /\ ~(b < a /\ a < After(h, b))
  BY DEF Good, Numbers, Divided
<1> QED BY <1>1 DEF After

(* The guards of the tiny block, and that nobody else is next to it.         *)
LEMMA Guards ==
  ASSUME NEW h, NEW E, NEW S, Good(h, E, S), NEW b \in Dom(h),
         ~IsFixed(h, E, b)
  PROVE  /\ After(h, b) # Mem2 /\ b # Mem3 /\ b # Mem1
         /\ After(h, b) \in Dom(h) /\ After(h, b) \notin E /\ After(h, b) # 0
         /\ b < After(h, b) /\ Size(h, b) >= MinBlock
<1>1. After(h, Mem1) = Mem2 /\ After(h, Mem3) = SlabWords
  <2>1. Mem1 \in Dom(h) /\ Mem3 \in Dom(h) /\ Mem2 \in Dom(h)
        /\ Size(h, Mem1) = Header /\ After(h, Mem2) = Mem3
    BY Places DEF Good, Guarded, Sized, IsFixed, After, FreeOnes
  <2>2. /\ Size(h, Mem3) \in Nat \ {0}
        /\ After(h, Mem3) \in Dom(h) \cup E
        /\ ~(Mem3 < SlabWords /\ SlabWords < After(h, Mem3))
    BY <2>1 DEF Good, Numbers, Divided, Slabs
  <2>3. After(h, Mem3) = SlabWords
    BY <2>2, Places DEF After
  <2> QED BY <2>1, <2>3, Places DEF After
<1>2. b # Mem1 /\ b # Mem3
  BY <1>1 DEF IsFixed, Good, Slabs
<1>3. After(h, b) # Mem2
  BY <1>1, <1>2, OneBefore DEF Good, Guarded
<1>4. b \in Nat /\ Size(h, b) \in Nat \ {0}
  BY DEF Good, Numbers
<1> QED BY <1>2, <1>3, <1>4 DEF IsFixed, Good, Divided, Sized, After
-----------------------------------------------------------------------------
(* AllocateBlock, header by header.                                          *)
LEMMA AllocateFields ==
  ASSUME NEW h, NEW E, NEW S, Good(h, E, S), NEW b \in FreeOnes(h)
  PROVE  LET k == AllocateBlock(h, b)
             a == After(h, b)
         IN /\ HasHeaders(k) /\ Dom(k) = Dom(h)
            /\ k.free = RemoveFromFreeList(h.free, b)
            /\ \A c \in Dom(h) :
                 /\ Size(k, c) = Size(h, c)
                 /\ Taken(k, c) <=> Taken(h, c) \/ c = b
                 /\ TakenBefore(k, c) <=> TakenBefore(h, c) \/ c = a
                 /\ Before(k, c) = IF c = a THEN 0 ELSE Before(h, c)
<1> DEFINE k == AllocateBlock(h, b)
           a == After(h, b)
<1>1. /\ a \in Dom(h) /\ b \in Dom(h) /\ a # b /\ a = getBlockAfter(h, b)
      /\ \A c \in Dom(h) : h.block[c] \in Headers
  BY DEF Good, Merged, FreeOnes, HasHeaders, Numbers, After, Size, getBlockAfter
<1>2. Dom(k) = Dom(h) /\ k.free = RemoveFromFreeList(h.free, b)
  BY DEF AllocateBlock, Dom
<1>3. /\ k.block[b] = [h.block[b] EXCEPT !.allocated = TRUE]
      /\ k.block[b] \in Headers
  BY <1>1 DEF AllocateBlock, Dom, Headers
<1>4. /\ k.block[a] = [h.block[a] EXCEPT !.prevAllocated = TRUE, !.before = 0]
      /\ k.block[a] \in Headers
  BY <1>1 DEF AllocateBlock, Dom, Headers
<1>5. \A c \in Dom(h) : c # a /\ c # b => k.block[c] = h.block[c]
  BY <1>1 DEF AllocateBlock, Dom
<1>6. HasHeaders(k)
  <2>1. k.block = [c \in Dom(k) |-> k.block[c]]
    BY DEF Dom, AllocateBlock
  <2>2. \A c \in Dom(k) : k.block[c] \in Headers
    BY <1>1, <1>2, <1>3, <1>4, <1>5
  <2>3. k = [block |-> k.block, free |-> k.free]
    BY DEF AllocateBlock
  <2> HIDE DEF k
  <2> QED BY <2>1, <2>2, <2>3 DEF HasHeaders
<1>7. ASSUME NEW c \in Dom(h)
      PROVE  /\ Size(k, c) = Size(h, c)
             /\ Taken(k, c) <=> Taken(h, c) \/ c = b
             /\ TakenBefore(k, c) <=> TakenBefore(h, c) \/ c = a
             /\ Before(k, c) = IF c = a THEN 0 ELSE Before(h, c)
  <2> HIDE DEF k
  <2>1. h.block[c] \in Headers
    BY <1>1
  <2> HIDE DEF a
  <2>2. CASE c = b
    BY <2>1, <2>2, <1>1, <1>3 DEF Size, Taken, TakenBefore, Before, Headers
  <2>3. CASE c = a
    BY <2>1, <2>3, <1>1, <1>4 DEF Size, Taken, TakenBefore, Before, Headers
  <2>4. CASE c # a /\ c # b
    BY <2>4, <1>5 DEF Size, Taken, TakenBefore, Before
  <2> QED BY <2>2, <2>3, <2>4
<1> HIDE DEF k, a
<1> QED BY <1>2, <1>6, <1>7 DEF k, a

(* The shape of a heap, whatever is on the list.                             *)
Shaped(h, E, S) ==
  /\ HasHeaders(h) /\ Numbers(h) /\ Divided(h, E) /\ Tags(h, E) /\ Merged(h, E)
  /\ Slabs(h, E, S)

LEMMA AllocateShapes ==
  ASSUME NEW h, NEW E, NEW S, Good(h, E, S), NEW b \in FreeOnes(h)
  PROVE  LET k == AllocateBlock(h, b)
         IN /\ Shaped(k, E, S) /\ Same(h, k, b) /\ InUse(k, b) /\ Dom(k) = Dom(h)
            /\ FreeOnes(k) = FreeOnes(h) \ {b}
            /\ k.free = RemoveFromFreeList(h.free, b)
            /\ \A c \in Dom(h) : Size(k, c) = Size(h, c)
<1> DEFINE k == AllocateBlock(h, b)
           a == After(h, b)
<1>1. /\ HasHeaders(k) /\ Dom(k) = Dom(h)
      /\ k.free = RemoveFromFreeList(h.free, b)
      /\ \A c \in Dom(h) :
           /\ Size(k, c) = Size(h, c)
           /\ Taken(k, c) <=> Taken(h, c) \/ c = b
           /\ TakenBefore(k, c) <=> TakenBefore(h, c) \/ c = a
           /\ Before(k, c) = IF c = a THEN 0 ELSE Before(h, c)
  BY AllocateFields
<1> HIDE DEF k
<1>2. \A c \in Dom(h) : After(k, c) = After(h, c)
  BY <1>1 DEF After
<1>3. /\ a \in Dom(h) /\ a \notin E /\ Taken(h, a) /\ b \in Dom(h) /\ ~Taken(h, b)
      /\ \A c \in Dom(h) : After(h, c) = a => c = b
  BY OneBefore DEF Good, Merged, FreeOnes
<1>4. Numbers(k) /\ Divided(k, E)
  BY <1>1, <1>2 DEF Good, Numbers, Divided
<1>5. Tags(k, E)
  <2>1. ASSUME NEW c \in Dom(k), After(k, c) \notin E
        PROVE  /\ TakenBefore(k, After(k, c)) <=> Taken(k, c)
               /\ ~Taken(k, c) => Before(k, After(k, c)) = Size(k, c)
    BY <2>1, <1>1, <1>2, <1>3 DEF Good, Tags, Divided
  <2>2. ASSUME NEW c \in Dom(k), ~TakenBefore(k, c)
        PROVE  \E p \in FreeOnes(k) : After(k, p) = c
    BY <2>2, <1>1, <1>2, <1>3 DEF Good, Tags, FreeOnes
  <2> QED BY <2>1, <2>2 DEF Tags
<1>6. Merged(k, E)
  BY <1>1, <1>2 DEF Good, Merged, FreeOnes
<1>7. Slabs(k, E, S)
  BY <1>1 DEF Good, Slabs
<1>8. Same(h, k, b) /\ InUse(k, b)
  BY <1>1, <1>3 DEF Same, InUse
<1>9. FreeOnes(k) = FreeOnes(h) \ {b}
  BY <1>1 DEF FreeOnes
<1>10. Shaped(k, E, S)
  BY <1>1, <1>4, <1>5, <1>6, <1>7 DEF Shaped
<1> QED BY <1>1, <1>8, <1>9, <1>10 DEF k

LEMMA AllocateKeeps ==
  ASSUME NEW h, NEW E, NEW S, Good(h, E, S),
         NEW b \in FreeOnes(h), b # Mem2
  PROVE  /\ Good(AllocateBlock(h, b), E, S)
         /\ Same(h, AllocateBlock(h, b), b)
         /\ InUse(AllocateBlock(h, b), b)
         /\ Dom(AllocateBlock(h, b)) = Dom(h)
         /\ Size(AllocateBlock(h, b), b) = Size(h, b)
<1> DEFINE k == AllocateBlock(h, b)
<1>1. /\ Shaped(k, E, S) /\ Same(h, k, b) /\ InUse(k, b) /\ Dom(k) = Dom(h)
      /\ FreeOnes(k) = FreeOnes(h) \ {b}
      /\ k.free = RemoveFromFreeList(h.free, b)
      /\ \A c \in Dom(h) : Size(k, c) = Size(h, c)
  BY AllocateShapes
<1> HIDE DEF k
<1>2. b \in Dom(h) /\ \A c \in Dom(h) : Taken(h, c) => Taken(k, c)
  BY <1>1 DEF FreeOnes
<1>3. Sized(k, E)
  BY <1>1, <1>2 DEF Good, Sized, IsFixed, After
<1>4. Guarded(k)
  BY <1>1 DEF Good, Guarded, FreeOnes
<1>5. Lists(k.free, FreeOnes(k))
  <2>1. FreeOnes(h) # {b}
    BY DEF Good, Guarded
  <2> QED BY <1>1, <2>1, Removed DEF Good
<1>6. Good(k, E, S)
  BY <1>1, <1>3, <1>4, <1>5 DEF Good, Shaped
<1> QED BY <1>1, <1>2, <1>6 DEF k
-----------------------------------------------------------------------------
(* TrimAllocationToSize, when it splits the block.                           *)
Split(h, b, n) ==
  [block |-> [c \in DOMAIN h.block \cup {b + n} |->
                IF c = b THEN [h.block[b] EXCEPT !.size = n]
                ELSE IF c = b + n THEN Block(FALSE, TRUE, h.block[b].size - n, 0)
                ELSE IF c = b + h.block[b].size
                  THEN [h.block[c] EXCEPT !.prevAllocated = FALSE,
                                          !.before = h.block[b].size - n]
                ELSE h.block[c]],
   free |-> <<b + n>> \o h.free]

LEMMA SplitFields ==
  ASSUME NEW h, NEW E, NEW S, Good(h, E, S), NEW b \in Dom(h),
         ~IsFixed(h, E, b), NEW n \in Nat, n >= MinBlock,
         Size(h, b) > n + MinBlock
  PROVE  LET k == Split(h, b, n)
             a == After(h, b)
             rest == Size(h, b) - n
         IN /\ HasHeaders(k) /\ Dom(k) = Dom(h) \cup {b + n}
            /\ k.free = <<b + n>> \o h.free
            /\ Size(k, b + n) = rest /\ ~Taken(k, b + n)
            /\ TakenBefore(k, b + n) /\ Before(k, b + n) = 0
            /\ Size(k, b) = n
            /\ \A c \in Dom(h) :
                 /\ c # b => Size(k, c) = Size(h, c)
                 /\ Taken(k, c) <=> Taken(h, c)
                 /\ TakenBefore(k, c) <=> TakenBefore(h, c) /\ c # a
                 /\ Before(k, c) = IF c = a THEN rest ELSE Before(h, c)
<1> DEFINE k == Split(h, b, n)
           a == After(h, b)
           rest == Size(h, b) - n
<1>1. /\ \A c \in Dom(h) : h.block[c] \in Headers
      /\ b \in Nat /\ h.block[b].size \in Nat \ {0} /\ h.block[b].size = Size(h, b)
      /\ b + n \notin Dom(h)
      /\ b + h.block[b].size = a /\ a # b /\ a # b + n /\ rest \in Nat \ {0}
      /\ n \in Nat \ {0} /\ b # b + n
  <2>1. b \in Nat /\ Size(h, b) \in Nat \ {0} /\ MinBlock = 4
    BY Places DEF Good, Numbers
  <2>2. /\ b < b + n /\ b + n < After(h, b) /\ rest \in Nat \ {0}
        /\ a # b /\ a # b + n /\ b # b + n /\ n \in Nat \ {0}
    BY <2>1, Places DEF After
  <2>3. b + n \notin Dom(h)
    BY <2>2 DEF Good, Divided
  <2> QED BY <2>1, <2>2, <2>3 DEF Good, HasHeaders, After, Size
<1>2. Dom(k) = Dom(h) \cup {b + n} /\ k.free = <<b + n>> \o h.free
  BY DEF Dom, Split
<1>3. k.block[b] = [h.block[b] EXCEPT !.size = n]
      /\ k.block[b] \in Headers
  BY <1>1 DEF Dom, Headers, Split
<1>4. k.block[b + n] = Block(FALSE, TRUE, rest, 0)
      /\ k.block[b + n] \in Headers
  BY <1>1 DEF Dom, Headers, Block, Split
<1>5. ASSUME NEW c \in Dom(h), c # b, c = a
      PROVE  /\ k.block[c] = [h.block[c] EXCEPT !.prevAllocated = FALSE,
                                                !.before = rest]
             /\ k.block[c] \in Headers
  BY <1>1, <1>5 DEF Dom, Headers, Split
<1>6. \A c \in Dom(h) : c # b /\ c # a => k.block[c] = h.block[c]
  BY <1>1 DEF Dom, Split
<1> HIDE DEF k
<1>7. \A c \in Dom(k) : k.block[c] \in Headers
  BY <1>1, <1>2, <1>3, <1>4, <1>5, <1>6
<1>8. HasHeaders(k)
  <2>1. k.block = [c \in Dom(k) |-> k.block[c]]
    BY DEF Dom, Split, k
  <2>2. k = [block |-> k.block, free |-> k.free]
    BY DEF k, Split
  <2> QED BY <2>1, <2>2, <1>7 DEF HasHeaders
<1>9. /\ Size(k, b + n) = rest /\ ~Taken(k, b + n)
      /\ TakenBefore(k, b + n) /\ Before(k, b + n) = 0
  BY <1>4 DEF Size, Taken, TakenBefore, Before, Block
<1>10. /\ Size(k, b) = n /\ (Taken(k, b) <=> Taken(h, b))
       /\ (TakenBefore(k, b) <=> TakenBefore(h, b)) /\ Before(k, b) = Before(h, b)
  BY <1>1, <1>3 DEF Size, Taken, TakenBefore, Before, Headers
<1>11. ASSUME NEW c \in Dom(h), c # b
       PROVE  /\ Size(k, c) = Size(h, c)
              /\ Taken(k, c) <=> Taken(h, c)
              /\ TakenBefore(k, c) <=> TakenBefore(h, c) /\ c # a
              /\ Before(k, c) = IF c = a THEN rest ELSE Before(h, c)
  <2>1. h.block[c] \in Headers
    BY <1>1
  <2> HIDE DEF a, rest
  <2>2. CASE c = a
    BY <2>1, <2>2, <1>11, <1>5 DEF Size, Taken, TakenBefore, Before, Headers
  <2>3. CASE c # a
    BY <2>3, <1>11, <1>6 DEF Size, Taken, TakenBefore, Before
  <2> QED BY <2>2, <2>3
<1>12. a # b
  BY <1>1
<1> HIDE DEF a, rest
<1> QED BY <1>2, <1>8, <1>9, <1>10, <1>11, <1>12 DEF a, rest, k

LEMMA SplitKeeps ==
  ASSUME NEW h, NEW E, NEW S, Good(h, E, S), NEW b \in Dom(h),
         ~IsFixed(h, E, b), NEW n \in Nat, n >= MinBlock,
         Size(h, b) > n + MinBlock, Taken(h, b), Taken(h, After(h, b))
  PROVE  /\ Good(Split(h, b, n), E, S) /\ Same(h, Split(h, b, n), b)
         /\ InUse(Split(h, b, n), b) /\ After(Split(h, b, n), b) = b + n
         /\ ~IsFixed(Split(h, b, n), E, b)
<1> DEFINE k == Split(h, b, n)
           a == After(h, b)
           rest == Size(h, b) - n
           m == b + n
<1>1. /\ HasHeaders(k) /\ Dom(k) = Dom(h) \cup {m}
      /\ k.free = <<m>> \o h.free
      /\ Size(k, m) = rest /\ ~Taken(k, m)
      /\ TakenBefore(k, m) /\ Before(k, m) = 0 /\ Size(k, b) = n
      /\ \A c \in Dom(h) :
           /\ c # b => Size(k, c) = Size(h, c)
           /\ Taken(k, c) <=> Taken(h, c)
           /\ TakenBefore(k, c) <=> TakenBefore(h, c) /\ c # a
           /\ Before(k, c) = IF c = a THEN rest ELSE Before(h, c)
  BY SplitFields
<1> HIDE DEF k
<1>2. /\ a \in Dom(h) /\ a \notin E /\ a # 0 /\ b # Mem1
      /\ \A c \in Dom(h) : After(h, c) = a => c = b
  BY Guards, OneBefore
<1>3. /\ b \in Nat /\ Size(h, b) \in Nat /\ n > 0 /\ rest > MinBlock
      /\ b < m /\ m < a /\ m \in Nat /\ rest \in Nat \ {0} /\ m + rest = a
  <2>1. b \in Nat /\ Size(h, b) \in Nat /\ MinBlock = 4
    BY Places DEF Good, Numbers
  <2> QED BY <2>1 DEF After
<1>4. m \notin Dom(h) /\ m \notin E
  BY <1>3 DEF Good, Divided
<1>5. /\ After(k, b) = m /\ After(k, m) = a
      /\ \A c \in Dom(h) : c # b => After(k, c) = After(h, c)
  BY <1>1, <1>3 DEF After
<1>6. \A c \in Dom(h) : After(h, c) # m
  BY <1>4 DEF Good, Divided
<1> HIDE DEF a, m, rest
<1>7. Numbers(k)
  BY <1>1, <1>3 DEF Good, Numbers
<1>8. Divided(k, E)
  <2>1. \A c \in Dom(h) : c \in Nat /\ After(h, c) \in Nat
    BY DEF Good, Numbers, After
  <2>2. \A c \in E : c \in Nat
    BY DEF Good, Slabs
  <2>3. \A c \in Dom(h) \cup E : c \in Nat /\ ~(b < c /\ c < a)
    BY <2>1, <2>2 DEF Good, Divided, a
  <2>4. ASSUME NEW c \in Dom(h), c # b, NEW d \in Dom(k) \cup E,
               c < d, d < After(h, c)
        PROVE  FALSE
    <3>1. ~(c < b /\ b < After(h, c)) /\ ~(c < a /\ a < After(h, c))
          /\ After(h, c) # a /\ c \in Nat /\ After(h, c) \in Nat /\ a \in Nat
      BY <1>2, <2>1, <2>4 DEF Good, Divided
    <3>2. d \in Dom(h) \cup E \/ d = m
      BY <1>1, <2>4
    <3>3. CASE d \in Dom(h) \cup E
      BY <3>3, <2>4 DEF Good, Divided
    <3>4. CASE d = m
      BY <3>1, <3>4, <1>3, <2>3, <2>4
    <3> QED BY <3>2, <3>3, <3>4
  <2>5. ASSUME NEW d \in Dom(k) \cup E
        PROVE  ~(b < d /\ d < m) /\ ~(m < d /\ d < a)
    <3>1. a \in Nat
      BY <1>2, <2>1
    <3> QED BY <1>1, <1>3, <2>3, <2>5, <3>1
  <2>6. \A c \in Dom(k) : After(k, c) \in Dom(k) \cup E
    BY <1>1, <1>2, <1>5 DEF Good, Divided
  <2> QED BY <1>1, <1>5, <2>4, <2>5, <2>6 DEF Divided
<1>9. Tags(k, E)
  <2>1. ASSUME NEW c \in Dom(k), After(k, c) \notin E
        PROVE  /\ TakenBefore(k, After(k, c)) <=> Taken(k, c)
               /\ ~Taken(k, c) => Before(k, After(k, c)) = Size(k, c)
    <3>1. CASE c = b
      BY <3>1, <1>1, <1>5
    <3>2. CASE c = m
      BY <3>2, <1>1, <1>2, <1>5
    <3>3. CASE c # b /\ c # m
      <4>1. c \in Dom(h) /\ After(k, c) = After(h, c) /\ After(h, c) \in Dom(h)
            /\ After(h, c) # a
        BY <3>3, <2>1, <1>1, <1>2, <1>5 DEF Good, Divided
      <4> QED BY <4>1, <3>3, <2>1, <1>1 DEF Good, Tags
    <3> QED BY <3>1, <3>2, <3>3
  <2>2. ASSUME NEW c \in Dom(k), ~TakenBefore(k, c)
        PROVE  \E p \in FreeOnes(k) : After(k, p) = c
    <3>1. CASE c = a
      BY <3>1, <1>1, <1>5 DEF FreeOnes
    <3>2. CASE c # a
      <4>1. c \in Dom(h) /\ ~TakenBefore(h, c)
        BY <2>2, <3>2, <1>1
      <4>2. PICK p \in FreeOnes(h) : After(h, p) = c
        BY <4>1 DEF Good, Tags
      <4>3. p \in FreeOnes(k) /\ p # b
        BY <1>1 DEF FreeOnes
      <4> QED BY <4>2, <4>3, <1>5 DEF FreeOnes
    <3> QED BY <3>1, <3>2
  <2> QED BY <2>1, <2>2 DEF Tags
<1>10. Merged(k, E)
  <2> SUFFICES ASSUME NEW c \in FreeOnes(k)
               PROVE  /\ After(k, c) \in Dom(k) /\ After(k, c) \notin E
                      /\ Taken(k, After(k, c))
    BY DEF Merged
  <2>1. CASE c = m
    BY <2>1, <1>1, <1>2, <1>5 DEF a
  <2>2. CASE c # m
    <3>1. c \in FreeOnes(h) /\ c # b
      BY <2>2, <1>1 DEF FreeOnes
    <3> QED BY <3>1, <1>1, <1>5 DEF Good, Merged, FreeOnes
  <2> QED BY <2>1, <2>2
<1>11. Sized(k, E)
  <2>1. m # Mem1
    BY <1>4 DEF Good, Guarded
  <2>2. rest >= MinBlock
    BY <1>3, Places
  <2> QED BY <2>1, <2>2, <1>1, <1>2, <1>4, <1>5 DEF Good, Sized, IsFixed
<1>12. Guarded(k)
  <2>1. b # Mem2
    BY DEF Good, Guarded, FreeOnes
  <2> QED BY <2>1, <1>1 DEF Good, Guarded, FreeOnes
<1>13. Slabs(k, E, S)
  BY <1>1, <1>2 DEF Good, Slabs
<1>14. Lists(k.free, FreeOnes(k))
  <2>1. FreeOnes(k) = FreeOnes(h) \cup {m} /\ m \notin FreeOnes(h)
    BY <1>1, <1>4 DEF FreeOnes
  <2> QED BY <1>1, <2>1, Prepended DEF Good
<1>15. Same(h, k, b) /\ InUse(k, b)
  BY <1>1, <1>4 DEF Same, InUse
<1>16. Good(k, E, S)
  BY <1>1, <1>7, <1>8, <1>9, <1>10, <1>11, <1>12, <1>13, <1>14 DEF Good
<1>17. ~IsFixed(k, E, b)
  BY <1>2, <1>4, <1>5 DEF IsFixed
<1> QED BY <1>5, <1>15, <1>16, <1>17 DEF k, m

(* The client keeps what it asked for, whether the rest is split off or not. *)
LEMMA TrimKeeps ==
  ASSUME NEW h, NEW E, NEW S, Good(h, E, S), NEW b \in Dom(h),
         ~IsFixed(h, E, b), Taken(h, b), Taken(h, After(h, b)),
         NEW size \in Nat, b + size <= After(h, b)
  PROVE  LET k == TrimAllocationToSize(h, b, size)
         IN /\ Good(k, E, S) /\ Same(h, k, b) /\ InUse(k, b)
            /\ ~IsFixed(k, E, b) /\ b + size <= After(k, b)
<1> DEFINE n == IF size < MinBlock THEN MinBlock ELSE size
           k == TrimAllocationToSize(h, b, size)
<1>1. n \in Nat /\ n >= MinBlock /\ n >= size /\ b \in Nat
  BY Places DEF Good, Numbers
<1>2. CASE h.block[b].size <= n + MinBlock
  <2>1. k = h
    BY <1>2 DEF TrimAllocationToSize
  <2> QED BY <2>1 DEF Same, InUse
<1>3. CASE ~(h.block[b].size <= n + MinBlock)
  <2>1. k = Split(h, b, n)
    BY <1>3 DEF TrimAllocationToSize, Split
  <2>2. Size(h, b) > n + MinBlock
    <3>1. Size(h, b) \in Nat /\ h.block[b].size = Size(h, b) /\ MinBlock = 4
      BY Places DEF Size, Good, Numbers
    <3> HIDE DEF n
    <3> QED BY <3>1, <1>1, <1>3
  <2> HIDE DEF n, k
  <2>3. /\ Good(k, E, S) /\ Same(h, k, b) /\ InUse(k, b)
        /\ ~IsFixed(k, E, b) /\ After(k, b) = b + n
    BY <2>1, <2>2, <1>1, SplitKeeps
  <2>4. b + size <= b + n
    BY <1>1
  <2> QED BY <2>3, <2>4 DEF k
<1> QED BY <1>2, <1>3
-----------------------------------------------------------------------------
(* JoinFollowing, when the block that follows is free.                       *)
LEMMA JoinFields ==
  ASSUME NEW h, NEW E, NEW S, Good(h, E, S), NEW b \in Dom(h),
         ~IsFixed(h, E, b), ~Taken(h, After(h, b))
  PROVE  LET k == JoinFollowing(h, b)
             f == After(h, b)
             z == After(h, f)
         IN /\ HasHeaders(k) /\ Dom(k) = Dom(h) \ {f}
            /\ k.free = IF f = Head(h.free) THEN RemoveFromFreeList(h.free, f)
                        ELSE Without(h.free, f)
            /\ Size(k, b) = Size(h, b) + Size(h, f)
            /\ \A c \in Dom(h) \ {f} :
                 /\ c # b => Size(k, c) = Size(h, c)
                 /\ Taken(k, c) <=> Taken(h, c)
                 /\ TakenBefore(k, c) <=> TakenBefore(h, c) \/ c = z
                 /\ Before(k, c) = Before(h, c)
<1> DEFINE k == JoinFollowing(h, b)
           f == After(h, b)
           z == After(h, f)
<1>1. /\ f \in Dom(h) /\ z \in Dom(h) /\ f # b /\ z # b /\ z # f
      /\ f = getBlockAfter(h, b) /\ z = getBlockAfter(h, f)
      /\ \A c \in Dom(h) : h.block[c] \in Headers
  <2>1. f \in Dom(h) /\ \A c \in Dom(h) : h.block[c] \in Headers
    BY Guards DEF Good, HasHeaders
  <2>2. z \in Dom(h)
    BY <2>1 DEF Good, Merged, FreeOnes
  <2>3. b \in Nat /\ Size(h, b) \in Nat \ {0} /\ Size(h, f) \in Nat \ {0}
    BY <2>1 DEF Good, Numbers
  <2>4. f # b /\ z # b /\ z # f
    BY <2>3 DEF After
  <2> QED BY <2>1, <2>2, <2>4 DEF After, Size, getBlockAfter
<1>2. ~h.block[f].allocated
  BY <1>1 DEF Taken, Headers
<1>3. k = [block |-> [a \in DOMAIN h.block \ {f} |->
                     IF a = b
                       THEN [h.block[b] EXCEPT !.size = @ + h.block[f].size]
                     ELSE IF a = z
                       THEN [h.block[a] EXCEPT !.prevAllocated = TRUE]
                     ELSE h.block[a]],
           free |-> IF f = Head(h.free) THEN RemoveFromFreeList(h.free, f)
                    ELSE Without(h.free, f)]
  BY <1>1, <1>2 DEF JoinFollowing
<1> HIDE DEF k, f, z
<1>4. /\ Dom(k) = Dom(h) \ {f}
      /\ k.free = IF f = Head(h.free) THEN RemoveFromFreeList(h.free, f)
                  ELSE Without(h.free, f)
  BY <1>3 DEF Dom
<1>5. /\ k.block[b] = [h.block[b] EXCEPT !.size = @ + h.block[f].size]
      /\ k.block[b] \in Headers
  <2>1. k.block[b] = [h.block[b] EXCEPT !.size = @ + h.block[f].size]
    BY <1>1, <1>3 DEF Dom
  <2>2. h.block[b] \in Headers /\ h.block[f] \in Headers
    BY <1>1
  <2> QED BY <2>1, <2>2 DEF Headers
<1>6. /\ k.block[z] = [h.block[z] EXCEPT !.prevAllocated = TRUE]
      /\ k.block[z] \in Headers
  <2>1. k.block[z] = [h.block[z] EXCEPT !.prevAllocated = TRUE]
    BY <1>1, <1>3 DEF Dom
  <2>2. h.block[z] \in Headers
    BY <1>1
  <2> QED BY <2>1, <2>2 DEF Headers
<1>7. \A c \in Dom(h) \ {f} : c # b /\ c # z => k.block[c] = h.block[c]
  BY <1>3 DEF Dom
<1>8. HasHeaders(k)
  <2>1. k.block = [c \in Dom(k) |-> k.block[c]]
    BY <1>3 DEF Dom
  <2>2. \A c \in Dom(k) : k.block[c] \in Headers
    BY <1>1, <1>4, <1>5, <1>6, <1>7
  <2>3. k = [block |-> k.block, free |-> k.free]
    BY <1>3
  <2> QED BY <2>1, <2>2, <2>3 DEF HasHeaders
<1>9. Size(k, b) = Size(h, b) + Size(h, f)
  BY <1>1, <1>5 DEF Size, Headers
<1>10. ASSUME NEW c \in Dom(h) \ {f}
       PROVE  /\ c # b => Size(k, c) = Size(h, c)
              /\ Taken(k, c) <=> Taken(h, c)
              /\ TakenBefore(k, c) <=> TakenBefore(h, c) \/ c = z
              /\ Before(k, c) = Before(h, c)
  <2>1. h.block[c] \in Headers
    BY <1>1
  <2>2. CASE c = b
    BY <2>1, <2>2, <1>1, <1>5 DEF Taken, TakenBefore, Before, Headers
  <2>3. CASE c = z
    BY <2>1, <2>3, <1>1, <1>6 DEF Size, Taken, TakenBefore, Before, Headers
  <2>4. CASE c # b /\ c # z
    BY <2>4, <1>7 DEF Size, Taken, TakenBefore, Before
  <2> QED BY <2>2, <2>3, <2>4
<1> QED BY <1>4, <1>8, <1>9, <1>10 DEF k, f, z

LEMMA JoinKeeps ==
  ASSUME NEW h, NEW E, NEW S, Good(h, E, S), NEW b \in Dom(h),
         ~IsFixed(h, E, b), Taken(h, b)
  PROVE  LET k == JoinFollowing(h, b)
         IN /\ Good(k, E, S) /\ Same(h, k, b) /\ InUse(k, b)
            /\ ~IsFixed(k, E, b) /\ Taken(k, After(k, b))
<1> DEFINE k == JoinFollowing(h, b)
           f == After(h, b)
           z == After(h, f)
<1>1. CASE Taken(h, f)
  <2>1. k = h
    BY <1>1 DEF JoinFollowing, Taken, After, Size, getBlockAfter
  <2> QED BY <2>1, <1>1 DEF Same, InUse
<1>2. CASE ~Taken(h, f)
  <2>1. /\ HasHeaders(k) /\ Dom(k) = Dom(h) \ {f}
        /\ k.free = IF f = Head(h.free) THEN RemoveFromFreeList(h.free, f)
                    ELSE Without(h.free, f)
        /\ Size(k, b) = Size(h, b) + Size(h, f)
        /\ \A c \in Dom(h) \ {f} :
             /\ c # b => Size(k, c) = Size(h, c)
             /\ Taken(k, c) <=> Taken(h, c)
             /\ TakenBefore(k, c) <=> TakenBefore(h, c) \/ c = z
             /\ Before(k, c) = Before(h, c)
    BY <1>2, JoinFields
  <2> HIDE DEF k
  <2>2. /\ f \in Dom(h) /\ f \notin E /\ f # 0 /\ b # Mem1 /\ f # Mem2 /\ b < f
        /\ z \in Dom(h) /\ z \notin E /\ Taken(h, z)
        /\ \A c \in Dom(h) : After(h, c) = f => c = b
        /\ \A c \in Dom(h) : After(h, c) = z => c = f
    <3>1. f \in Dom(h) /\ f \notin E /\ f # 0 /\ b # Mem1 /\ f # Mem2 /\ b < f
      BY Guards
    <3>2. z \in Dom(h) /\ z \notin E /\ Taken(h, z)
      BY <1>2, <3>1 DEF Good, Merged, FreeOnes
    <3> QED BY <3>1, <3>2, OneBefore
  <2>3. /\ b \in Nat /\ Size(h, b) \in Nat \ {0} /\ Size(h, f) \in Nat \ {0}
        /\ f = b + Size(h, b) /\ z = f + Size(h, f) /\ b < f /\ f < z /\ z \in Nat
    <3>1. b \in Nat /\ Size(h, b) \in Nat \ {0} /\ Size(h, f) \in Nat \ {0}
      BY <2>2 DEF Good, Numbers
    <3> QED BY <3>1 DEF After
  <2>4. /\ After(k, b) = z
        /\ \A c \in Dom(h) \ {f} : c # b => After(k, c) = After(h, c)
    <3>1. After(k, b) = b + (Size(h, b) + Size(h, f))
      BY <2>1 DEF After
    <3> QED BY <2>1, <2>3, <3>1 DEF After
  <2> HIDE DEF f, z
  <2>5. Numbers(k)
    BY <2>1, <2>3 DEF Good, Numbers
  <2>6. Divided(k, E)
    <3>1. \A c \in Dom(h) \ {f} : c # b => After(h, c) # f
      BY <2>2
    <3>2. \A d \in Dom(h) \cup E : d \in Nat /\ ~(b < d /\ d < f) /\ ~(f < d /\ d < z)
      BY <2>2 DEF Good, Divided, Numbers, Slabs, f, z
    <3>3. \A d \in Dom(k) \cup E : ~(b < d /\ d < z)
      BY <3>2, <2>1, <2>2, <2>3
    <3>4. \A c \in Dom(k) : After(k, c) \in Dom(k) \cup E
      BY <3>1, <2>1, <2>2, <2>3, <2>4 DEF Good, Divided
    <3>5. \A c \in Dom(k) : c # b =>
            \A d \in Dom(k) \cup E : ~(c < d /\ d < After(k, c))
      BY <2>1, <2>4 DEF Good, Divided
    <3> QED BY <3>3, <3>4, <3>5, <2>4 DEF Divided
  <2>7. Tags(k, E)
    <3>1. ASSUME NEW c \in Dom(k), After(k, c) \notin E
          PROVE  /\ TakenBefore(k, After(k, c)) <=> Taken(k, c)
                 /\ ~Taken(k, c) => Before(k, After(k, c)) = Size(k, c)
      <4>1. CASE c = b
        BY <4>1, <2>1, <2>2, <2>3, <2>4
      <4>2. CASE c # b
        <5>1. /\ c \in Dom(h) /\ c # f /\ After(k, c) = After(h, c)
              /\ After(h, c) \in Dom(h) /\ After(h, c) # z /\ After(h, c) # f
          BY <4>2, <3>1, <2>1, <2>2, <2>4 DEF Good, Divided
        <5> QED BY <5>1, <4>2, <3>1, <2>1 DEF Good, Tags
      <4> QED BY <4>1, <4>2
    <3>2. ASSUME NEW c \in Dom(k), ~TakenBefore(k, c)
          PROVE  \E p \in FreeOnes(k) : After(k, p) = c
      <4>1. c \in Dom(h) /\ c # f /\ c # z /\ ~TakenBefore(h, c)
        BY <3>2, <2>1
      <4>2. PICK p \in FreeOnes(h) : After(h, p) = c
        BY <4>1 DEF Good, Tags
      <4>3. p # b /\ p # f
        BY <4>1, <4>2 DEF FreeOnes, z
      <4> QED BY <4>2, <4>3, <2>1, <2>4 DEF FreeOnes
    <3> QED BY <3>1, <3>2 DEF Tags
  <2>8. Merged(k, E)
    <3> SUFFICES ASSUME NEW c \in FreeOnes(k)
                 PROVE  /\ After(k, c) \in Dom(k) /\ After(k, c) \notin E
                        /\ Taken(k, After(k, c))
      BY DEF Merged
    <3>1. c \in FreeOnes(h) /\ c # b /\ c # f
      BY <2>1 DEF FreeOnes
    <3>2. /\ After(k, c) = After(h, c) /\ After(h, c) \in Dom(h)
          /\ After(h, c) \notin E /\ Taken(h, After(h, c)) /\ After(h, c) # f
      BY <3>1, <2>2, <2>4 DEF Good, Merged, FreeOnes
    <3> QED BY <3>2, <2>1
  <2>9. Sized(k, E)
    <3>1. Size(h, b) >= MinBlock
      BY Guards
    <3>2. Size(k, b) >= MinBlock
      BY <3>1, <2>1, <2>3, Places
    <3> QED BY <3>2, <2>1, <2>2, <2>4 DEF Good, Sized, IsFixed
  <2>10. Guarded(k)
    <3>1. f # Mem1 /\ f # Mem3 /\ b # Mem2
      <4>1. Taken(h, Mem1)
        BY DEF Good, Guarded, Sized, IsFixed
      <4>2. Taken(h, Mem3)
        BY Places DEF Good, Guarded, Merged, After
      <4> QED BY <4>1, <4>2, <1>2 DEF Good, Guarded, FreeOnes, f
    <3> QED BY <3>1, <2>1, <2>2 DEF Good, Guarded, FreeOnes
  <2>11. Slabs(k, E, S)
    BY <2>1, <2>2 DEF Good, Slabs
  <2>12. Lists(k.free, FreeOnes(k))
    <3>1. FreeOnes(k) = FreeOnes(h) \ {f} /\ f \in FreeOnes(h)
      BY <2>1, <2>2, <1>2 DEF FreeOnes, f
    <3>2. FreeOnes(h) # {f}
      BY <2>2 DEF Good, Guarded
    <3>3. /\ Lists(RemoveFromFreeList(h.free, f), FreeOnes(h) \ {f})
          /\ Lists(Without(h.free, f), FreeOnes(h) \ {f})
      BY <3>1, <3>2, Removed, TakenOut DEF Good
    <3> QED BY <2>1, <3>1, <3>3
  <2>13. Same(h, k, b) /\ InUse(k, b)
    BY <2>1, <2>2, <1>2 DEF Same, InUse, f
  <2>14. Good(k, E, S)
    BY <2>1, <2>5, <2>6, <2>7, <2>8, <2>9, <2>10, <2>11, <2>12 DEF Good
  <2>15. ~IsFixed(k, E, b) /\ Taken(k, After(k, b))
    BY <2>1, <2>2, <2>3, <2>4 DEF IsFixed
  <2> QED BY <2>13, <2>14, <2>15 DEF k
<1> QED BY <1>1, <1>2
-----------------------------------------------------------------------------
(* MarkFree and GrowBlock, for a block with no free block behind it.         *)
LEMMA MarkFields ==
  ASSUME NEW h, NEW E, NEW S, Good(h, E, S), NEW b \in Dom(h),
         ~IsFixed(h, E, b)
  PROVE  LET k == MarkFree(h, b)
             a == After(h, b)
         IN /\ HasHeaders(k) /\ Dom(k) = Dom(h) /\ k.free = Append(h.free, b)
            /\ \A c \in Dom(h) :
                 /\ Size(k, c) = Size(h, c)
                 /\ Taken(k, c) <=> Taken(h, c) /\ c # b
                 /\ TakenBefore(k, c) <=> TakenBefore(h, c) /\ c # a
                 /\ Before(k, c) = IF c = a THEN Size(h, b) ELSE Before(h, c)
<1> DEFINE k == MarkFree(h, b)
           a == After(h, b)
<1>1. /\ a \in Dom(h) /\ a # b /\ a = b + h.block[b].size
      /\ \A c \in Dom(h) : h.block[c] \in Headers
  <2>1. a \in Dom(h) /\ b < a /\ b \in Nat
    BY Guards DEF Good, Numbers
  <2>2. a # b
    BY <2>1
  <2> QED BY <2>1, <2>2 DEF Good, HasHeaders, After, Size
<1>2. Dom(k) = Dom(h) /\ k.free = Append(h.free, b)
  BY DEF MarkFree, Dom
<1>3. /\ k.block[b] = [h.block[b] EXCEPT !.allocated = FALSE]
      /\ k.block[b] \in Headers
  <2>1. k.block[b] = [h.block[b] EXCEPT !.allocated = FALSE]
    BY <1>1 DEF MarkFree, Dom
  <2>2. h.block[b] \in Headers
    BY <1>1
  <2> HIDE DEF k
  <2> QED BY <2>1, <2>2 DEF Headers
<1>4. /\ k.block[a] = [h.block[a] EXCEPT !.prevAllocated = FALSE,
                                         !.before = h.block[b].size]
      /\ k.block[a] \in Headers
  <2>1. k.block[a] = [h.block[a] EXCEPT !.prevAllocated = FALSE,
                                        !.before = h.block[b].size]
    BY <1>1 DEF MarkFree, Dom
  <2>2. h.block[b] \in Headers /\ h.block[a] \in Headers
    BY <1>1
  <2> HIDE DEF k, a
  <2> QED BY <2>1, <2>2 DEF Headers
<1>5. \A c \in Dom(h) : c # a /\ c # b => k.block[c] = h.block[c]
  BY <1>1 DEF MarkFree, Dom
<1>6. /\ k.block = [c \in Dom(k) |-> k.block[c]]
      /\ k = [block |-> k.block, free |-> k.free]
  BY DEF Dom, MarkFree
<1> HIDE DEF k, a
<1>7. HasHeaders(k)
  <2>1. \A c \in Dom(k) : k.block[c] \in Headers
    BY <1>1, <1>2, <1>3, <1>4, <1>5
  <2> QED BY <2>1, <1>6 DEF HasHeaders
<1>8. ASSUME NEW c \in Dom(h)
      PROVE  /\ Size(k, c) = Size(h, c)
             /\ Taken(k, c) <=> Taken(h, c) /\ c # b
             /\ TakenBefore(k, c) <=> TakenBefore(h, c) /\ c # a
             /\ Before(k, c) = IF c = a THEN Size(h, b) ELSE Before(h, c)
  <2>1. h.block[c] \in Headers
    BY <1>1
  <2>2. CASE c = b
    BY <2>1, <2>2, <1>1, <1>3 DEF Size, Taken, TakenBefore, Before, Headers
  <2>3. CASE c = a
    BY <2>1, <2>3, <1>1, <1>4 DEF Size, Taken, TakenBefore, Before, Headers
  <2>4. CASE c # a /\ c # b
    BY <2>4, <1>5 DEF Size, Taken, TakenBefore, Before
  <2> QED BY <2>2, <2>3, <2>4
<1> QED BY <1>2, <1>7, <1>8 DEF k, a

LEMMA MarkKeeps ==
  ASSUME NEW h, NEW E, NEW S, Good(h, E, S), NEW b \in Dom(h),
         ~IsFixed(h, E, b), Taken(h, b), Taken(h, After(h, b)),
         TakenBefore(h, b)
  PROVE  LET k == MarkFree(h, b)
         IN Good(k, E, S) /\ Same(h, k, b) /\ b \in FreeOnes(k)
<1> DEFINE k == MarkFree(h, b)
           a == After(h, b)
<1>1. /\ HasHeaders(k) /\ Dom(k) = Dom(h) /\ k.free = Append(h.free, b)
      /\ \A c \in Dom(h) :
           /\ Size(k, c) = Size(h, c)
           /\ Taken(k, c) <=> Taken(h, c) /\ c # b
           /\ TakenBefore(k, c) <=> TakenBefore(h, c) /\ c # a
           /\ Before(k, c) = IF c = a THEN Size(h, b) ELSE Before(h, c)
  BY MarkFields
<1> HIDE DEF k
<1>2. \A c \in Dom(h) : After(k, c) = After(h, c)
  BY <1>1 DEF After
<1>3. /\ a \in Dom(h) /\ a \notin E /\ a # 0 /\ a # b /\ b # Mem1
      /\ \A c \in Dom(h) : After(h, c) = a => c = b
  <2>1. a \in Dom(h) /\ a \notin E /\ a # 0 /\ b # Mem1 /\ b < a
    BY Guards
  <2>2. b \in Nat
    BY DEF Good, Numbers
  <2>3. a # b
    BY <2>1, <2>2
  <2> QED BY <2>1, <2>3, OneBefore
<1>4. \A c \in Dom(h) : After(h, c) = b => Taken(h, c)
  BY DEF Good, Tags, Sized, IsFixed
<1>5. Numbers(k) /\ Divided(k, E)
  BY <1>1, <1>2 DEF Good, Numbers, Divided
<1>6. Tags(k, E)
  <2>1. ASSUME NEW c \in Dom(k), After(k, c) \notin E
        PROVE  /\ TakenBefore(k, After(k, c)) <=> Taken(k, c)
               /\ ~Taken(k, c) => Before(k, After(k, c)) = Size(k, c)
    <3>1. CASE c = b
      BY <3>1, <1>1, <1>2, <1>3
    <3>2. CASE c # b
      <4>1. c \in Dom(h) /\ After(k, c) = After(h, c) /\ After(h, c) \in Dom(h)
            /\ After(h, c) # a
        BY <3>2, <2>1, <1>1, <1>2, <1>3 DEF Good, Divided
      <4> QED BY <4>1, <3>2, <2>1, <1>1 DEF Good, Tags
    <3> QED BY <3>1, <3>2
  <2>2. ASSUME NEW c \in Dom(k), ~TakenBefore(k, c)
        PROVE  \E p \in FreeOnes(k) : After(k, p) = c
    <3>1. CASE c = a
      BY <3>1, <1>1, <1>2 DEF FreeOnes
    <3>2. CASE c # a
      <4>1. c \in Dom(h) /\ ~TakenBefore(h, c)
        BY <2>2, <3>2, <1>1
      <4>2. PICK p \in FreeOnes(h) : After(h, p) = c
        BY <4>1 DEF Good, Tags
      <4> QED BY <4>2, <1>1, <1>2 DEF FreeOnes
    <3> QED BY <3>1, <3>2
  <2> QED BY <2>1, <2>2 DEF Tags
<1>7. Merged(k, E)
  <2> SUFFICES ASSUME NEW c \in FreeOnes(k)
               PROVE  /\ After(k, c) \in Dom(k) /\ After(k, c) \notin E
                      /\ Taken(k, After(k, c))
    BY DEF Merged
  <2>1. CASE c = b
    BY <2>1, <1>1, <1>2, <1>3
  <2>2. CASE c # b
    <3>1. c \in FreeOnes(h)
      BY <2>2, <1>1 DEF FreeOnes
    <3>2. After(h, c) # b
      BY <3>1, <1>4 DEF FreeOnes
    <3> QED BY <3>1, <3>2, <1>1, <1>2 DEF Good, Merged, FreeOnes
  <2> QED BY <2>1, <2>2
<1>8. Sized(k, E)
  BY <1>1, <1>2 DEF Good, Sized, IsFixed
<1>9. Guarded(k) /\ Slabs(k, E, S)
  BY <1>1, <1>3 DEF Good, Guarded, Slabs, FreeOnes
<1>10. Lists(k.free, FreeOnes(k))
  <2>1. FreeOnes(k) = FreeOnes(h) \cup {b} /\ b \notin FreeOnes(h)
    BY <1>1 DEF FreeOnes
  <2> QED BY <1>1, <2>1, Appended DEF Good
<1>11. Same(h, k, b) /\ b \in FreeOnes(k)
  BY <1>1 DEF Same, InUse, FreeOnes
<1>12. Good(k, E, S)
  BY <1>1, <1>5, <1>6, <1>7, <1>8, <1>9, <1>10 DEF Good
<1> QED BY <1>11, <1>12 DEF k

LEMMA GrowFields ==
  ASSUME NEW h, NEW E, NEW S, Good(h, E, S), NEW b \in Dom(h),
         ~IsFixed(h, E, b), NEW p \in FreeOnes(h), After(h, p) = b
  PROVE  LET k == GrowBlock(h, p, b)
             a == After(h, b)
             sum == Size(h, p) + Size(h, b)
         IN /\ HasHeaders(k) /\ Dom(k) = Dom(h) \ {b} /\ k.free = h.free
            /\ Size(k, p) = sum
            /\ \A c \in Dom(h) \ {b} :
                 /\ c # p => Size(k, c) = Size(h, c)
                 /\ Taken(k, c) <=> Taken(h, c)
                 /\ TakenBefore(k, c) <=> TakenBefore(h, c) /\ c # a
                 /\ Before(k, c) = IF c = a THEN sum ELSE Before(h, c)
<1> DEFINE k == GrowBlock(h, p, b)
           a == After(h, b)
           sum == Size(h, p) + Size(h, b)
<1>1. /\ a \in Dom(h) /\ p \in Dom(h) /\ a # b /\ a # p /\ p # b
      /\ sum \in Nat \ {0} /\ a = p + sum
      /\ \A c \in Dom(h) : h.block[c] \in Headers
  <2>1. a \in Dom(h) /\ b \in Nat /\ p \in Dom(h)
    BY Guards DEF Good, Numbers, FreeOnes
  <2>2. /\ p \in Nat /\ Size(h, b) \in Nat \ {0} /\ Size(h, p) \in Nat \ {0}
        /\ a = b + Size(h, b) /\ b = p + Size(h, p)
    BY <2>1 DEF Good, Numbers, After
  <2>3. a # b /\ a # p /\ p # b /\ sum \in Nat \ {0} /\ a = p + sum
    BY <2>2
  <2> QED BY <2>1, <2>3 DEF Good, HasHeaders
<1>2. k = [h EXCEPT !.block = [c \in DOMAIN h.block \ {b} |->
                         IF c = p THEN [h.block[p] EXCEPT !.size = sum]
                         ELSE IF c = a
                           THEN [h.block[c] EXCEPT !.prevAllocated = FALSE,
                                                   !.before = sum]
                         ELSE h.block[c]]]
  BY <1>1 DEF GrowBlock, Size
<1>3. h = [block |-> h.block, free |-> h.free]
  BY DEF Good, HasHeaders
<1> HIDE DEF k, a, sum
<1>4. k.free = h.free
      /\ k.block = [c \in DOMAIN h.block \ {b} |->
                         IF c = p THEN [h.block[p] EXCEPT !.size = sum]
                         ELSE IF c = a
                           THEN [h.block[c] EXCEPT !.prevAllocated = FALSE,
                                                   !.before = sum]
                         ELSE h.block[c]]
  BY <1>2, <1>3
<1>5. Dom(k) = Dom(h) \ {b}
  BY <1>4 DEF Dom
<1>6. k.block[p] = [h.block[p] EXCEPT !.size = sum] /\ k.block[p] \in Headers
  <2>1. k.block[p] = [h.block[p] EXCEPT !.size = sum]
    BY <1>1, <1>4 DEF Dom
  <2>2. h.block[p] \in Headers
    BY <1>1
  <2> QED BY <2>1, <2>2, <1>1 DEF Headers
<1>7. /\ k.block[a] = [h.block[a] EXCEPT !.prevAllocated = FALSE, !.before = sum]
      /\ k.block[a] \in Headers
  <2>1. k.block[a] = [h.block[a] EXCEPT !.prevAllocated = FALSE, !.before = sum]
    BY <1>1, <1>4 DEF Dom
  <2>2. h.block[a] \in Headers
    BY <1>1
  <2> QED BY <2>1, <2>2, <1>1 DEF Headers
<1>8. \A c \in Dom(h) \ {b} : c # a /\ c # p => k.block[c] = h.block[c]
  BY <1>4 DEF Dom
<1>9. HasHeaders(k)
  <2>1. k.block = [c \in Dom(k) |-> k.block[c]]
    BY <1>4 DEF Dom
  <2>2. \A c \in Dom(k) : k.block[c] \in Headers
    BY <1>1, <1>5, <1>6, <1>7, <1>8
  <2>3. k = [block |-> k.block, free |-> k.free]
    BY <1>2, <1>3
  <2> QED BY <2>1, <2>2, <2>3 DEF HasHeaders
<1>10. Size(k, p) = sum
  BY <1>1, <1>6 DEF Size, Headers
<1>11. ASSUME NEW c \in Dom(h) \ {b}
       PROVE  /\ c # p => Size(k, c) = Size(h, c)
              /\ Taken(k, c) <=> Taken(h, c)
              /\ TakenBefore(k, c) <=> TakenBefore(h, c) /\ c # a
              /\ Before(k, c) = IF c = a THEN sum ELSE Before(h, c)
  <2>1. h.block[c] \in Headers
    BY <1>1
  <2>2. CASE c = p
    BY <2>1, <2>2, <1>1, <1>6 DEF Taken, TakenBefore, Before, Headers
  <2>3. CASE c = a
    BY <2>1, <2>3, <1>1, <1>7 DEF Size, Taken, TakenBefore, Before, Headers
  <2>4. CASE c # a /\ c # p
    BY <2>4, <1>8 DEF Size, Taken, TakenBefore, Before
  <2> QED BY <2>2, <2>3, <2>4
<1> QED BY <1>4, <1>5, <1>9, <1>10, <1>11 DEF k, a, sum

LEMMA GrowKeeps ==
  ASSUME NEW h, NEW E, NEW S, Good(h, E, S), NEW b \in Dom(h),
         ~IsFixed(h, E, b), Taken(h, b), Taken(h, After(h, b)),
         NEW p \in FreeOnes(h), After(h, p) = b
  PROVE  LET k == GrowBlock(h, p, b)
         IN /\ Good(k, E, S) /\ Same(h, k, b)
            /\ b \notin Dom(k) /\ p \in FreeOnes(k)
<1> DEFINE k == GrowBlock(h, p, b)
           a == After(h, b)
           sum == Size(h, p) + Size(h, b)
<1>1. /\ HasHeaders(k) /\ Dom(k) = Dom(h) \ {b} /\ k.free = h.free
      /\ Size(k, p) = sum
      /\ \A c \in Dom(h) \ {b} :
           /\ c # p => Size(k, c) = Size(h, c)
           /\ Taken(k, c) <=> Taken(h, c)
           /\ TakenBefore(k, c) <=> TakenBefore(h, c) /\ c # a
           /\ Before(k, c) = IF c = a THEN sum ELSE Before(h, c)
  BY GrowFields
<1> HIDE DEF k
<1>2. /\ a \in Dom(h) /\ a \notin E /\ a # 0 /\ b # Mem1 /\ b # Mem3
      /\ Size(h, b) >= MinBlock
      /\ p \in Dom(h) /\ ~Taken(h, p) /\ b \notin E /\ ~TakenBefore(h, b)
      /\ \A c \in Dom(h) : After(h, c) = a => c = b
      /\ \A c \in Dom(h) : After(h, c) = b => c = p
  <2>1. /\ a \in Dom(h) /\ a \notin E /\ a # 0 /\ b # Mem1 /\ b # Mem3
        /\ Size(h, b) >= MinBlock
    BY Guards
  <2>2. p \in Dom(h) /\ ~Taken(h, p)
    BY DEF FreeOnes
  <2>3. b \notin E
    BY DEF Good, Merged
  <2>4. ~TakenBefore(h, b)
    BY <2>2, <2>3 DEF Good, Tags
  <2> QED BY <2>1, <2>2, <2>3, <2>4, OneBefore
<1>3. /\ p \in Nat /\ Size(h, b) \in Nat \ {0} /\ Size(h, p) \in Nat \ {0}
      /\ b = p + Size(h, p) /\ a = b + Size(h, b) /\ sum \in Nat \ {0}
      /\ p < b /\ b < a /\ a = p + sum /\ sum >= MinBlock
  <2>1. p \in Nat /\ Size(h, b) \in Nat \ {0} /\ Size(h, p) \in Nat \ {0}
    BY <1>2 DEF Good, Numbers
  <2> QED BY <2>1, <1>2, Places DEF After
<1>4. /\ After(k, p) = a
      /\ \A c \in Dom(h) \ {b} : c # p => After(k, c) = After(h, c)
  BY <1>1, <1>3 DEF After
<1> HIDE DEF a, sum
<1>5. Numbers(k)
  BY <1>1, <1>3 DEF Good, Numbers
<1>6. Divided(k, E)
  <2>1. \A c \in Dom(k) : c # p => After(h, c) # b
    BY <1>1, <1>2
  <2>2. \A d \in Dom(h) \cup E : d \in Nat /\ ~(p < d /\ d < b) /\ ~(b < d /\ d < a)
    BY <1>2 DEF Good, Divided, Numbers, Slabs, a
  <2>3. \A d \in Dom(k) \cup E : ~(p < d /\ d < a)
    BY <2>2, <1>1, <1>2, <1>3
  <2>4. \A c \in Dom(k) : After(k, c) \in Dom(k) \cup E
    BY <2>1, <1>1, <1>2, <1>3, <1>4 DEF Good, Divided
  <2>5. \A c \in Dom(k) : c # p =>
          \A d \in Dom(k) \cup E : ~(c < d /\ d < After(k, c))
    BY <1>1, <1>4 DEF Good, Divided
  <2> QED BY <2>3, <2>4, <2>5, <1>4 DEF Divided
<1>7. Tags(k, E)
  <2>1. ASSUME NEW c \in Dom(k), After(k, c) \notin E
        PROVE  /\ TakenBefore(k, After(k, c)) <=> Taken(k, c)
               /\ ~Taken(k, c) => Before(k, After(k, c)) = Size(k, c)
    <3>1. CASE c = p
      <4>1. a # b /\ a \in Dom(h) \ {b} /\ p \in Dom(h) \ {b}
        BY <1>2, <1>3
      <4> QED BY <3>1, <4>1, <1>1, <1>2, <1>4
    <3>2. CASE c # p
      <4>1. /\ c \in Dom(h) /\ c # b /\ After(k, c) = After(h, c)
            /\ After(h, c) \in Dom(h) /\ After(h, c) # a /\ After(h, c) # b
        BY <3>2, <2>1, <1>1, <1>2, <1>4 DEF Good, Divided
      <4> QED BY <4>1, <3>2, <2>1, <1>1 DEF Good, Tags
    <3> QED BY <3>1, <3>2
  <2>2. ASSUME NEW c \in Dom(k), ~TakenBefore(k, c)
        PROVE  \E q \in FreeOnes(k) : After(k, q) = c
    <3>1. p \in FreeOnes(k)
      BY <1>1, <1>2, <1>3 DEF FreeOnes
    <3>2. CASE c = a
      BY <3>1, <3>2, <1>4
    <3>3. CASE c # a
      <4>1. c \in Dom(h) /\ c # b /\ ~TakenBefore(h, c)
        BY <2>2, <3>3, <1>1
      <4>2. PICK q \in FreeOnes(h) : After(h, q) = c
        BY <4>1 DEF Good, Tags
      <4>3. q # b /\ q # p
        BY <4>1, <4>2, <1>2 DEF FreeOnes
      <4> QED BY <4>2, <4>3, <1>1, <1>4 DEF FreeOnes
    <3> QED BY <3>2, <3>3
  <2> QED BY <2>1, <2>2 DEF Tags
<1>8. Merged(k, E)
  <2> SUFFICES ASSUME NEW c \in FreeOnes(k)
               PROVE  /\ After(k, c) \in Dom(k) /\ After(k, c) \notin E
                      /\ Taken(k, After(k, c))
    BY DEF Merged
  <2>1. CASE c = p
    <3>1. a # b
      BY <1>3
    <3> QED BY <2>1, <3>1, <1>1, <1>2, <1>4 DEF a
  <2>2. CASE c # p
    <3>1. c \in FreeOnes(h) /\ c # b
      BY <1>1 DEF FreeOnes
    <3>2. /\ After(k, c) = After(h, c) /\ After(h, c) \in Dom(h)
          /\ After(h, c) \notin E /\ Taken(h, After(h, c)) /\ After(h, c) # b
      BY <2>2, <3>1, <1>2, <1>4 DEF Good, Merged, FreeOnes
    <3> QED BY <3>2, <1>1
  <2> QED BY <2>1, <2>2
<1>9. Sized(k, E)
  <2>1. p # Mem1
    BY <1>2 DEF Good, Guarded, Sized, IsFixed
  <2> QED BY <2>1, <1>1, <1>2, <1>3, <1>4 DEF Good, Sized, IsFixed
<1>10. Guarded(k)
  <2>1. p # Mem2
    BY <1>2, Places DEF Good, Guarded, After
  <2>2. b # Mem2
    BY DEF Good, Guarded, FreeOnes
  <2> QED BY <2>1, <2>2, <1>1, <1>2 DEF Good, Guarded, FreeOnes
<1>11. Slabs(k, E, S)
  BY <1>1, <1>2 DEF Good, Slabs
<1>12. FreeOnes(k) = FreeOnes(h)
  BY <1>1 DEF FreeOnes
<1>13. Good(k, E, S)
  BY <1>1, <1>5, <1>6, <1>7, <1>8, <1>9, <1>10, <1>11, <1>12 DEF Good
<1>14. Same(h, k, b)
  BY <1>1, <1>2 DEF Same, InUse
<1> QED BY <1>1, <1>12, <1>13, <1>14 DEF k
-----------------------------------------------------------------------------
(* The list may be looked at from any of its blocks.                         *)
LEMMA Viewed ==
  ASSUME NEW h, NEW E, NEW S, Good(h, E, S), NEW s, Lists(s, FreeOnes(h))
  PROVE  LET k == [h EXCEPT !.free = s]
         IN /\ Good(k, E, S) /\ Dom(k) = Dom(h) /\ FreeOnes(k) = FreeOnes(h)
            /\ \A c : Size(k, c) = Size(h, c) /\ (Taken(k, c) <=> Taken(h, c))
<1> DEFINE k == [h EXCEPT !.free = s]
<1>1. k = [block |-> h.block, free |-> s] /\ k.block = h.block /\ k.free = s
  BY DEF Good, HasHeaders
<1> HIDE DEF k
<1>2. /\ Dom(k) = Dom(h) /\ FreeOnes(k) = FreeOnes(h)
      /\ \A c : /\ Size(k, c) = Size(h, c) /\ After(k, c) = After(h, c)
                /\ Taken(k, c) <=> Taken(h, c)
                /\ TakenBefore(k, c) <=> TakenBefore(h, c)
                /\ Before(k, c) = Before(h, c)
  BY <1>1 DEF Dom, FreeOnes, Size, After, Taken, TakenBefore, Before
<1>3. HasHeaders(k)
  BY <1>1, <1>2 DEF Good, HasHeaders
<1>4. Numbers(k) /\ Divided(k, E) /\ Merged(k, E)
  BY <1>2 DEF Good, Numbers, Divided, Merged
<1>5. Tags(k, E)
  BY <1>2 DEF Good, Tags
<1>6. Sized(k, E) /\ Guarded(k) /\ Slabs(k, E, S)
  BY <1>2 DEF Good, Sized, IsFixed, Guarded, Slabs
<1>7. Good(k, E, S)
  BY <1>1, <1>2, <1>3, <1>4, <1>5, <1>6 DEF Good
<1> QED BY <1>2, <1>7 DEF k

(* FreeBlock as a whole.                                                     *)
LEMMA FreeKeeps ==
  ASSUME NEW h, NEW E, NEW S, Good(h, E, S), NEW b \in Dom(h),
         ~IsFixed(h, E, b), Taken(h, b)
  PROVE  LET k == FreeBlock(h, b)
         IN Good(k, E, S) /\ Same(h, k, b) /\ ~InUse(k, b)
<1> DEFINE j == JoinFollowing(h, b)
           before == b - j.block[b].before
           whole == IF j.block[b].prevAllocated THEN b ELSE before
           freed == IF whole = b THEN MarkFree(j, b) ELSE GrowBlock(j, before, b)
<1>1. /\ Good(j, E, S) /\ Same(h, j, b) /\ InUse(j, b)
      /\ ~IsFixed(j, E, b) /\ Taken(j, After(j, b))
  BY JoinKeeps
<1> HIDE DEF j
<1>2. /\ Good(freed, E, S) /\ Same(j, freed, b) /\ ~InUse(freed, b)
      /\ whole \in FreeOnes(freed)
  <2>1. b \in Dom(j) /\ Taken(j, b)
    BY <1>1 DEF InUse
  <2>2. j.block[b].prevAllocated \in BOOLEAN /\ b \in Nat
        /\ j.block[b].before = Before(j, b)
    BY <1>1, <2>1 DEF Good, HasHeaders, Headers, Numbers, Before
  <2>3. CASE j.block[b].prevAllocated
    <3>1. TakenBefore(j, b) /\ whole = b /\ freed = MarkFree(j, b)
      BY <2>3 DEF TakenBefore
    <3> HIDE DEF freed, whole
    <3>2. Good(freed, E, S) /\ Same(j, freed, b) /\ b \in FreeOnes(freed)
      BY <1>1, <2>1, <3>1, MarkKeeps
    <3> QED BY <3>1, <3>2 DEF InUse, FreeOnes
  <2>4. CASE ~j.block[b].prevAllocated
    <3>1. ~TakenBefore(j, b)
      BY <2>4 DEF TakenBefore
    <3>2. PICK p \in FreeOnes(j) : After(j, p) = b
      BY <1>1, <2>1, <3>1 DEF Good, Tags
    <3>3. p \in Dom(j) /\ ~Taken(j, p) /\ b \notin E
      BY <1>1, <3>2 DEF FreeOnes, Good, Merged
    <3>4. Before(j, b) = Size(j, p) /\ p \in Nat /\ Size(j, p) \in Nat \ {0}
      BY <1>1, <3>2, <3>3 DEF Good, Tags, Numbers
    <3>5. before = p /\ p # b
      BY <2>2, <3>2, <3>4 DEF After
    <3>6. whole = p /\ freed = GrowBlock(j, p, b)
      BY <2>4, <3>5
    <3> HIDE DEF freed, whole, before
    <3>7. /\ Good(freed, E, S) /\ Same(j, freed, b)
          /\ b \notin Dom(freed) /\ p \in FreeOnes(freed)
      BY <1>1, <2>1, <3>2, <3>6, GrowKeeps
    <3> QED BY <3>6, <3>7 DEF InUse
  <2> QED BY <2>2, <2>3, <2>4
<1>3. FreeBlock(h, b) = IF getBlockAfter(h, b) = Head(h.free)
                          THEN [freed EXCEPT !.free = StartingAt(@, whole)]
                        ELSE freed
  BY DEF FreeBlock, j
<1> HIDE DEF freed, whole, before
<1>4. Same(h, freed, b)
  BY <1>1, <1>2 DEF Same
<1>5. CASE getBlockAfter(h, b) = Head(h.free)
  <2> DEFINE k == [freed EXCEPT !.free = StartingAt(freed.free, whole)]
  <2>1. FreeBlock(h, b) = k
    BY <1>3, <1>5
  <2>2. Lists(StartingAt(freed.free, whole), FreeOnes(freed))
    BY <1>2, Rotated DEF Good
  <2>3. /\ Good(k, E, S) /\ Dom(k) = Dom(freed)
        /\ \A c : Size(k, c) = Size(freed, c) /\ (Taken(k, c) <=> Taken(freed, c))
    BY <1>2, <2>2, Viewed
  <2> HIDE DEF k
  <2> QED BY <2>1, <2>3, <1>2, <1>4 DEF Same, InUse
<1>6. CASE getBlockAfter(h, b) # Head(h.free)
  BY <1>2, <1>3, <1>4, <1>6
<1> QED BY <1>5, <1>6
-----------------------------------------------------------------------------
(* A new slab begins where the last one ends.                                *)
LEMMA SlabFields ==
  ASSUME NEW h, NEW E, NEW S, Good(h, E, S), NEW top \in Nat,
         \A b \in Dom(h) : b < top,
         NEW size \in Nat, size > MinBlock
  PROVE  LET k == WithNewSlab(h, top, size)
             end == top + (size - Header)
         IN /\ HasHeaders(k) /\ Dom(k) = Dom(h) \cup {top, end}
            /\ k.free = Append(h.free, top) /\ top \notin Dom(h)
            /\ end \notin Dom(h) /\ top < end /\ end \in Nat
            /\ Size(k, top) = size - Header /\ ~Taken(k, top)
            /\ TakenBefore(k, top) /\ Before(k, top) = 0
            /\ Size(k, end) = Header /\ Taken(k, end)
            /\ ~TakenBefore(k, end) /\ Before(k, end) = size - Header
            /\ \A c \in Dom(h) :
                 /\ Size(k, c) = Size(h, c)
                 /\ Taken(k, c) <=> Taken(h, c)
                 /\ TakenBefore(k, c) <=> TakenBefore(h, c)
                 /\ Before(k, c) = Before(h, c)
<1> DEFINE k == WithNewSlab(h, top, size)
           rest == size - Header
           end == top + rest
<1>1. /\ rest \in Nat \ {0} /\ top < end /\ end \in Nat /\ top # end
      /\ top + size - Header = end
  BY Places
<1>2. /\ top \notin Dom(h) /\ end \notin Dom(h)
      /\ \A c \in Dom(h) : h.block[c] \in Headers
  <2>1. \A c \in Dom(h) : c \in Nat
    BY DEF Good, Numbers
  <2> HIDE DEF end
  <2> QED BY <1>1, <2>1 DEF Good, HasHeaders
<1>3. k = [block |-> [a \in DOMAIN h.block \cup {top, end} |->
                CASE a = top -> Block(FALSE, TRUE, rest, 0)
                  [] a = end -> Block(TRUE, FALSE, Header, rest)
                  [] OTHER -> h.block[a]],
           free |-> Append(h.free, top)]
  BY <1>1 DEF WithNewSlab
<1> HIDE DEF k, end, rest
<1>4. Dom(k) = Dom(h) \cup {top, end} /\ k.free = Append(h.free, top)
  BY <1>3 DEF Dom
<1>5. /\ k.block[top] = Block(FALSE, TRUE, rest, 0)
      /\ k.block[end] = Block(TRUE, FALSE, Header, rest)
  BY <1>1, <1>3 DEF Dom
<1>6. \A c \in Dom(h) : k.block[c] = h.block[c]
  BY <1>2, <1>3 DEF Dom
<1>7. HasHeaders(k)
  <2>1. k.block[top] \in Headers /\ k.block[end] \in Headers
    BY <1>1, <1>5 DEF Block, Headers, Header
  <2>2. \A c \in Dom(k) : k.block[c] \in Headers
    BY <2>1, <1>2, <1>4, <1>6
  <2>3. /\ k = [block |-> k.block, free |-> k.free]
        /\ k.block = [c \in Dom(k) |-> k.block[c]]
    BY <1>3 DEF Dom
  <2> QED BY <2>2, <2>3 DEF HasHeaders
<1>8. /\ Size(k, top) = rest /\ ~Taken(k, top)
      /\ TakenBefore(k, top) /\ Before(k, top) = 0
      /\ Size(k, end) = Header /\ Taken(k, end)
      /\ ~TakenBefore(k, end) /\ Before(k, end) = rest
  BY <1>5 DEF Size, Taken, TakenBefore, Before, Block
<1>9. \A c \in Dom(h) :
        /\ Size(k, c) = Size(h, c)
        /\ Taken(k, c) <=> Taken(h, c)
        /\ TakenBefore(k, c) <=> TakenBefore(h, c)
        /\ Before(k, c) = Before(h, c)
  BY <1>6 DEF Size, Taken, TakenBefore, Before
<1> QED BY <1>1, <1>2, <1>4, <1>7, <1>8, <1>9 DEF k, end, rest

(* The last slab ends above everything, and the next one begins there.      *)
Above(h, E, top) ==
  (\A e \in E : e <= top) /\ \A b \in Dom(h) : b < top

SlabAdded(h, k, E, S, top, size) ==
  LET end == top + (size - Header)
  IN /\ Good(k, E \cup {top + size}, S \cup {top})
     /\ Same(h, k, end) /\ Dom(k) = Dom(h) \cup {top, end}
     /\ After(k, top) = end /\ top \in FreeOnes(k)
     /\ top # Mem2 /\ After(k, end) = top + size
     /\ \A c \in Dom(h) : IsFixed(k, E \cup {top + size}, c) <=> IsFixed(h, E, c)

LEMMA SlabKeeps ==
  ASSUME NEW h, NEW E, NEW S, Good(h, E, S), NEW top \in E,
         Above(h, E, top), NEW size \in Nat, size > MinBlock
  PROVE  SlabAdded(h, WithNewSlab(h, top, size), E, S, top, size)
<1> DEFINE k == WithNewSlab(h, top, size)
           rest == size - Header
           end == top + rest
           F == E \cup {top + size}
           T == S \cup {top}
<1>0. (\A e \in E : e <= top) /\ \A b \in Dom(h) : b < top
  BY DEF Above
<1> USE <1>0
<1>1. top \in Nat /\ \A e \in E : e \in Nat
  BY DEF Good, Slabs
<1>2. /\ HasHeaders(k) /\ Dom(k) = Dom(h) \cup {top, end}
      /\ k.free = Append(h.free, top) /\ top \notin Dom(h)
      /\ end \notin Dom(h) /\ top < end /\ end \in Nat
      /\ Size(k, top) = rest /\ ~Taken(k, top)
      /\ TakenBefore(k, top) /\ Before(k, top) = 0
      /\ Size(k, end) = Header /\ Taken(k, end)
      /\ ~TakenBefore(k, end) /\ Before(k, end) = rest
      /\ \A c \in Dom(h) :
           /\ Size(k, c) = Size(h, c)
           /\ Taken(k, c) <=> Taken(h, c)
           /\ TakenBefore(k, c) <=> TakenBefore(h, c)
           /\ Before(k, c) = Before(h, c)
  BY <1>1, SlabFields
<1>3. /\ rest \in Nat \ {0} /\ rest >= MinBlock /\ end + Header = top + size
      /\ end < top + size /\ top < top + size /\ end \in Nat /\ top + size \in Nat
  BY <1>1, Places
<1> HIDE DEF k
<1>4. /\ After(k, top) = end /\ After(k, end) = top + size
      /\ \A c \in Dom(h) : After(k, c) = After(h, c)
  BY <1>2, <1>3 DEF After
<1> HIDE DEF end, rest
<1>5. \A c \in Dom(h) : /\ c \in Nat /\ After(h, c) \in Nat
                        /\ After(h, c) \in Dom(h) \cup E /\ After(h, c) <= top
  <2> SUFFICES ASSUME NEW c \in Dom(h)
               PROVE  /\ c \in Nat /\ After(h, c) \in Nat
                      /\ After(h, c) \in Dom(h) \cup E /\ After(h, c) <= top
    OBVIOUS
  <2>1. c \in Nat /\ After(h, c) \in Nat /\ After(h, c) \in Dom(h) \cup E
    BY DEF Good, Numbers, After, Divided
  <2> QED BY <2>1, <1>1
<1>below. ASSUME NEW c \in Dom(h) \cup E
      PROVE  c \in Nat /\ c <= top
  <2>1. CASE c \in Dom(h)
    <3>1. c \in Nat /\ c < top
      BY <2>1, <1>5
    <3> QED BY <3>1, <1>1
  <2>2. CASE c \in E
    BY <2>2, <1>1
  <2> QED BY <2>1, <2>2
<1>6. /\ top + size \notin Dom(h) /\ top + size \notin E
      /\ end \notin F /\ top + size # top
      /\ \A c \in Dom(h) : After(h, c) \in F <=> After(h, c) \in E
  <2>1. \A c \in Dom(h) \cup E : c \in Nat /\ c <= top
    BY <1>below
  <2>2. top + size \notin Dom(h) \cup E /\ end \notin E /\ end # top + size
    BY <2>1, <1>1, <1>2, <1>3
  <2>3. \A c \in Dom(h) : After(h, c) # top + size
    BY <1>1, <1>3, <1>5
  <2> QED BY <2>2, <2>3, <1>1, <1>3
<1>7. Numbers(k)
  BY <1>1, <1>2, <1>3, Places DEF Good, Numbers
<1>8. Divided(k, F)
  <2>1. \A c \in Dom(k) : After(k, c) \in Dom(k) \cup F
    BY <1>2, <1>4, <1>5
  <2>2. ASSUME NEW c \in Dom(h), NEW d \in Dom(k) \cup F,
               c < d, d < After(h, c)
        PROVE  FALSE
    <3>1. CASE d \in Dom(h) \cup E
      BY <3>1, <2>2 DEF Good, Divided
    <3>2. CASE d \in {top, end, top + size}
      BY <3>2, <2>2, <1>1, <1>2, <1>3, <1>5
    <3> QED BY <3>1, <3>2, <1>2, <2>2
  <2>3. ASSUME NEW d \in Dom(k) \cup F
        PROVE  ~(top < d /\ d < end) /\ ~(end < d /\ d < top + size)
    <3>1. CASE d \in Dom(h) \cup E
      <4>1. d \in Nat /\ d <= top
        BY <3>1, <1>below
      <4> QED BY <4>1, <1>1, <1>2, <1>3
    <3>2. CASE d \in {top, end, top + size}
      BY <3>2, <1>1, <1>2, <1>3, Places
    <3> QED BY <3>1, <3>2, <1>2, <2>3
  <2>4. \A c \in Dom(k) : c \in Dom(h) \/ c = top \/ c = end
    BY <1>2
  <2> HIDE DEF F
  <2> QED BY <2>1, <2>2, <2>3, <2>4, <1>4 DEF Divided
<1>9. Tags(k, F)
  <2>1. ASSUME NEW c \in Dom(k), After(k, c) \notin F
        PROVE  /\ TakenBefore(k, After(k, c)) <=> Taken(k, c)
               /\ ~Taken(k, c) => Before(k, After(k, c)) = Size(k, c)
    <3>1. CASE c = top
      BY <3>1, <1>2, <1>4
    <3>2. CASE c = end
      BY <3>2, <2>1, <1>4
    <3>3. CASE c \in Dom(h)
      <4>1. After(k, c) = After(h, c) /\ After(h, c) \in Dom(h)
            /\ After(h, c) \notin E
        BY <3>3, <2>1, <1>4, <1>5
      <4> QED BY <4>1, <3>3, <1>2 DEF Good, Tags
    <3> QED BY <3>1, <3>2, <3>3, <1>2
  <2>2. ASSUME NEW c \in Dom(k), ~TakenBefore(k, c)
        PROVE  \E p \in FreeOnes(k) : After(k, p) = c
    <3>1. CASE c = end
      BY <3>1, <1>2, <1>4 DEF FreeOnes
    <3>2. CASE c # end
      <4>1. c \in Dom(h) /\ ~TakenBefore(h, c)
        BY <2>2, <3>2, <1>2
      <4>2. PICK p \in FreeOnes(h) : After(h, p) = c
        BY <4>1 DEF Good, Tags
      <4> QED BY <4>2, <1>2, <1>4 DEF FreeOnes
    <3> QED BY <3>1, <3>2
  <2> QED BY <2>1, <2>2 DEF Tags
<1>10. Merged(k, F)
  <2> SUFFICES ASSUME NEW c \in FreeOnes(k)
               PROVE  /\ After(k, c) \in Dom(k) /\ After(k, c) \notin F
                      /\ Taken(k, After(k, c))
    BY DEF Merged
  <2>1. CASE c = top
    BY <2>1, <1>2, <1>4, <1>6
  <2>2. CASE c # top
    <3>1. c \in FreeOnes(h)
      BY <2>2, <1>2 DEF FreeOnes
    <3>2. c \in Dom(h) /\ After(h, c) \in Dom(h) /\ After(h, c) \notin E
          /\ Taken(h, After(h, c))
      BY <3>1 DEF Good, Merged, FreeOnes
    <3> HIDE DEF F
    <3> QED BY <3>2, <1>2, <1>4, <1>6
  <2> QED BY <2>1, <2>2
<1>11. /\ \A c \in Dom(h) : IsFixed(k, F, c) <=> IsFixed(h, E, c)
       /\ top # Mem1 /\ top # Mem2 /\ ~IsFixed(k, F, top) /\ IsFixed(k, F, end)
  <2>1. top # Mem1 /\ top # Mem2
    <3>1. SlabWords <= top
      BY DEF Good, Slabs
    <3> QED BY <3>1, <1>1, Places
  <2> QED BY <2>1, <1>4, <1>6 DEF IsFixed
<1>12. Sized(k, F)
  <2> HIDE DEF F
  <2> QED BY <1>2, <1>3, <1>11 DEF Good, Sized
<1>13. Guarded(k)
  BY <1>2 DEF Good, Guarded, FreeOnes
<1>14. Slabs(k, F, T)
  <2>1. SlabWords <= top + size
    <3>1. SlabWords <= top
      BY DEF Good, Slabs
    <3> QED BY <3>1, <1>1, <1>3, Places
  <2> QED BY <2>1, <1>2, <1>3 DEF Good, Slabs
<1>15. Lists(k.free, FreeOnes(k))
  <2>1. FreeOnes(k) = FreeOnes(h) \cup {top} /\ top \notin FreeOnes(h)
    BY <1>2 DEF FreeOnes
  <2> QED BY <1>2, <2>1, Appended DEF Good
<1>16. Good(k, F, T)
  <2> HIDE DEF F, T
  <2> QED BY <1>2, <1>7, <1>8, <1>9, <1>10, <1>12, <1>13, <1>14, <1>15 DEF Good
<1>17. Same(h, k, end) /\ top \in FreeOnes(k)
  BY <1>2 DEF Same, InUse, FreeOnes
<1>18. SlabAdded(h, k, E, S, top, size)
  BY <1>2, <1>4, <1>11, <1>16, <1>17 DEF SlabAdded, end, rest
<1> QED BY <1>18 DEF k
-----------------------------------------------------------------------------
(* Where the blocks are.                                                     *)
LEMMA TrimPlaces ==
  ASSUME NEW h, NEW E, NEW S, Good(h, E, S), NEW b \in Dom(h),
         ~IsFixed(h, E, b), NEW size \in Nat
  PROVE  \A c \in Dom(TrimAllocationToSize(h, b, size)) :
           c \in Dom(h) \/ c < After(h, b)
<1> DEFINE n == IF size < MinBlock THEN MinBlock ELSE size
           k == TrimAllocationToSize(h, b, size)
<1>1. n \in Nat /\ b \in Nat /\ Size(h, b) \in Nat
  BY Places DEF Good, Numbers
<1> HIDE DEF n
<1>2. CASE h.block[b].size <= n + MinBlock
  <2>1. k = h
    BY <1>2 DEF TrimAllocationToSize, n
  <2> QED BY <2>1
<1>3. CASE ~(h.block[b].size <= n + MinBlock)
  <2>1. Dom(k) = Dom(h) \cup {b + n}
    BY <1>3 DEF TrimAllocationToSize, n, Dom
  <2>2. b + n < After(h, b)
    BY <1>1, <1>3, Places DEF After, Size
  <2> QED BY <2>1, <2>2
<1> QED BY <1>2, <1>3

LEMMA FreePlaces ==
  ASSUME NEW h, NEW b, HasHeaders(h)
  PROVE  Dom(FreeBlock(h, b)) \subseteq Dom(h)
<1> DEFINE j == JoinFollowing(h, b)
           p == b - j.block[b].before
           whole == IF j.block[b].prevAllocated THEN b ELSE p
           freed == IF whole = b THEN MarkFree(j, b) ELSE GrowBlock(j, p, b)
           k == FreeBlock(h, b)
<1>1. j = [block |-> j.block, free |-> j.free] /\ Dom(j) \subseteq Dom(h)
  BY DEF JoinFollowing, Dom, HasHeaders
<1>2. k = IF getBlockAfter(h, b) = Head(h.free)
            THEN [freed EXCEPT !.free = StartingAt(@, whole)] ELSE freed
  BY DEF FreeBlock
<1> HIDE DEF j, k
<1>3. /\ freed = [block |-> freed.block, free |-> freed.free]
      /\ Dom(freed) \subseteq Dom(j)
  <2>1. /\ Dom(MarkFree(j, b)) = Dom(j)
        /\ MarkFree(j, b) = [block |-> MarkFree(j, b).block,
                             free |-> MarkFree(j, b).free]
    BY DEF MarkFree, Dom
  <2> HIDE DEF p
  <2>2. /\ Dom(GrowBlock(j, p, b)) \subseteq Dom(j)
        /\ GrowBlock(j, p, b) = [block |-> GrowBlock(j, p, b).block,
                                 free |-> GrowBlock(j, p, b).free]
    <3> DEFINE sum == j.block[p].size + j.block[b].size
               X == [a \in DOMAIN j.block \ {b} |->
                       IF a = p THEN [j.block[p] EXCEPT !.size = sum]
                       ELSE IF a = p + sum
                         THEN [j.block[a] EXCEPT !.prevAllocated = FALSE,
                                                 !.before = sum]
                       ELSE j.block[a]]
               g == GrowBlock(j, p, b)
    <3>1. g = [j EXCEPT !.block = X] /\ DOMAIN X \subseteq DOMAIN j.block
      BY DEF GrowBlock
    <3> HIDE DEF X, g
    <3>2. g = [block |-> X, free |-> j.free]
      BY <1>1, <3>1
    <3> QED BY <3>1, <3>2 DEF Dom, g
  <2> QED BY <2>1, <2>2
<1> HIDE DEF freed, whole
<1>4. Dom(k) = Dom(freed)
  BY <1>2, <1>3 DEF Dom
<1> QED BY <1>1, <1>3, <1>4 DEF k
-----------------------------------------------------------------------------
(* What clients hold.                                                        *)
Holder(h, E, g) ==
  /\ g \in [block : Nat, at : Nat, size : Nat, kind : Kinds]
  /\ InUse(h, g.block) /\ ~IsFixed(h, E, g.block)
  /\ g.block < g.at /\ g.at + g.size <= After(h, g.block)
  /\ g.kind = "function" => g.at = g.block + Header

Owned(h, E, K) ==
  /\ \A g \in K : Holder(h, E, g)
  /\ \A f, g \in K : f.block = g.block => f = g
  /\ \A c \in Nat : InUse(h, c) =>
       IsFixed(h, E, c) \/ \E g \in K : g.block = c

(* Only block b, and who holds it, has changed.                              *)
LEMMA OwnedAfter ==
  ASSUME NEW h, NEW k, NEW E, NEW F, NEW K, NEW L, NEW b,
         Owned(h, E, K), Same(h, k, b),
         \A c \in Nat : c # b /\ InUse(h, c) =>
           (IsFixed(k, F, c) <=> IsFixed(h, E, c)),
         \A g \in L : IF g.block = b THEN Holder(k, F, g) ELSE g \in K,
         \A g \in K : g.block # b => g \in L,
         \A f, g \in L : f.block = b /\ g.block = b => f = g,
         InUse(k, b) => IsFixed(k, F, b) \/ \E g \in L : g.block = b
  PROVE  Owned(k, F, L)
<1>1. ASSUME NEW g \in L
      PROVE  Holder(k, F, g)
  <2>1. CASE g.block = b
    BY <2>1
  <2>2. CASE g.block # b
    <3>1. g \in K /\ Holder(h, E, g) /\ g.block \in Nat
      BY <2>2 DEF Owned, Holder
    <3>2. /\ InUse(h, g.block) /\ InUse(k, g.block)
          /\ After(k, g.block) = After(h, g.block)
          /\ ~IsFixed(k, F, g.block)
      BY <3>1, <2>2 DEF Holder, Same, After
    <3> QED BY <3>1, <3>2 DEF Holder
  <2> QED BY <2>1, <2>2
<1>2. ASSUME NEW f \in L, NEW g \in L, f.block = g.block
      PROVE  f = g
  BY <1>2 DEF Owned
<1>3. ASSUME NEW c \in Nat, InUse(k, c)
      PROVE  IsFixed(k, F, c) \/ \E g \in L : g.block = c
  <2>1. CASE c = b
    BY <2>1, <1>3
  <2>2. CASE c # b
    <3>1. InUse(h, c)
      BY <2>2, <1>3 DEF Same
    <3> QED BY <3>1, <2>2 DEF Owned
  <2> QED BY <2>1, <2>2
<1> QED BY <1>1, <1>2, <1>3 DEF Owned

LEMMA FixedAfter ==
  ASSUME NEW h, NEW k, NEW E, NEW b, Same(h, k, b)
  PROVE  \A c \in Nat : c # b /\ InUse(h, c) =>
           (IsFixed(k, E, c) <=> IsFixed(h, E, c))
BY DEF Same, IsFixed, After

(* A free block is given to g.                                               *)
LEMMA OwnedGiven ==
  ASSUME NEW h, NEW k, NEW E, NEW K, NEW g, Owned(h, E, K),
         Same(h, k, g.block), ~InUse(h, g.block), Holder(k, E, g)
  PROVE  Owned(k, E, K \cup {g})
<1> DEFINE L == K \cup {g}
           b == g.block
<1>1. \A f \in K : f.block # b
  BY DEF Owned, Holder
<1>2. \A f \in L : IF f.block = b THEN Holder(k, E, f) ELSE f \in K
  BY <1>1
<1>3. \A f \in K : f.block # b => f \in L
  OBVIOUS
<1>4. \A e, f \in L : e.block = b /\ f.block = b => e = f
  BY <1>1
<1>5. \E f \in L : f.block = b
  OBVIOUS
<1> HIDE DEF L, b
<1>6. Same(h, k, b)
  BY DEF b
<1>7. Owned(k, E, L)
  BY <1>2, <1>3, <1>4, <1>5, <1>6, FixedAfter, OwnedAfter
<1> QED BY <1>7 DEF L

(* A block is free again.                                                    *)
LEMMA OwnedReturned ==
  ASSUME NEW h, NEW k, NEW E, NEW K, NEW g \in K, Owned(h, E, K),
         Same(h, k, g.block), ~InUse(k, g.block)
  PROVE  Owned(k, E, K \ {g})
<1> DEFINE L == K \ {g}
           b == g.block
<1>1. \A f \in L : f.block # b
  BY DEF Owned
<1>2. \A f \in L : IF f.block = b THEN Holder(k, E, f) ELSE f \in K
  BY <1>1
<1>3. \A f \in K : f.block # b => f \in L
  OBVIOUS
<1> HIDE DEF L, b
<1>4. Same(h, k, b) /\ ~InUse(k, b)
  BY DEF b
<1>5. Owned(k, E, L)
  BY <1>1, <1>2, <1>3, <1>4, FixedAfter, OwnedAfter
<1> QED BY <1>5 DEF L

(* Less of a block is held.                                                  *)
LEMMA OwnedTrimmed ==
  ASSUME NEW h, NEW k, NEW E, NEW K, NEW g \in K, NEW f, Owned(h, E, K),
         Same(h, k, g.block), f.block = g.block, Holder(k, E, f)
  PROVE  Owned(k, E, (K \ {g}) \cup {f})
<1> DEFINE L == (K \ {g}) \cup {f}
           b == g.block
<1>1. \A e \in K \ {g} : e.block # b
  BY DEF Owned
<1>2. \A e \in L : IF e.block = b THEN Holder(k, E, e) ELSE e \in K
  BY <1>1
<1>3. \A e \in K : e.block # b => e \in L
  OBVIOUS
<1>4. \A d, e \in L : d.block = b /\ e.block = b => d = e
  BY <1>1
<1>5. \E e \in L : e.block = b
  OBVIOUS
<1> HIDE DEF L, b
<1>6. Same(h, k, b)
  BY DEF b
<1>7. Owned(k, E, L)
  BY <1>2, <1>3, <1>4, <1>5, <1>6, FixedAfter, OwnedAfter
<1> QED BY <1>7 DEF L
-----------------------------------------------------------------------------
(* The inductive invariant.                                                  *)
Tops ==
  /\ slabEnds \in Seq(Nat) /\ slabEnds # <<>>
  /\ \A e \in Ends : e <= Last(slabEnds)
  /\ \A b \in Dom(heap) : b < Last(slabEnds)

(* What is being emitted has all of its block, and can be trimmed.           *)
Emitting ==
  emitting = {} \/ \E g \in held :
    emitting = {g.block} /\ g.kind = "function" /\ Taken(heap, After(heap, g.block))

IInv ==
  /\ Good(heap, Ends, Starts) /\ Tops /\ Owned(heap, Ends, held) /\ Emitting

(* What is left of it after the last call that is followed, the one of       *)
(* allocateSpace that gives less than it was asked for, or the last block.   *)
Placed(h, E, K) ==
  /\ \A g \in K :
       /\ g \in [block : Nat, at : Nat, size : Nat, kind : Kinds]
       /\ InUse(h, g.block) /\ g.block < g.at
       /\ g.kind # "space" => g.at + g.size <= After(h, g.block)
  /\ \A f, g \in K : f.block = g.block => f = g
  /\ \A c \in Nat : InUse(h, c) =>
       IsFixed(h, E, c) \/ \E g \in K : g.block = c

Remains ==
  /\ Shaped(heap, Ends, Starts) /\ Mem2 \in Dom(heap)
  /\ heap.free \in Seq(Dom(heap)) /\ heap.free # <<>>
  /\ ~Taken(heap, Mem2) => Lists(heap.free, FreeOnes(heap))
  /\ slabEnds \in Seq(Nat) /\ emitting \subseteq Dom(heap)
  /\ Placed(heap, Ends, held)

JInv == IInv \/ (Remains /\ ~Defined)

LEMMA FreeIsNotFixed ==
  ASSUME NEW h, NEW E, NEW S, Good(h, E, S), NEW b \in FreeOnes(h)
  PROVE  /\ b \in Dom(h) /\ b \in Nat /\ ~Taken(h, b) /\ ~IsFixed(h, E, b)
         /\ After(h, b) \in Dom(h) /\ Taken(h, After(h, b)) /\ After(h, b) # b
         /\ After(h, b) \in Nat /\ Size(h, b) \in Nat
BY DEF FreeOnes, Good, Sized, Merged, Numbers, After

(* A block that has been allocated can be trimmed.                           *)
LEMMA AllocatedBlock ==
  ASSUME NEW h, NEW E, NEW S, Good(h, E, S),
         NEW b \in FreeOnes(h), b # Mem2
  PROVE  LET k == AllocateBlock(h, b)
         IN /\ Good(k, E, S) /\ Same(h, k, b) /\ InUse(k, b)
            /\ b \in Dom(k) /\ Taken(k, b) /\ Dom(k) = Dom(h)
            /\ After(k, b) = After(h, b) /\ Taken(k, After(k, b))
            /\ ~IsFixed(k, E, b) /\ ~InUse(h, b)
<1> DEFINE k == AllocateBlock(h, b)
<1>1. /\ b \in Dom(h) /\ b \in Nat /\ ~Taken(h, b) /\ ~IsFixed(h, E, b)
      /\ After(h, b) \in Dom(h) /\ Taken(h, After(h, b)) /\ After(h, b) # b
      /\ After(h, b) \in Nat
  BY FreeIsNotFixed
<1>2. /\ Good(k, E, S) /\ Same(h, k, b) /\ InUse(k, b) /\ Dom(k) = Dom(h)
      /\ Size(k, b) = Size(h, b)
  BY AllocateKeeps
<1> HIDE DEF k
<1>3. After(k, b) = After(h, b)
  BY <1>2 DEF After
<1>4. Taken(k, After(k, b))
  BY <1>1, <1>2, <1>3 DEF Same, InUse
<1>5. ~IsFixed(k, E, b) /\ ~InUse(h, b)
  BY <1>1, <1>3 DEF IsFixed, InUse
<1> QED BY <1>1, <1>2, <1>3, <1>4, <1>5 DEF InUse, k

(* The block that is chosen is free and large enough, in one of the slabs    *)
(* or in a new one.                                                          *)
LEMMA CandidateKeeps ==
  ASSUME IInv, NEW size \in Nat, NEW b, NEW h, Candidate(size, h, b)
  PROVE  /\ Good(h, Ends', Starts') /\ Owned(h, Ends', held)
         /\ slabEnds' \in Seq(Nat) /\ slabEnds' # <<>>
         /\ \A e \in Ends' : e <= Last(slabEnds')
         /\ \A c \in Dom(h) : c < Last(slabEnds')
         /\ b \in FreeOnes(h) /\ b # Mem2 /\ b + size + Header <= After(h, b)
<1>1. /\ Good(heap, Ends, Starts) /\ Owned(heap, Ends, held)
      /\ slabEnds \in Seq(Nat) /\ slabEnds # <<>>
      /\ \A e \in Ends : e <= Last(slabEnds)
      /\ \A c \in Dom(heap) : c < Last(slabEnds)
  BY DEF IInv, Tops
<1>2. PICK c \in Largest(heap) :
        IF TooSmall(c, size)
          THEN /\ b = Last(slabEnds)
               /\ h = WithNewSlab(heap, b, SlabSize(size))
               /\ slabEnds' = Append(slabEnds, b + SlabSize(size))
          ELSE b = c /\ h = heap /\ UNCHANGED slabEnds
  BY DEF Candidate
<1>3. CASE ~TooSmall(c, size)
  <2>1. b = c /\ h = heap /\ slabEnds' = slabEnds
    BY <1>2, <1>3
  <2>2. b \in FreeOnes(heap)
    <3>1. PICK i \in 1..Len(heap.free) : b = heap.free[i]
      BY <2>1 DEF Largest
    <3> QED BY <1>1, <3>1 DEF Good, Lists
  <2>3. b \in Nat /\ Size(heap, b) \in Nat
    BY <1>1, <2>2, FreeIsNotFixed
  <2>4. Size(heap, b) - Header >= size /\ Size(heap, b) - Header > MinBlock
    BY <1>3, <2>1, <2>3, Places DEF TooSmall, Size
  <2>5. b # Mem2
    BY <1>1, <2>3, <2>4, Places DEF Good, Guarded
  <2>6. b + size + Header <= After(heap, b)
    BY <2>3, <2>4, Places DEF After
  <2>7. Ends' = Ends /\ Starts' = Starts
    BY <2>1 DEF Ends, Starts, SlabStart
  <2> QED BY <1>1, <2>1, <2>2, <2>5, <2>6, <2>7
<1>4. CASE TooSmall(c, size)
  <2> DEFINE top == Last(slabEnds)
             n == SlabSize(size)
             end == top + (n - Header)
  <2>1. b = top /\ h = WithNewSlab(heap, top, n)
        /\ slabEnds' = Append(slabEnds, top + n)
    BY <1>2, <1>4
  <2>2. n \in Nat /\ n > MinBlock /\ n - Header >= size + Header
    BY MemoryAssumption, Places DEF SlabSize
  <2>3. Len(slabEnds) \in Nat \ {0} /\ top \in Ends /\ top \in Nat
        /\ \A i \in 1..Len(slabEnds) : slabEnds[i] \in Nat
    BY <1>1 DEF Last, Ends
  <2> HIDE DEF n, top
  <2> DEFINE m == Len(slabEnds)
             F == Ends \cup {top + n}
             T == Starts \cup {top}
  <2>4. /\ Len(slabEnds') = m + 1 /\ slabEnds' \in Seq(Nat)
        /\ slabEnds'[m + 1] = top + n /\ m \in Nat \ {0} /\ top = slabEnds[m]
        /\ \A i \in 1..m : slabEnds'[i] = slabEnds[i]
    BY <1>1, <2>1, <2>2, <2>3 DEF Last, top
  <2>5. Ends' = F
    <3>1. /\ Ends' = {slabEnds'[i] : i \in 1..(m + 1)}
          /\ Ends = {slabEnds[i] : i \in 1..m}
      BY <2>4 DEF Ends
    <3> HIDE DEF m
    <3>2. \A i \in 1..(m + 1) : i \in 1..m \/ i = m + 1
      BY <2>4
    <3>3. 1..m \subseteq 1..(m + 1) /\ m + 1 \in 1..(m + 1)
      BY <2>4
    <3>4. Ends' \subseteq F
      BY <2>4, <3>1, <3>2
    <3>5. F \subseteq Ends'
      BY <2>4, <3>1, <3>3
    <3> QED BY <3>4, <3>5
  <2>6. Starts' = T
    <3> HIDE DEF m
    <3>0. \A i \in 1..(m + 1) :
            SlabStart(i)' = IF i = 1 THEN 0 ELSE slabEnds'[i - 1]
      BY DEF SlabStart
    <3>1. \A i \in 1..m : SlabStart(i)' = SlabStart(i)
      <4>1. \A i \in 1..m : i \in 1..(m + 1) /\ (i = 1 \/ i - 1 \in 1..m)
        BY <2>4
      <4> QED BY <2>4, <3>0, <4>1 DEF SlabStart
    <3>2. ASSUME NEW i \in 1..(m + 1), i = m + 1
          PROVE  SlabStart(i)' = top
      <4>1. i # 1 /\ i - 1 = m /\ m \in 1..m
        BY <2>4, <3>2
      <4> QED BY <2>4, <3>0, <4>1
    <3>3. /\ Starts' = {SlabStart(i)' : i \in 1..(m + 1)}
          /\ Starts = {SlabStart(i) : i \in 1..m}
      BY <2>4 DEF Starts, m
    <3>4. \A i \in 1..(m + 1) : i \in 1..m \/ i = m + 1
      BY <2>4
    <3>5. 1..m \subseteq 1..(m + 1) /\ m + 1 \in 1..(m + 1)
      BY <2>4
    <3>6. Starts' \subseteq T
      BY <3>1, <3>2, <3>3, <3>4
    <3>7. T \subseteq Starts'
      BY <3>1, <3>2, <3>3, <3>5
    <3> QED BY <3>6, <3>7
  <2>7. /\ Good(h, Ends', Starts') /\ Same(heap, h, end)
        /\ Dom(h) = Dom(heap) \cup {top, end}
        /\ After(h, top) = end /\ top \in FreeOnes(h)
        /\ top # Mem2 /\ After(h, end) = top + n
        /\ \A d \in Dom(heap) : IsFixed(h, Ends', d) <=> IsFixed(heap, Ends, d)
    <3> DEFINE k == WithNewSlab(heap, top, n)
    <3>1. /\ Good(heap, Ends, Starts) /\ top \in Ends /\ n \in Nat
          /\ n > MinBlock /\ Above(heap, Ends, top)
      BY <1>1, <2>2, <2>3 DEF top, Above
    <3>2. SlabAdded(heap, k, Ends, Starts, top, n)
      BY <3>1, SlabKeeps
    <3> HIDE DEF k
    <3>3. /\ Good(k, F, T) /\ Same(heap, k, end)
          /\ Dom(k) = Dom(heap) \cup {top, end}
          /\ After(k, top) = end /\ top \in FreeOnes(k)
          /\ top # Mem2 /\ After(k, end) = top + n
          /\ \A d \in Dom(heap) : IsFixed(k, F, d) <=> IsFixed(heap, Ends, d)
      BY <3>2 DEF SlabAdded
    <3> HIDE DEF k, F, T, end
    <3> QED BY <2>1, <2>5, <2>6, <3>3 DEF k
  <2>8. Owned(h, Ends', held)
    <3>1. IsFixed(h, Ends', end) /\ end \notin Dom(heap)
      BY <1>1, <2>2, <2>3, <2>5, <2>7, Places DEF IsFixed, top
    <3>2. \A g \in held : g.block # end
      BY <1>1, <3>1 DEF Owned, Holder, InUse
    <3> HIDE DEF end
    <3>3. \A d \in Nat : d # end /\ InUse(heap, d) =>
            (IsFixed(h, Ends', d) <=> IsFixed(heap, Ends, d))
      BY <2>7 DEF InUse
    <3> QED BY <1>1, <2>7, <3>1, <3>2, <3>3, OwnedAfter
  <2>9. slabEnds' # <<>> /\ Last(slabEnds') = top + n
    BY <2>3, <2>4 DEF Last
  <2>10. \A e \in Ends' : e <= Last(slabEnds')
    <3>1. \A e \in Ends : e \in Nat /\ e <= top
      BY <1>1, <2>3 DEF Ends, top
    <3> QED BY <2>2, <2>3, <2>5, <2>9, <3>1
  <2>11. \A d \in Dom(h) : d < Last(slabEnds')
    <3>1. \A d \in Dom(heap) : d \in Nat /\ d < top
      BY <1>1 DEF top, Good, Numbers
    <3>2. end < top + n /\ top < top + n
      BY <2>2, <2>3, Places
    <3> HIDE DEF end
    <3> QED BY <2>2, <2>3, <2>7, <2>9, <3>1, <3>2
  <2>12. b + size + Header <= After(h, b)
    BY <2>1, <2>2, <2>3, <2>7, Places DEF After
  <2> QED BY <2>1, <2>4, <2>7, <2>8, <2>9, <2>10, <2>11, <2>12
<1> QED BY <1>3, <1>4
-----------------------------------------------------------------------------
LEMMA StartKeeps ==
  ASSUME IInv, NEW size \in Requests, startFunctionBody(size)
  PROVE  IInv'
<1>1. PICK b, h :
        /\ Candidate(size, h, b) /\ emitting' = {b}
        /\ heap' = AllocateBlock(h, b)
        /\ held' = held \cup {Give(b, b + Header, h.block[b].size - Header, "function")}
  BY DEF startFunctionBody
<1> DEFINE k == heap'
           E == Ends'
           S == Starts'
           g == Give(b, b + Header, Size(h, b) - Header, "function")
<1>2. /\ Good(h, E, S) /\ Owned(h, E, held)
      /\ slabEnds' \in Seq(Nat) /\ slabEnds' # <<>>
      /\ \A e \in E : e <= Last(slabEnds')
      /\ \A c \in Dom(h) : c < Last(slabEnds')
      /\ b \in FreeOnes(h) /\ b # Mem2 /\ b + size + Header <= After(h, b)
      /\ size \in Nat
  BY <1>1, CandidateKeeps, MemoryAssumption
<1>3. /\ Good(k, E, S) /\ Same(h, k, b) /\ InUse(k, b)
      /\ b \in Dom(k) /\ Taken(k, b) /\ Dom(k) = Dom(h)
      /\ After(k, b) = After(h, b) /\ Taken(k, After(k, b))
      /\ ~IsFixed(k, E, b) /\ ~InUse(h, b)
  <2> HIDE DEF E, S
  <2> QED BY <1>1, <1>2, AllocatedBlock
<1>4. b \in Nat /\ Size(h, b) \in Nat /\ After(h, b) = b + Size(h, b)
  BY <1>2, FreeIsNotFixed DEF After
<1>5. held' = held \cup {g}
  BY <1>1 DEF Size
<1>6. /\ g.block = b /\ g.at = b + Header /\ g.size = Size(h, b) - Header
      /\ g.kind = "function"
      /\ g = [block |-> g.block, at |-> g.at, size |-> g.size, kind |-> g.kind]
  BY DEF Give, Kinds
<1> HIDE DEF g, k, E, S
<1>7. Holder(k, E, g)
  <2>1. /\ g.size \in Nat /\ g.at \in Nat /\ g.at > b
        /\ g.at + g.size = After(k, b)
    <3> DEFINE x == Size(h, b)
    <3>1. x \in Nat /\ After(k, b) = b + x /\ b + size + Header <= b + x
      BY <1>2, <1>3, <1>4
    <3>2. g.size = x - Header /\ g.at = b + Header /\ Header = 1 /\ size \in Nat
      BY <1>2, <1>6, Places
    <3> HIDE DEF x
    <3> QED BY <3>1, <3>2, <1>4
  <2>2. g \in [block : Nat, at : Nat, size : Nat, kind : Kinds]
    BY <2>1, <1>4, <1>6 DEF Kinds
  <2> QED BY <2>1, <2>2, <1>3, <1>6 DEF Holder
<1>8. Owned(k, E, held')
  BY <1>2, <1>3, <1>5, <1>6, <1>7, OwnedGiven
<1>9. Tops'
  BY <1>2, <1>3 DEF Tops, k, E
<1>10. Emitting'
  <2>1. g \in held' /\ emitting' = {g.block}
    BY <1>1, <1>5, <1>6
  <2> QED BY <2>1, <1>3, <1>6 DEF Emitting, k
<1> QED BY <1>3, <1>8, <1>9, <1>10 DEF IInv, k, E, S

LEMMA EndKeeps ==
  ASSUME IInv, NEW size \in Sizes \cup Whole, endFunctionBody(size)
  PROVE  IInv'
<1>1. PICK g \in held :
        /\ g.block \in emitting /\ size <= g.size
        /\ held' = (held \ {g}) \cup {[g EXCEPT !.size = size]}
        /\ heap' = TrimAllocationToSize(heap, g.block, size + Header)
        /\ emitting' = {} /\ slabEnds' = slabEnds
  BY DEF endFunctionBody
<1> DEFINE b == g.block
           k == heap'
           f == [g EXCEPT !.size = size]
<1>2. Good(heap, Ends, Starts) /\ Owned(heap, Ends, held)
  BY DEF IInv
<1>3. size \in Nat
  BY <1>2, MemoryAssumption DEF Whole, Owned, Holder
<1>4. /\ Holder(heap, Ends, g) /\ g.kind = "function" /\ Taken(heap, After(heap, b))
  <2>1. PICK e \in held : /\ emitting = {e.block} /\ e.kind = "function"
                          /\ Taken(heap, After(heap, e.block))
    BY <1>1 DEF IInv, Emitting
  <2>2. e = g
    BY <1>1, <1>2, <2>1 DEF Owned
  <2> QED BY <1>2, <2>1, <2>2 DEF Owned
<1>5. /\ g \in [block : Nat, at : Nat, size : Nat, kind : Kinds]
      /\ b \in Nat /\ b \in Dom(heap) /\ Taken(heap, b)
      /\ ~IsFixed(heap, Ends, b) /\ g.at = b + Header
      /\ g.at + g.size <= After(heap, b) /\ After(heap, b) \in Nat
  BY <1>2, <1>4 DEF Holder, InUse, Good, Numbers, After
<1>6. /\ f.block = b /\ f.at = b + Header /\ f.size = size /\ f.kind = "function"
      /\ f \in [block : Nat, at : Nat, size : Nat, kind : Kinds]
  BY <1>3, <1>4, <1>5
<1>7. size + Header \in Nat /\ b + (size + Header) <= After(heap, b)
  <2>1. g.size \in Nat
    BY <1>5
  <2> QED BY <2>1, <1>1, <1>3, <1>5, Places
<1> HIDE DEF f, b
<1>8. k = TrimAllocationToSize(heap, b, size + Header)
  BY <1>1 DEF b
<1> HIDE DEF k
<1>9. /\ Good(k, Ends, Starts) /\ Same(heap, k, b) /\ InUse(k, b)
      /\ ~IsFixed(k, Ends, b) /\ b + (size + Header) <= After(k, b)
  BY <1>2, <1>4, <1>5, <1>7, <1>8, TrimKeeps DEF b
<1>10. Holder(k, Ends, f)
  <2>1. After(k, b) \in Nat
    BY <1>5, <1>9 DEF InUse, Good, Numbers, After
  <2>2. f.block < f.at /\ f.at + f.size <= After(k, f.block)
    BY <2>1, <1>3, <1>5, <1>6, <1>9, Places
  <2> QED BY <2>2, <1>6, <1>9 DEF Holder
<1>11. Owned(k, Ends, (held \ {g}) \cup {f})
  BY <1>2, <1>6, <1>9, <1>10, OwnedTrimmed DEF b
<1>12. Ends' = Ends /\ Starts' = Starts
  BY <1>1 DEF Ends, Starts, SlabStart
<1>13. Tops'
  <2>1. Tops
    BY DEF IInv
  <2>2. \A c \in Dom(k) : c \in Dom(heap) \/ c < After(heap, b)
    BY <1>2, <1>5, <1>7, <1>8, TrimPlaces
  <2>3. /\ After(heap, b) \in Nat /\ After(heap, b) <= Last(slabEnds)
        /\ Last(slabEnds) \in Nat
    <3>1. After(heap, b) \in Dom(heap)
      BY <1>2, <1>5 DEF Good, Divided, IsFixed
    <3>2. Last(slabEnds) \in Nat
      BY <2>1 DEF Tops, Last
    <3> QED BY <2>1, <1>5, <3>1, <3>2 DEF Tops
  <2>4. \A c \in Dom(k) : c < Last(slabEnds)
    <3>1. \A c \in Dom(k) : c \in Nat
      BY <1>9 DEF Good, Numbers
    <3> QED BY <2>1, <2>2, <2>3, <3>1 DEF Tops
  <2> QED BY <2>1, <2>4, <1>1, <1>12 DEF Tops, k
<1>14. Emitting'
  BY <1>1 DEF Emitting
<1> QED BY <1>1, <1>9, <1>11, <1>12, <1>13, <1>14 DEF IInv, k, f
-----------------------------------------------------------------------------
(* A block is allocated and what is not needed of it is split off.           *)
LEMMA GivenPart ==
  ASSUME NEW h, NEW E, NEW S, NEW K, Good(h, E, S), Owned(h, E, K),
         NEW b \in FreeOnes(h), b # Mem2, NEW n \in Nat, b + n <= After(h, b),
         NEW g \in [block : Nat, at : Nat, size : Nat, kind : Kinds],
         g.block = b, b < g.at, g.at + g.size <= b + n, g.kind # "function",
         NEW top \in Nat, \A c \in Dom(h) : c < top
  PROVE  LET k == TrimAllocationToSize(AllocateBlock(h, b), b, n)
         IN /\ Good(k, E, S) /\ Owned(k, E, K \cup {g})
            /\ \A c \in Dom(k) : c < top
<1> DEFINE j == AllocateBlock(h, b)
           k == TrimAllocationToSize(j, b, n)
<1>1. /\ Good(j, E, S) /\ Same(h, j, b) /\ InUse(j, b)
      /\ b \in Dom(j) /\ Taken(j, b) /\ Dom(j) = Dom(h)
      /\ After(j, b) = After(h, b) /\ Taken(j, After(j, b))
      /\ ~IsFixed(j, E, b) /\ ~InUse(h, b)
  BY AllocatedBlock
<1>2. After(h, b) \in Dom(h) /\ After(h, b) \in Nat /\ b \in Nat
  BY FreeIsNotFixed
<1> HIDE DEF j
<1>3. /\ Good(k, E, S) /\ Same(j, k, b) /\ InUse(k, b)
      /\ ~IsFixed(k, E, b) /\ b + n <= After(k, b)
  BY <1>1, TrimKeeps
<1>4. \A c \in Dom(k) : c \in Dom(h) \/ c < After(h, b)
  BY <1>1, TrimPlaces
<1> HIDE DEF k
<1>5. After(k, b) \in Nat
  BY <1>2, <1>3 DEF InUse, Good, Numbers, After
<1>6. Holder(k, E, g)
  <2>1. g.at + g.size <= After(k, b)
    <3>1. g.at + g.size \in Nat
      OBVIOUS
    <3> QED BY <3>1, <1>2, <1>3, <1>5
  <2> QED BY <2>1, <1>3 DEF Holder
<1>7. Same(h, k, b)
  BY <1>1, <1>3 DEF Same
<1>8. Owned(k, E, K \cup {g})
  BY <1>1, <1>6, <1>7, OwnedGiven
<1>9. \A c \in Dom(k) : c < top
  <2>1. \A c \in Dom(k) : c \in Nat
    BY <1>3 DEF Good, Numbers
  <2> QED BY <2>1, <1>2, <1>4
<1> QED BY <1>3, <1>8, <1>9 DEF k, j

LEMMA SectionKeeps ==
  ASSUME IInv, NEW size \in Sizes, allocateCodeSection(size)
  PROVE  IInv'
<1>1. PICK b, h :
        /\ Candidate(size + Header, h, b) /\ emitting = {} /\ emitting' = {}
        /\ heap' = TrimAllocationToSize(AllocateBlock(h, b), b, size + Header)
        /\ held' = held \cup {Give(b, b + Header, size, "section")}
  BY DEF allocateCodeSection
<1> DEFINE E == Ends'
           S == Starts'
           g == Give(b, b + Header, size, "section")
           n == size + Header
           top == Last(slabEnds')
<1>2. size \in Nat /\ n \in Nat
  BY MemoryAssumption, Places
<1>3. /\ Good(h, E, S) /\ Owned(h, E, held)
      /\ slabEnds' \in Seq(Nat) /\ slabEnds' # <<>>
      /\ \A e \in E : e <= top
      /\ \A c \in Dom(h) : c < top
      /\ b \in FreeOnes(h) /\ b # Mem2 /\ b + n + Header <= After(h, b)
  BY <1>1, <1>2, CandidateKeeps
<1>4. b \in Nat /\ After(h, b) \in Nat
  BY <1>3, FreeIsNotFixed
<1>5. b + n <= After(h, b)
  BY <1>2, <1>3, <1>4, Places
<1>6. /\ g.block = b /\ b < g.at /\ g.at + g.size <= b + n /\ g.kind # "function"
      /\ g \in [block : Nat, at : Nat, size : Nat, kind : Kinds]
  BY <1>2, <1>4, Places DEF Give, Kinds
<1>7. top \in Nat
  BY <1>3 DEF Last
<1>8. heap' = TrimAllocationToSize(AllocateBlock(h, b), b, n)
      /\ held' = held \cup {g}
  BY <1>1
<1> HIDE DEF E, S, g, n, top
<1>9. /\ Good(heap', E, S) /\ Owned(heap', E, held')
      /\ \A c \in Dom(heap') : c < top
  BY <1>2, <1>3, <1>5, <1>6, <1>7, <1>8, GivenPart
<1> QED BY <1>1, <1>3, <1>9 DEF IInv, Tops, Emitting, E, S, top

LEMMA Division ==
  ASSUME NEW x \in Nat, NEW n \in Nat \ {0}
  PROVE  x % n \in 0..(n - 1) /\ x \div n \in Nat /\ x = n * (x \div n) + (x % n)
OBVIOUS

LEMMA RoundedUp ==
  ASSUME NEW a \in Nat, NEW alignment \in Nat \ {0}
  PROVE  RoundUp(a, alignment) \in Nat /\ RoundUp(a, alignment) >= a
<1> DEFINE x == a + alignment - 1
           q == x \div alignment
           r == x % alignment
<1>1. x \in Nat
  OBVIOUS
<1>2. r \in 0..(alignment - 1) /\ q \in Nat /\ x = alignment * q + r
  BY <1>1, Division
<1>3. RoundUp(a, alignment) = alignment * q
  BY <1>2 DEF RoundUp
<1> DEFINE y == alignment * q
<1>4. y \in Nat
  BY <1>2
<1> HIDE DEF y
<1>5. x = y + r
  BY <1>2 DEF y
<1> HIDE DEF r
<1>6. y >= a
  BY <1>2, <1>4, <1>5
<1> QED BY <1>3, <1>4, <1>6 DEF y

(* The head of the list holds the space that is asked for.                   *)
LEMMA SpaceKeeps ==
  ASSUME IInv, NEW size \in Sizes, NEW alignment \in Alignments,
         allocateSpace(size, alignment),
         RoundUp(Head(heap.free) + Header, alignment) + size
           <= getBlockAfter(heap, Head(heap.free)),
         Head(heap.free) # Mem2
  PROVE  IInv'
<1> DEFINE b == Head(heap.free)
           result == RoundUp(b + Header, alignment)
           n == result + size - b
           g == Give(b, result, size, "space")
           top == Last(slabEnds)
<1>1. /\ emitting = {} /\ emitting' = {} /\ slabEnds' = slabEnds
      /\ result + size <= getBlockAfter(heap, b) /\ b # Mem2
      /\ heap' = TrimAllocationToSize(AllocateBlock(heap, b), b, n)
      /\ held' = held \cup {g}
  BY DEF allocateSpace
<1>2. size \in Nat /\ alignment \in Nat \ {0}
  BY MemoryAssumption
<1>3. Good(heap, Ends, Starts) /\ Owned(heap, Ends, held) /\ Tops
  BY DEF IInv
<1>4. b \in FreeOnes(heap)
  <2>1. b = heap.free[1] /\ 1 \in 1..Len(heap.free)
    BY <1>3 DEF Good, Lists
  <2> QED BY <1>3, <2>1 DEF Good, Lists
<1> HIDE DEF b
<1>5. b \in Nat /\ After(heap, b) \in Nat
  BY <1>3, <1>4, FreeIsNotFixed
<1>6. result \in Nat /\ result >= b + Header
  <2>1. b + Header \in Nat
    BY <1>5, Places
  <2> HIDE DEF result
  <2> QED BY <2>1, <1>2, RoundedUp DEF result
<1> HIDE DEF result
<1>7. n \in Nat /\ b + n = result + size
  BY <1>2, <1>5, <1>6, Places
<1>8. b + n <= After(heap, b)
  BY <1>1, <1>7 DEF getBlockAfter, After, Size
<1>9. /\ g.block = b /\ b < g.at /\ g.at + g.size <= b + n /\ g.kind # "function"
      /\ g \in [block : Nat, at : Nat, size : Nat, kind : Kinds]
  <2>1. /\ g.block = b /\ g.at = result /\ g.size = size /\ g.kind # "function"
        /\ g \in [block : Nat, at : Nat, size : Nat, kind : Kinds]
    BY <1>2, <1>5, <1>6 DEF Give, Kinds
  <2> HIDE DEF g, n
  <2> QED BY <2>1, <1>2, <1>5, <1>6, <1>7, Places
<1>10. top \in Nat /\ \A c \in Dom(heap) : c < top
  BY <1>3 DEF Tops, Last
<1> HIDE DEF g, n, top
<1>11. /\ Good(heap', Ends, Starts) /\ Owned(heap', Ends, held')
       /\ \A c \in Dom(heap') : c < top
  BY <1>1, <1>3, <1>4, <1>7, <1>8, <1>9, <1>10, GivenPart
<1>12. Ends' = Ends /\ Starts' = Starts
  BY <1>1 DEF Ends, Starts, SlabStart
<1> QED BY <1>1, <1>3, <1>11, <1>12 DEF IInv, Tops, Emitting, top

(* The head of the list does not hold the space, or is the last block that   *)
(* keeps the list from becoming empty: all of it is given, and no header but *)
(* those of the block and of the next one changes.                           *)
LEMMA OnlyOne ==
  ASSUME NEW s, NEW F, Lists(s, F), NEW b \in F
  PROVE  /\ RemoveFromFreeList(s, b) \in Seq(F)
         /\ RemoveFromFreeList(s, b) # <<>>
<1>1. CASE F # {b}
  <2>1. Lists(RemoveFromFreeList(s, b), F \ {b})
    BY <1>1, Removed
  <2>2. F \ {b} \subseteq F
    OBVIOUS
  <2> QED BY <2>1, <2>2, SeqMonotonic DEF Lists
<1>2. CASE F = {b}
  <2>1. Len(s) \in Nat \ {0} /\ s \in Seq(F) /\ s # <<>>
    BY DEF Lists
  <2>2. \A i \in 1..Len(s) : s[i] = b
    BY <2>1, <1>2
  <2>3. Len(s) = 1
    <3>1. 1 \in 1..Len(s) /\ Len(s) \in 1..Len(s)
      BY <2>1
    <3> QED BY <2>2, <3>1 DEF Lists
  <2> QED BY <2>1, <2>3 DEF RemoveFromFreeList
<1> QED BY <1>1, <1>2

LEMMA SpaceEnds ==
  ASSUME IInv, NEW size \in Sizes, NEW alignment \in Alignments,
         allocateSpace(size, alignment),
         ~(/\ RoundUp(Head(heap.free) + Header, alignment) + size
                <= getBlockAfter(heap, Head(heap.free))
           /\ Head(heap.free) # Mem2)
  PROVE  Remains' /\ ~Defined'
<1> DEFINE b == Head(heap.free)
           result == RoundUp(b + Header, alignment)
           n == result + size - b
           g == Give(b, result, size, "space")
           j == AllocateBlock(heap, b)
<1>1. /\ emitting = {} /\ emitting' = {} /\ slabEnds' = slabEnds
      /\ ~(result + size <= getBlockAfter(heap, b) /\ b # Mem2)
      /\ heap' = TrimAllocationToSize(j, b, n)
      /\ held' = held \cup {g}
  BY DEF allocateSpace
<1>2. size \in Nat /\ alignment \in Nat \ {0}
  BY MemoryAssumption
<1>3. Good(heap, Ends, Starts) /\ Owned(heap, Ends, held) /\ Tops
  BY DEF IInv
<1>4. b \in FreeOnes(heap)
  <2>1. b = heap.free[1] /\ 1 \in 1..Len(heap.free)
    BY <1>3 DEF Good, Lists
  <2> QED BY <1>3, <2>1 DEF Good, Lists
<1> HIDE DEF b
<1>5. b \in Nat /\ After(heap, b) \in Nat /\ Size(heap, b) \in Nat
      /\ ~Taken(heap, b) /\ After(heap, b) = b + Size(heap, b)
  BY <1>3, <1>4, FreeIsNotFixed DEF After
<1>6. result \in Nat /\ result >= b + Header
  <2>1. b + Header \in Nat
    BY <1>5, Places
  <2> HIDE DEF result
  <2> QED BY <2>1, <1>2, RoundedUp DEF result
<1> HIDE DEF result
<1>7. n \in Nat /\ b + n = result + size
  BY <1>2, <1>5, <1>6, Places
<1>8. /\ Shaped(j, Ends, Starts) /\ Same(heap, j, b) /\ InUse(j, b)
      /\ Dom(j) = Dom(heap) /\ FreeOnes(j) = FreeOnes(heap) \ {b}
      /\ j.free = RemoveFromFreeList(heap.free, b)
      /\ \A c \in Dom(heap) : Size(j, c) = Size(heap, c)
  BY <1>3, <1>4, AllocateShapes
<1> HIDE DEF j, n
<1>9. heap' = j
  <2>1. Size(j, b) = Size(heap, b)
    BY <1>4, <1>8 DEF FreeOnes
  <2>2. b = Mem2 => Size(heap, b) = MinBlock
    BY <1>3 DEF Good, Guarded
  <2>3. b # Mem2 => n > Size(heap, b)
    BY <1>1, <1>2, <1>5, <1>6, <1>7 DEF getBlockAfter, After, Size
  <2>4. j.block[b].size <= (IF n < MinBlock THEN MinBlock ELSE n) + MinBlock
    <3> DEFINE x == Size(heap, b)
    <3>1. x \in Nat /\ j.block[b].size = x
      BY <1>5, <2>1 DEF Size
    <3> HIDE DEF x
    <3> QED BY <3>1, <1>7, <2>2, <2>3, Places DEF x
  <2> QED BY <1>1, <2>4 DEF TrimAllocationToSize
<1>10. /\ g.block = b /\ b < g.at /\ g.kind = "space" /\ g.at + g.size = b + n
       /\ g \in [block : Nat, at : Nat, size : Nat, kind : Kinds]
  <2>1. /\ g.block = b /\ g.at = result /\ g.size = size /\ g.kind = "space"
        /\ g \in [block : Nat, at : Nat, size : Nat, kind : Kinds]
    BY <1>2, <1>5, <1>6 DEF Give, Kinds
  <2> HIDE DEF g
  <2> QED BY <2>1, <1>2, <1>5, <1>6, <1>7, Places
<1> HIDE DEF g
<1>11. Ends' = Ends /\ Starts' = Starts
  BY <1>1 DEF Ends, Starts, SlabStart
<1>12. Placed(j, Ends, held \cup {g})
  <2>1. \A f \in held : f.block # b /\ f.block \in Nat
    BY <1>3, <1>5 DEF Owned, Holder, InUse
  <2>2. ASSUME NEW f \in held
        PROVE  /\ f \in [block : Nat, at : Nat, size : Nat, kind : Kinds]
               /\ InUse(j, f.block) /\ f.block < f.at
               /\ f.at + f.size <= After(j, f.block)
    BY <2>1, <1>3, <1>8 DEF Owned, Holder, Same, After
  <2>3. \A e, f \in held \cup {g} : e.block = f.block => e = f
    BY <2>1, <1>3, <1>10 DEF Owned
  <2>4. ASSUME NEW c \in Nat, InUse(j, c)
        PROVE  IsFixed(j, Ends, c) \/ \E f \in held \cup {g} : f.block = c
    <3>1. CASE c = b
      BY <3>1, <1>10
    <3>2. CASE c # b
      <4>1. InUse(heap, c) /\ (IsFixed(j, Ends, c) <=> IsFixed(heap, Ends, c))
        BY <3>2, <2>4, <1>8, FixedAfter DEF Same
      <4> QED BY <4>1, <1>3 DEF Owned
    <3> QED BY <3>1, <3>2
  <2> QED BY <2>2, <2>3, <2>4, <1>8, <1>10 DEF Placed
<1>13. /\ j.free \in Seq(Dom(j)) /\ j.free # <<>>
       /\ ~Taken(j, Mem2) => Lists(j.free, FreeOnes(j))
  <2>1. Lists(heap.free, FreeOnes(heap)) /\ Mem2 \in FreeOnes(heap)
    BY <1>3 DEF Good, Guarded
  <2>2. j.free \in Seq(FreeOnes(heap)) /\ j.free # <<>>
    BY <1>4, <1>8, <2>1, OnlyOne
  <2>3. FreeOnes(heap) \subseteq Dom(j)
    BY <1>8 DEF FreeOnes
  <2>4. ~Taken(j, Mem2) => b # Mem2
    BY <1>8 DEF InUse
  <2>5. b # Mem2 => FreeOnes(heap) # {b}
    BY <2>1
  <2>6. b # Mem2 => Lists(j.free, FreeOnes(j))
    BY <1>4, <1>8, <2>1, <2>5, Removed
  <2> QED BY <2>2, <2>3, <2>4, <2>6, SeqMonotonic
<1>14. Mem2 \in Dom(j)
  BY <1>3, <1>8 DEF Good, Guarded, FreeOnes
<1>15. Remains'
  BY <1>1, <1>3, <1>8, <1>9, <1>11, <1>12, <1>13, <1>14 DEF Remains, Tops
<1>16. ~Defined'
  <2>1. CASE b = Mem2
    BY <2>1, <1>8, <1>9 DEF Defined, InUse, Taken
  <2>2. CASE b # Mem2
    <3>1. ~(b + n <= getBlockAfter(heap, b))
      BY <2>2, <1>1, <1>7
    <3>2. getBlockAfter(heap', b) = getBlockAfter(heap, b)
      BY <1>4, <1>8, <1>9 DEF getBlockAfter, Size, FreeOnes
    <3>3. g \in held' /\ g.block = b /\ g.at + g.size = b + n
      BY <1>1, <1>10
    <3>4. ~(g.at + g.size <= getBlockAfter(heap', g.block))
      BY <3>1, <3>2, <3>3
    <3>5. g \in held' /\ Defined' =>
            g.at + g.size <= getBlockAfter(heap', g.block)
      BY DEF Defined
    <3> QED BY <3>3, <3>4, <3>5
  <2> QED BY <2>1, <2>2
<1> QED BY <1>15, <1>16

LEMMA DeallocateKeeps ==
  ASSUME IInv, NEW g \in held, deallocateBlock(g)
  PROVE  IInv'
<1> DEFINE b == g.block
           k == FreeBlock(heap, b)
<1>1. /\ emitting = {} /\ emitting' = {} /\ slabEnds' = slabEnds /\ g.kind = "function"
      /\ heap' = FreeBlock(heap, g.at - Header) /\ held' = held \ {g}
  BY DEF deallocateBlock
<1>2. Good(heap, Ends, Starts) /\ Owned(heap, Ends, held) /\ Tops
  BY DEF IInv
<1>3. /\ b \in Nat /\ InUse(heap, b) /\ ~IsFixed(heap, Ends, b)
      /\ g.at = b + Header
  BY <1>1, <1>2 DEF Owned, Holder
<1>4. g.at - Header = b
  BY <1>3, Places
<1>5. heap' = k
  BY <1>1, <1>4
<1>6. Good(k, Ends, Starts) /\ Same(heap, k, b) /\ ~InUse(k, b)
  BY <1>2, <1>3, FreeKeeps DEF InUse
<1>7. Dom(k) \subseteq Dom(heap)
  BY <1>2, FreePlaces DEF Good
<1> HIDE DEF k
<1>8. Owned(k, Ends, held \ {g})
  BY <1>2, <1>6, OwnedReturned
<1>9. Ends' = Ends /\ Starts' = Starts
  BY <1>1 DEF Ends, Starts, SlabStart
<1> QED BY <1>1, <1>2, <1>5, <1>6, <1>7, <1>8, <1>9 DEF IInv, Tops, Emitting
-----------------------------------------------------------------------------
LEMMA InitHolds == Init => IInv
<1> SUFFICES ASSUME Init PROVE IInv
  OBVIOUS
<1> DEFINE h == heap
           E == Ends
           S == Starts
<1>1. /\ Mem0 = 0 /\ Mem0 < Mem1 /\ Mem1 < Mem2 /\ Mem2 < Mem3
      /\ Mem3 < SlabWords /\ Mem1 \in Nat /\ Mem2 \in Nat /\ Mem3 \in Nat
      /\ SlabWords \in Nat /\ Mem1 > MinBlock /\ Header \in Nat \ {0}
      /\ MinBlock \in Nat \ {0}
  BY Places DEF Mem0
<1>2. E = {SlabWords} /\ S = {0} /\ slabEnds = <<SlabWords>>
  BY DEF Init, Ends, Starts, SlabStart
<1>3. /\ h = [block |-> h.block, free |-> h.free]
      /\ Dom(h) = {Mem0, Mem1, Mem2, Mem3} /\ h.free = <<Mem0, Mem2>>
      /\ h.block = [a \in Dom(h) |-> h.block[a]]
      /\ h.block[Mem0] = Block(FALSE, TRUE, Mem1, 0)
      /\ h.block[Mem1] = Block(TRUE, FALSE, Header, Mem1)
      /\ h.block[Mem2] = Block(FALSE, TRUE, MinBlock, 0)
      /\ h.block[Mem3] = Block(TRUE, FALSE, Header, MinBlock)
  <2> DEFINE at(a) == CASE a = Mem0 -> Block(FALSE, TRUE, Mem1, 0)
                        [] a = Mem1 -> Block(TRUE, FALSE, Header, Mem1)
                        [] a = Mem2 -> Block(FALSE, TRUE, MinBlock, 0)
                        [] a = Mem3 -> Block(TRUE, FALSE, Header, MinBlock)
             X == [a \in {Mem0, Mem1, Mem2, Mem3} |-> at(a)]
  <2>1. h = [block |-> X, free |-> <<Mem0, Mem2>>]
    BY DEF Init
  <2>2. DOMAIN X = {Mem0, Mem1, Mem2, Mem3} /\ X = [a \in DOMAIN X |-> X[a]]
    <3> HIDE DEF at
    <3> QED OBVIOUS
  <2>3. Mem0 # Mem1 /\ Mem0 # Mem2 /\ Mem0 # Mem3 /\ Mem1 # Mem2
        /\ Mem1 # Mem3 /\ Mem2 # Mem3
    BY <1>1
  <2>4. /\ X[Mem0] = Block(FALSE, TRUE, Mem1, 0)
        /\ X[Mem1] = Block(TRUE, FALSE, Header, Mem1)
        /\ X[Mem2] = Block(FALSE, TRUE, MinBlock, 0)
        /\ X[Mem3] = Block(TRUE, FALSE, Header, MinBlock)
    BY <2>3
  <2> HIDE DEF X, h
  <2>5. h.block = X /\ h.free = <<Mem0, Mem2>>
    BY <2>1
  <2> QED BY <2>1, <2>2, <2>4, <2>5 DEF Dom
<1>4. /\ Size(h, Mem0) = Mem1 /\ ~Taken(h, Mem0) /\ TakenBefore(h, Mem0)
      /\ Before(h, Mem0) = 0
      /\ Size(h, Mem1) = Header /\ Taken(h, Mem1) /\ ~TakenBefore(h, Mem1)
      /\ Before(h, Mem1) = Mem1
      /\ Size(h, Mem2) = MinBlock /\ ~Taken(h, Mem2) /\ TakenBefore(h, Mem2)
      /\ Before(h, Mem2) = 0
      /\ Size(h, Mem3) = Header /\ Taken(h, Mem3) /\ ~TakenBefore(h, Mem3)
      /\ Before(h, Mem3) = MinBlock
  BY <1>3 DEF Size, Taken, TakenBefore, Before, Block
<1>5. HasHeaders(h)
  <2>1. ASSUME NEW t \in BOOLEAN, NEW u \in BOOLEAN,
               NEW m \in Nat \ {0}, NEW n \in Nat
        PROVE  Block(t, u, m, n) \in Headers
    BY DEF Block, Headers
  <2>2. Mem1 \in Nat \ {0}
    BY <1>1
  <2> HIDE DEF h
  <2>3. \A b \in Dom(h) : h.block[b] \in Headers
    <3>1. /\ Block(FALSE, TRUE, Mem1, 0) \in Headers
          /\ Block(TRUE, FALSE, Header, Mem1) \in Headers
          /\ Block(FALSE, TRUE, MinBlock, 0) \in Headers
          /\ Block(TRUE, FALSE, Header, MinBlock) \in Headers
      BY <1>1, <2>1, <2>2
    <3> QED BY <1>3, <3>1
  <2> QED BY <2>3, <1>3 DEF HasHeaders
<1> HIDE DEF h, E, S
<1>6. /\ After(h, Mem0) = Mem1 /\ After(h, Mem1) = Mem2
      /\ After(h, Mem2) = Mem3 /\ After(h, Mem3) = SlabWords
  BY <1>4, Places DEF After, Mem0
<1>7. FreeOnes(h) = {Mem0, Mem2}
  BY <1>3, <1>4 DEF FreeOnes
<1>8. Numbers(h)
  BY <1>1, <1>3, <1>4 DEF Numbers
<1>9. Divided(h, E)
  <2>1. \A b \in Dom(h) : After(h, b) \in Dom(h) \cup E
    BY <1>2, <1>3, <1>6
  <2>2. ASSUME NEW b \in Dom(h), NEW c \in Dom(h) \cup E
        PROVE  ~(b < c /\ c < After(h, b))
    <3>1. b \in {Mem0, Mem1, Mem2, Mem3}
          /\ c \in {Mem0, Mem1, Mem2, Mem3, SlabWords}
      BY <1>2, <1>3
    <3> QED BY <3>1, <1>1, <1>6
  <2> QED BY <2>1, <2>2 DEF Divided
<1>10. Tags(h, E)
  <2>1. \A b \in Dom(h) : After(h, b) \notin E =>
          /\ TakenBefore(h, After(h, b)) <=> Taken(h, b)
          /\ ~Taken(h, b) => Before(h, After(h, b)) = Size(h, b)
    BY <1>2, <1>3, <1>4, <1>6
  <2>2. \A b \in Dom(h) : ~TakenBefore(h, b) =>
          \E p \in FreeOnes(h) : After(h, p) = b
    BY <1>3, <1>4, <1>6, <1>7
  <2> QED BY <2>1, <2>2 DEF Tags
<1>11. Merged(h, E)
  BY <1>1, <1>2, <1>3, <1>4, <1>6, <1>7 DEF Merged
<1>12. Sized(h, E)
  BY <1>1, <1>2, <1>3, <1>4, <1>6 DEF Sized, IsFixed
<1>13. Guarded(h)
  BY <1>3, <1>4, <1>7 DEF Guarded
<1>14. Slabs(h, E, S)
  BY <1>1, <1>2, <1>3, <1>4 DEF Slabs
<1>15. Lists(h.free, FreeOnes(h))
  BY <1>1, <1>3, <1>7 DEF Lists
<1>16. Good(h, E, S)
  BY <1>5, <1>8, <1>9, <1>10, <1>11, <1>12, <1>13, <1>14, <1>15 DEF Good
<1>17. Tops
  BY <1>1, <1>2, <1>3 DEF Tops, Last, E, h
<1>18. Owned(h, E, held)
  <2>1. held = {}
    BY DEF Init
  <2>2. \A c \in Dom(h) : Taken(h, c) => IsFixed(h, E, c)
    BY <1>2, <1>3, <1>4, <1>6 DEF IsFixed
  <2> QED BY <2>1, <2>2 DEF Owned, InUse
<1>19. Emitting
  BY DEF Init, Emitting
<1> QED BY <1>16, <1>17, <1>18, <1>19 DEF IInv, h, E, S

LEMMA StepHolds ==
  ASSUME IInv, [Next]_vars
  PROVE  JInv'
<1>1. CASE UNCHANGED vars
  <2>1. heap' = heap /\ slabEnds' = slabEnds /\ emitting' = emitting /\ held' = held
    BY <1>1 DEF vars
  <2>2. Ends' = Ends /\ Starts' = Starts
    BY <2>1 DEF Ends, Starts, SlabStart
  <2> QED BY <2>1, <2>2 DEF JInv, IInv, Tops, Emitting
<1>2. ASSUME NEW size \in Requests, startFunctionBody(size)
      PROVE  JInv'
  BY <1>2, StartKeeps DEF JInv
<1>3. ASSUME NEW size \in Sizes \cup Whole, endFunctionBody(size)
      PROVE  JInv'
  BY <1>3, EndKeeps DEF JInv
<1>4. ASSUME NEW size \in Sizes, NEW alignment \in Alignments,
             allocateSpace(size, alignment)
      PROVE  JInv'
  BY <1>4, SpaceKeeps, SpaceEnds DEF JInv
<1>5. ASSUME NEW size \in Sizes, allocateCodeSection(size)
      PROVE  JInv'
  BY <1>5, SectionKeeps DEF JInv
<1>6. ASSUME NEW g \in held, deallocateBlock(g)
      PROVE  JInv'
  BY <1>6, DeallocateKeeps DEF JInv
<1> QED BY <1>1, <1>2, <1>3, <1>4, <1>5, <1>6 DEF Next

LEMMA IsRemains == IInv => Remains
<1> SUFFICES ASSUME IInv PROVE Remains
  OBVIOUS
<1>1. Good(heap, Ends, Starts) /\ Owned(heap, Ends, held) /\ Tops
  BY DEF IInv
<1>2. Shaped(heap, Ends, Starts) /\ Mem2 \in Dom(heap)
  BY <1>1 DEF Good, Shaped, Guarded, FreeOnes
<1>3. Lists(heap.free, FreeOnes(heap)) /\ heap.free \in Seq(Dom(heap))
      /\ heap.free # <<>>
  <2>1. heap.free \in Seq(FreeOnes(heap)) /\ FreeOnes(heap) \subseteq Dom(heap)
    BY <1>1 DEF Good, Lists, FreeOnes
  <2> QED BY <1>1, <2>1, SeqMonotonic DEF Good, Lists
<1>4. Placed(heap, Ends, held)
  BY <1>1 DEF Owned, Holder, Placed
<1>5. slabEnds \in Seq(Nat) /\ emitting \subseteq Dom(heap)
  BY <1>1 DEF Tops, IInv, Emitting, Owned, Holder, InUse
<1> QED BY <1>2, <1>3, <1>4, <1>5 DEF Remains

LEMMA Invariance == Spec => []Remains
<1>1. Init => JInv
  BY InitHolds DEF JInv
<1>2. JInv /\ [Next]_vars => JInv'
  <2> SUFFICES ASSUME JInv, [Next]_vars PROVE JInv'
    OBVIOUS
  <2>1. CASE IInv
    BY <2>1, StepHolds
  <2>2. CASE Remains /\ ~Defined
    <3>1. heap' = heap /\ slabEnds' = slabEnds /\ emitting' = emitting /\ held' = held
      BY <2>2 DEF Next, vars
    <3>2. Ends' = Ends /\ Starts' = Starts
      BY <3>1 DEF Ends, Starts, SlabStart
    <3>3. Remains' /\ ~Defined'
      BY <2>2, <3>1, <3>2 DEF Remains, Defined, getBlockAfter
    <3> QED BY <3>3 DEF JInv
  <2> QED BY <2>1, <2>2 DEF JInv
<1>3. JInv => Remains
  BY IsRemains DEF JInv
<1> QED BY <1>1, <1>2, <1>3, PTL DEF Spec
-----------------------------------------------------------------------------
LEMMA TypesAreRight == Remains => TypeOK
<1> SUFFICES ASSUME Remains PROVE TypeOK
  OBVIOUS
<1>1. heap.block \in [Blocks -> [allocated : BOOLEAN, prevAllocated : BOOLEAN,
                                 size : Nat \ {0}, before : Nat]]
  BY DEF Remains, Shaped, HasHeaders, Headers, Dom, Blocks
<1>2. Blocks \subseteq Nat /\ heap.free \in Seq(Blocks) /\ heap.free # <<>>
  BY DEF Remains, Shaped, Numbers, Dom, Blocks
<1>3. held \subseteq [block : Blocks, at : Nat, size : Nat, kind : Kinds]
  <2> SUFFICES ASSUME NEW g \in held
               PROVE  g \in [block : Blocks, at : Nat, size : Nat, kind : Kinds]
    OBVIOUS
  <2>1. /\ g \in [block : Nat, at : Nat, size : Nat, kind : Kinds]
        /\ g.block \in Blocks
    BY DEF Remains, Placed, InUse, Dom, Blocks
  <2> QED BY <2>1
<1>4. slabEnds \in Seq(Nat) /\ emitting \subseteq Blocks
  BY DEF Remains, Dom, Blocks
<1> QED BY <1>1, <1>2, <1>3, <1>4 DEF TypeOK

(* The boundary tags are right after any sequence of allocations, trims and  *)
(* frees, in any number of slabs (AllocateBlock, TrimAllocationToSize,       *)
(* FreeBlock, GrowBlock, allocateNewCodeSlab).                               *)
THEOREM HeadersAlwaysAgree ==
  Spec => []HeadersAgree
<1>1. Remains => HeadersAgree
  <2> SUFFICES ASSUME Remains PROVE HeadersAgree
    OBVIOUS
  <2>1. Shaped(heap, Ends, Starts) /\ TypeOK
    BY TypesAreRight DEF Remains
  <2>2. Starts \subseteq Blocks
    BY <2>1 DEF Shaped, Slabs, Dom, Blocks
  <2>3. ASSUME NEW b \in Blocks
        PROVE  /\ b \in Dom(heap) /\ getBlockAfter(heap, b) = After(heap, b)
               /\ heap.block[b].allocated \in BOOLEAN
               /\ heap.block[b].prevAllocated \in BOOLEAN
    BY <2>1 DEF TypeOK, Dom, Blocks, getBlockAfter, After, Size
  <2>4. ASSUME NEW b \in Blocks
        PROVE  /\ \A c \in Blocks : ~(b < c /\ c < getBlockAfter(heap, b))
               /\ getBlockAfter(heap, b) \in Blocks \cup Ends
    BY <2>1, <2>3 DEF Shaped, Divided, Dom, Blocks
  <2>5. ASSUME NEW b \in Blocks, getBlockAfter(heap, b) \notin Ends
        PROVE  LET a == getBlockAfter(heap, b) IN
               /\ heap.block[a].prevAllocated = heap.block[b].allocated
               /\ Free(b) => heap.block[a].before = heap.block[b].size
    <3> DEFINE a == getBlockAfter(heap, b)
    <3>1. a \in Blocks /\ a = After(heap, b) /\ b \in Dom(heap)
      BY <2>3, <2>4, <2>5
    <3> HIDE DEF a
    <3>2. /\ TakenBefore(heap, a) <=> Taken(heap, b)
          /\ ~Taken(heap, b) => Before(heap, a) = Size(heap, b)
      BY <2>1, <2>5, <3>1 DEF Shaped, Tags, a
    <3>3. heap.block[a].prevAllocated = heap.block[b].allocated
      BY <2>3, <3>1, <3>2 DEF TakenBefore, Taken
    <3>4. Free(b) => heap.block[a].before = heap.block[b].size
      BY <2>3, <3>2 DEF Free, Taken, Before, Size
    <3> QED BY <3>3, <3>4 DEF a
  <2>6. ASSUME NEW b \in Starts
        PROVE  heap.block[b].prevAllocated
    BY <2>1 DEF Shaped, Slabs, TakenBefore
  <2> QED BY <2>1, <2>2, <2>4, <2>5, <2>6 DEF HeadersAgree
<1> QED BY <1>1, Invariance, PTL

(* Memory freed in any order is merged (FreeBlock).                          *)
THEOREM NeighboursAlwaysMerged ==
  Spec => []FreeNeighboursAreMerged
<1>1. Remains => FreeNeighboursAreMerged
  BY DEF Remains, Shaped, Merged, FreeOnes, Dom, Taken, After, Size,
         FreeNeighboursAreMerged, Free, Blocks, getBlockAfter
<1> QED BY <1>1, Invariance, PTL

(* The circular list neither loses a free block nor keeps one that is not,   *)
(* until the block that keeps it from becoming empty has been handed out     *)
(* (RemoveFromFreeList, AddToFreeList, FreeBlock).                           *)
THEOREM FreeListAlwaysExact ==
  Spec => []FreeListIsExact
<1>1. Remains => FreeListIsExact
  <2> SUFFICES ASSUME Remains, Free(Mem2)
               PROVE  /\ \A i, j \in 1..Len(heap.free) :
                           heap.free[i] = heap.free[j] => i = j
                      /\ {heap.free[i] : i \in 1..Len(heap.free)}
                           = {b \in Blocks : Free(b)}
    BY DEF FreeListIsExact
  <2>1. TypeOK /\ Mem2 \in Blocks
    BY TypesAreRight DEF Remains, Dom, Blocks
  <2>2. FreeOnes(heap) = {b \in Blocks : Free(b)}
    BY <2>1 DEF FreeOnes, Blocks, Dom, Free, Taken, TypeOK
  <2>3. Lists(heap.free, FreeOnes(heap))
    BY <2>1, <2>2 DEF Remains, FreeOnes
  <2>4. \A i \in 1..Len(heap.free) : heap.free[i] \in FreeOnes(heap)
    BY <2>3 DEF Lists
  <2>5. {heap.free[i] : i \in 1..Len(heap.free)} = FreeOnes(heap)
    BY <2>3, <2>4 DEF Lists
  <2> QED BY <2>2, <2>3, <2>5 DEF Lists
<1> QED BY <1>1, Invariance, PTL

(* No block is ever given to two clients, a function or a section lies       *)
(* within its own, and no block is lost (startFunctionBody, endFunctionBody, *)
(* allocateSpace, allocateCodeSection, deallocateFunctionBody).              *)
THEOREM ClientsAlwaysHaveTheirMemory ==
  Spec => []ClientsHaveTheirMemory
<1>1. Remains => ClientsHaveTheirMemory
  <2> SUFFICES ASSUME Remains PROVE ClientsHaveTheirMemory
    OBVIOUS
  <2>1. Placed(heap, Ends, held) /\ TypeOK
    BY TypesAreRight DEF Remains
  <2>2. \A b : getBlockAfter(heap, b) = After(heap, b)
    BY DEF getBlockAfter, After, Size
  <2>3. \A b \in Blocks : b \in Nat /\ (InUse(heap, b) <=> ~Free(b))
    BY <2>1 DEF TypeOK, InUse, Free, Taken, Dom, Blocks
  <2>4. ASSUME NEW g \in held
        PROVE  /\ g.block \in Blocks /\ ~Free(g.block) /\ g.at > g.block
               /\ g.kind # "space" =>
                    g.at + g.size <= getBlockAfter(heap, g.block)
               /\ \A k \in held : k.block = g.block => k = g
    <3>1. /\ InUse(heap, g.block) /\ g.block \in Blocks /\ g.at \in Nat
          /\ g.block \in Nat /\ g.block < g.at
          /\ g.kind # "space" => g.at + g.size <= After(heap, g.block)
      BY <2>1 DEF Placed, InUse, Blocks, Dom
    <3>2. \A k \in held : k.block = g.block => k = g
      BY <2>1 DEF Placed
    <3> QED BY <2>2, <2>3, <3>1, <3>2
  <2>5. ASSUME NEW b \in Blocks
        PROVE  \/ Free(b) \/ b = Mem1 \/ getBlockAfter(heap, b) \in Ends
               \/ \E g \in held : g.block = b
    BY <2>1, <2>2, <2>3 DEF Placed, IsFixed
  <2> QED BY <2>4, <2>5 DEF ClientsHaveTheirMemory
<1> QED BY <1>1, Invariance, PTL
=============================================================================
