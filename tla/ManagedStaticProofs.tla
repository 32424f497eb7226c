------------------------- MODULE ManagedStaticProofs -------------------------
(* Proofs about the managed statics, for any threads and any statics, also   *)
(* for constructors that use each other's objects in circles: those never    *)
(* return.                                                                   *)
EXTENDS ManagedStatic, Integers, FiniteSetTheorems, TLAPS

Frames == [s : Statics, pc : Pcs, todo : SUBSET Statics, tmp : Nat]

Constructing == {"check", "create", "publish", "link", "unlock"}
Destroying == {"delete", "clear"}

Types ==
  /\ Ptr \in [Statics -> Nat] /\ made \in [Statics -> Nat]
  /\ DeleterFn \subseteq Statics /\ StaticList \in Seq(Statics)
  /\ multithreaded_mode \in BOOLEAN /\ shutting \in BOOLEAN
  /\ global_lock \in [owner : Threads \cup {NoThread}, depth : Nat]
  /\ stack \in [Threads -> Seq(Frames)]

(* Only the outermost call destroys, and only in Main during the shutdown;   *)
(* only constructors and destructors have called something.                  *)
NestingAt(t, i) ==
  LET f == stack[t][i] IN
  /\ i > 1 => f.pc \in {"create", "delete"}
  /\ f.pc \in Destroying => t = Main /\ shutting /\ i = Len(stack[t])
  /\ f.pc = "create" =>
       /\ f.todo \subseteq CtorUses[f.s]
       /\ i > 1 => stack[t][i - 1].s \in CtorUses[f.s]
  /\ ~multithreaded_mode => t = Main /\ f.pc \notin {"check", "unlock"}
  /\ shutting => t = Main

Nesting ==
  /\ \A t \in Threads : \A i \in 1..Len(stack[t]) : NestingAt(t, i)
  /\ shutting /\ Len(stack[Main]) > 0 =>
       stack[Main][Len(stack[Main])].pc \in Destroying

(* How often a thread's calls have taken the lock.                           *)
One(b) == IF b THEN 1 ELSE 0
Locks(t) ==
  IF Len(stack[t]) = 0 THEN 0
  ELSE Len(stack[t]) - One(stack[t][Len(stack[t])].pc \in Destroying)
                     - One(stack[t][1].pc \in {"register", "deref"})

Locking ==
  multithreaded_mode =>
    /\ \A t \in Threads : Locks(t) = IF global_lock.owner = t
                                     THEN global_lock.depth ELSE 0
    /\ global_lock.owner = NoThread => global_lock.depth = 0

(* Ptr is null while a static is constructed, and set afterwards. What a     *)
(* constructor is done with has been constructed, or is on top of it.        *)
PointersAt(t, i) ==
  LET f == stack[t][i] IN
  /\ f.pc \in {"create", "publish"} =>
       /\ Ptr[f.s] = 0
       /\ \A u \in CtorUses[f.s] :
            \/ Ptr[u] # 0
            \/ f.pc = "create" /\ u \in f.todo
            \/ i > 1 /\ stack[t][i - 1].s = u
  /\ f.pc \in {"link", "unlock", "deref"} => Ptr[f.s] # 0
  /\ f.pc = "publish" => f.tmp # 0 /\ <<f.s, f.tmp>> \in live
  /\ f.pc = "register" /\ ~multithreaded_mode => Ptr[f.s] = 0

Pointers == \A t \in Threads : \A i \in 1..Len(stack[t]) : PointersAt(t, i)

On(t, pc, s) ==
  Len(stack[t]) >= 1 /\ stack[t][1].pc = pc /\ stack[t][1].s = s
Published(s) == Ptr[s] # 0 /\ ~On(Main, "clear", s)

(* The objects are those that Ptr points to, and those about to be published. *)
Objects ==
  /\ \A s \in Statics : Published(s) => Constructed(s)
  /\ live \subseteq Statics \X (Nat \ {0})
  /\ \A o \in live :
       \/ Published(o[1]) /\ Ptr[o[1]] = o[2]
       \/ \E t \in Threads : On(t, "publish", o[1]) /\ stack[t][1].tmp = o[2]

(* What has been published is in the list, or about to be put into it, or    *)
(* being destroyed.                                                          *)
Listed ==
  \A s \in Statics : Ptr[s] # 0 =>
    \/ \E i \in 1..Len(StaticList) : StaticList[i] = s
    \/ \E t \in Threads : On(t, "link", s)
    \/ \E i \in 1..Len(stack[Main]) :
         stack[Main][i].pc \in Destroying /\ stack[Main][i].s = s

IInv == Types /\ Nesting /\ Locking /\ Pointers /\ Objects /\ Listed
-----------------------------------------------------------------------------
(* How the stack of a thread can change: the top frame is replaced, a frame  *)
(* is put on it, or one is taken off.                                        *)
Others(t) == \A u \in Threads \ {t} : stack'[u] = stack[u]
Replaced(t, f) ==
  /\ stack' \in [Threads -> Seq(Frames)] /\ Others(t)
  /\ Len(stack[t]) >= 1 /\ Len(stack'[t]) = Len(stack[t])
  /\ \A i \in 1..Len(stack[t]) :
       stack'[t][i] = IF i = 1 THEN f ELSE stack[t][i]
Pushed(t, f, g) ==
  /\ stack' \in [Threads -> Seq(Frames)] /\ Others(t)
  /\ Len(stack[t]) >= 1 /\ Len(stack'[t]) = Len(stack[t]) + 1
  /\ \A i \in 1..(Len(stack[t]) + 1) :
       stack'[t][i] = IF i = 1 THEN f ELSE IF i = 2 THEN g ELSE stack[t][i - 1]
Popped(t) ==
  /\ stack' \in [Threads -> Seq(Frames)] /\ Others(t)
  /\ Len(stack[t]) >= 1 /\ Len(stack'[t]) = Len(stack[t]) - 1
  /\ \A i \in 1..(Len(stack[t]) - 1) : stack'[t][i] = stack[t][i + 1]
Single(t, f) ==
  /\ stack' \in [Threads -> Seq(Frames)] /\ Others(t)
  /\ Len(stack[t]) = 0 /\ Len(stack'[t]) = 1 /\ stack'[t][1] = f

LEMMA Stacks ==
  ASSUME stack \in [Threads -> Seq(Frames)], NEW t \in Threads
  PROVE  /\ Len(stack[t]) \in Nat
         /\ stack[t] = <<>> <=> Len(stack[t]) = 0
         /\ \A i \in 1..Len(stack[t]) : stack[t][i] \in Frames
         /\ stack[t] # <<>> => Len(stack[t]) >= 1 /\ Top(t) = stack[t][1]
BY DEF Top

LEMMA ReplacedTop ==
  ASSUME stack \in [Threads -> Seq(Frames)], NEW t \in Threads,
         stack[t] # <<>>, NEW f \in Frames, stack' = [stack EXCEPT ![t][1] = f]
  PROVE  Replaced(t, f)
<1>1. Len(stack[t]) >= 1 /\ stack[t] \in Seq(Frames)
  BY Stacks
<1>2. [stack[t] EXCEPT ![1] = f] \in Seq(Frames)
      /\ Len([stack[t] EXCEPT ![1] = f]) = Len(stack[t])
      /\ \A i \in 1..Len(stack[t]) :
           [stack[t] EXCEPT ![1] = f][i] = IF i = 1 THEN f ELSE stack[t][i]
  BY <1>1
<1>3. stack' \in [Threads -> Seq(Frames)] /\ Others(t)
      /\ stack'[t] = [stack[t] EXCEPT ![1] = f]
  BY <1>2 DEF Others
<1> QED BY <1>1, <1>2, <1>3 DEF Replaced

LEMMA GotoReplaces ==
  ASSUME stack \in [Threads -> Seq(Frames)], NEW t \in Threads,
         stack[t] # <<>>, NEW pc \in Pcs, Goto(t, pc)
  PROVE  Replaced(t, [stack[t][1] EXCEPT !.pc = pc])
<1>1. Len(stack[t]) >= 1 /\ stack[t][1] \in Frames
  BY Stacks
<1>2. [stack[t][1] EXCEPT !.pc = pc] \in Frames
  BY <1>1 DEF Frames
<1>3. stack' = [stack EXCEPT ![t][1] = [stack[t][1] EXCEPT !.pc = pc]]
  BY DEF Goto
<1> QED BY <1>2, <1>3, ReplacedTop

LEMMA PopPops ==
  ASSUME stack \in [Threads -> Seq(Frames)], NEW t \in Threads,
         stack[t] # <<>>, Pop(t)
  PROVE  Popped(t)
<1>1. Len(stack[t]) >= 1 /\ stack[t] \in Seq(Frames)
  BY Stacks
<1>2. Tail(stack[t]) \in Seq(Frames) /\ Len(Tail(stack[t])) = Len(stack[t]) - 1
      /\ \A i \in 1..(Len(stack[t]) - 1) : Tail(stack[t])[i] = stack[t][i + 1]
  BY <1>1
<1>3. stack' \in [Threads -> Seq(Frames)] /\ Others(t)
      /\ stack'[t] = Tail(stack[t])
  BY <1>2 DEF Pop, Others
<1> QED BY <1>1, <1>2, <1>3 DEF Popped

LEMMA PushPushes ==
  ASSUME stack \in [Threads -> Seq(Frames)], NEW t \in Threads,
         stack[t] # <<>>, NEW f \in Frames, NEW g \in Frames,
         stack' = [stack EXCEPT ![t] = <<f>> \o [@ EXCEPT ![1] = g]]
  PROVE  Pushed(t, f, g)
<1> DEFINE q == [stack[t] EXCEPT ![1] = g]
<1>1. Len(stack[t]) >= 1 /\ stack[t] \in Seq(Frames)
  BY Stacks
<1>2. q \in Seq(Frames) /\ Len(q) = Len(stack[t])
      /\ \A i \in 1..Len(stack[t]) : q[i] = IF i = 1 THEN g ELSE stack[t][i]
  BY <1>1
<1>3. stack'[t] = <<f>> \o q /\ Others(t)
  BY DEF Others
<1> HIDE DEF q
<1>4. /\ <<f>> \o q \in Seq(Frames) /\ Len(<<f>> \o q) = Len(stack[t]) + 1
      /\ \A i \in 1..(Len(stack[t]) + 1) :
           (<<f>> \o q)[i] = IF i = 1 THEN f ELSE q[i - 1]
  BY <1>1, <1>2
<1>5. stack' \in [Threads -> Seq(Frames)]
  BY <1>3, <1>4 DEF q
<1>6. \A i \in 1..(Len(stack[t]) + 1) :
        stack'[t][i] = IF i = 1 THEN f ELSE IF i = 2 THEN g ELSE stack[t][i - 1]
  BY <1>1, <1>2, <1>3, <1>4
<1> QED BY <1>1, <1>3, <1>4, <1>5, <1>6 DEF Pushed

LEMMA FirstFrame ==
  ASSUME stack \in [Threads -> Seq(Frames)], NEW t \in Threads,
         stack[t] = <<>>, NEW f \in Frames, stack' = [stack EXCEPT ![t] = <<f>>]
  PROVE  Single(t, f)
<1>1. <<f>> \in Seq(Frames) /\ Len(<<f>>) = 1 /\ <<f>>[1] = f
  OBVIOUS
<1>2. stack'[t] = <<f>> /\ Others(t) /\ stack' \in [Threads -> Seq(Frames)]
  BY <1>1 DEF Others
<1> QED BY <1>1, <1>2 DEF Single
-----------------------------------------------------------------------------
(* What replacing the top frame does to the parts of the invariant.          *)
LEMMA ReplaceKeepsNesting ==
  ASSUME IInv, NEW t \in Threads, NEW f \in Frames, Replaced(t, f),
         f.s = stack[t][1].s, UNCHANGED <<multithreaded_mode, shutting>>,
         f.pc \in Destroying <=> stack[t][1].pc \in Destroying,
         f.pc = "create" => f.todo \subseteq CtorUses[f.s],
         ~multithreaded_mode => f.pc \notin {"check", "unlock"}
  PROVE  Nesting'
<1> DEFINE n == Len(stack[t])
<1>1. /\ n \in Nat /\ n >= 1 /\ Len(stack'[t]) = n
      /\ \A i \in 1..n : stack'[t][i] = IF i = 1 THEN f ELSE stack[t][i]
      /\ \A u \in Threads \ {t} : stack'[u] = stack[u]
  BY Stacks DEF IInv, Types, Replaced, Others
<1>2. ASSUME NEW u \in Threads, NEW i \in 1..Len(stack'[u])
      PROVE  NestingAt(u, i)'
  <2>1. CASE u # t
    <3>1. NestingAt(u, i)
      BY <1>1, <1>2, <2>1 DEF IInv, Nesting
    <3> QED BY <1>1, <2>1, <3>1 DEF NestingAt
  <2>2. CASE u = t /\ i = 1
    <3>1. NestingAt(t, 1)
      BY <1>1 DEF IInv, Nesting
    <3> QED BY <1>1, <2>2, <3>1 DEF NestingAt
  <2>3. CASE u = t /\ i > 1
    <3>1. NestingAt(t, i) /\ i \in 1..n /\ i - 1 \in 1..n
      BY <1>1, <1>2, <2>3 DEF IInv, Nesting
    <3>2. stack'[t][i] = stack[t][i] /\ stack'[t][i - 1].s = stack[t][i - 1].s
      BY <1>1, <2>3, <3>1
    <3> QED BY <1>1, <2>3, <3>1, <3>2 DEF NestingAt
  <2> QED BY <1>1, <2>1, <2>2, <2>3
<1>3. shutting' /\ Len(stack'[Main]) > 0 =>
        stack'[Main][Len(stack'[Main])].pc \in Destroying
  <2>1. Main \in Threads
    BY ManagedStaticAssumption
  <2>2. CASE Main # t
    BY <1>1, <2>1, <2>2 DEF IInv, Nesting
  <2>3. CASE Main = t
    BY <1>1, <2>3 DEF IInv, Nesting
  <2> QED BY <2>2, <2>3
<1> QED BY <1>2, <1>3 DEF Nesting

LEMMA ReplaceLocks ==
  ASSUME IInv, NEW t \in Threads, NEW f \in Frames, Replaced(t, f),
         f.pc \in Destroying <=> stack[t][1].pc \in Destroying
  PROVE  /\ Locks(t)' = Locks(t) + One(stack[t][1].pc \in {"register", "deref"})
                                 - One(f.pc \in {"register", "deref"})
         /\ \A u \in Threads \ {t} : Locks(u)' = Locks(u)
         /\ Locks(t) \in Int
<1> DEFINE n == Len(stack[t])
           top == stack[t][1].pc \in {"register", "deref"}
           bottom == stack[t][n].pc \in Destroying
           new == f.pc \in {"register", "deref"}
<1>1. /\ n \in Nat /\ n >= 1 /\ Len(stack'[t]) = n
      /\ \A i \in 1..n : stack'[t][i] = IF i = 1 THEN f ELSE stack[t][i]
      /\ \A u \in Threads \ {t} : stack'[u] = stack[u]
  BY Stacks DEF IInv, Types, Replaced, Others
<1>2. 1 \in 1..n /\ n \in 1..n
  BY <1>1
<1>3. stack'[t][1] = f /\ (stack'[t][n].pc \in Destroying <=> bottom)
  BY <1>1, <1>2
<1>4. Locks(t)' = n - One(bottom) - One(new)
  BY <1>1, <1>3 DEF Locks
<1>5. Locks(t) = n - One(bottom) - One(top)
  BY <1>1 DEF Locks
<1>6. \A u \in Threads \ {t} : Locks(u)' = Locks(u)
  BY <1>1 DEF Locks
<1>7. One(bottom) \in 0..1 /\ One(top) \in 0..1 /\ One(new) \in 0..1
  BY DEF One
<1> HIDE DEF n, top, bottom, new
<1>8. Locks(t)' = Locks(t) + One(top) - One(new) /\ Locks(t) \in Int
  BY <1>1, <1>4, <1>5, <1>7
<1> QED BY <1>6, <1>8 DEF top, new

LEMMA ReplaceKeepsPointers ==
  ASSUME IInv, NEW t \in Threads, NEW f \in Frames, Replaced(t, f),
         f.s = stack[t][1].s, UNCHANGED <<Ptr, multithreaded_mode>>,
         \A u \in Threads : \A i \in 1..Len(stack[u]) :
           stack[u][i].pc = "publish" =>
             <<stack[u][i].s, stack[u][i].tmp>> \in live',
         PointersAt(t, 1)'
  PROVE  Pointers'
<1> DEFINE n == Len(stack[t])
<1>1. /\ n \in Nat /\ n >= 1 /\ Len(stack'[t]) = n
      /\ \A i \in 1..n : stack'[t][i] = IF i = 1 THEN f ELSE stack[t][i]
      /\ \A u \in Threads \ {t} : stack'[u] = stack[u]
  BY Stacks DEF IInv, Types, Replaced, Others
<1>2. ASSUME NEW u \in Threads, NEW i \in 1..Len(stack'[u])
      PROVE  PointersAt(u, i)'
  <2>1. CASE u # t
    <3>1. PointersAt(u, i) /\ i \in 1..Len(stack[u])
      BY <1>1, <1>2, <2>1 DEF IInv, Pointers
    <3> QED BY <1>1, <2>1, <3>1 DEF PointersAt
  <2>2. CASE u = t /\ i = 1
    BY <2>2
  <2>3. CASE u = t /\ i > 1
    <3>1. PointersAt(t, i) /\ i \in 1..n /\ i - 1 \in 1..n
      BY <1>1, <1>2, <2>3 DEF IInv, Pointers
    <3>2. stack'[t][i] = stack[t][i] /\ stack'[t][i - 1].s = stack[t][i - 1].s
      BY <1>1, <2>3, <3>1
    <3> QED BY <1>1, <2>3, <3>1, <3>2 DEF PointersAt
  <2> QED BY <1>1, <2>1, <2>2, <2>3
<1> QED BY <1>2 DEF Pointers

LEMMA ReplaceKeepsObjects ==
  ASSUME IInv, NEW t \in Threads, NEW f \in Frames, Replaced(t, f),
         UNCHANGED <<Ptr, live>>,
         f.pc \notin {"publish", "clear"}, stack[t][1].pc \notin {"publish", "clear"}
  PROVE  Objects'
<1>1. /\ Len(stack[t]) \in Nat /\ Len(stack[t]) >= 1
      /\ Len(stack'[t]) = Len(stack[t]) /\ stack'[t][1] = f
      /\ \A u \in Threads \ {t} : stack'[u] = stack[u]
  BY Stacks DEF IInv, Types, Replaced, Others
<1>2. \A u \in Threads : \A s : /\ On(u, "publish", s)' <=> On(u, "publish", s)
                                /\ On(u, "clear", s)' <=> On(u, "clear", s)
                                /\ On(u, "publish", s) => stack'[u][1] = stack[u][1]
  BY <1>1 DEF On
<1>3. \A s : Published(s)' <=> Published(s)
  BY <1>2, ManagedStaticAssumption DEF Published
<1> QED BY <1>2, <1>3 DEF IInv, Objects, Constructed

LEMMA ReplaceKeepsListed ==
  ASSUME IInv, NEW t \in Threads, NEW f \in Frames, Replaced(t, f),
         f.s = stack[t][1].s, UNCHANGED <<Ptr, StaticList>>,
         f.pc \in Destroying <=> stack[t][1].pc \in Destroying,
         stack[t][1].pc # "link"
  PROVE  Listed'
<1> DEFINE n == Len(stack[t])
<1>1. /\ n \in Nat /\ n >= 1 /\ Len(stack'[t]) = n
      /\ \A i \in 1..n : stack'[t][i] = IF i = 1 THEN f ELSE stack[t][i]
      /\ \A u \in Threads \ {t} : stack'[u] = stack[u]
  BY Stacks DEF IInv, Types, Replaced, Others
<1>2. \A u \in Threads : \A s : On(u, "link", s) => On(u, "link", s)'
  BY <1>1 DEF On
<1>3. /\ Len(stack'[Main]) = Len(stack[Main])
      /\ \A i \in 1..Len(stack[Main]) :
           /\ stack'[Main][i].s = stack[Main][i].s
           /\ stack[Main][i].pc \in Destroying => stack'[Main][i].pc \in Destroying
  <2>1. Main \in Threads
    BY ManagedStaticAssumption
  <2> QED BY <1>1, <2>1
<1> QED BY <1>2, <1>3 DEF IInv, Listed
-----------------------------------------------------------------------------
(* Who constructs holds the lock, or is the only thread there is.            *)
LEMMA Exclusive ==
  ASSUME IInv, NEW t \in Threads, NEW i \in 1..Len(stack[t]),
         stack[t][i].pc \in Constructing
  PROVE  IF multithreaded_mode THEN global_lock.owner = t /\ global_lock.depth > 0
         ELSE t = Main
<1> DEFINE n == Len(stack[t])
<1>1. n \in Nat /\ n >= 1 /\ 1 \in 1..n /\ n \in 1..n
  BY Stacks DEF IInv, Types
<1>2. /\ NestingAt(t, 1) /\ NestingAt(t, n) /\ NestingAt(t, i)
  BY <1>1 DEF IInv, Nesting
<1>3. CASE multithreaded_mode
  <2> DEFINE top == stack[t][1].pc \in {"register", "deref"}
             bottom == stack[t][n].pc \in Destroying
  <2>1. Locks(t) = n - One(bottom) - One(top)
    BY <1>1 DEF Locks
  <2>2. One(bottom) \in 0..1 /\ One(top) \in 0..1
    BY DEF One
  <2>3. top => i > 1
    BY DEF Constructing
  <2>4. bottom => n > i
    BY <1>1 DEF Constructing, Destroying
  <2>5. ~bottom => One(bottom) = 0
    BY DEF One
  <2>6. ~top => One(top) = 0
    BY DEF One
  <2>7. Locks(t) > 0
    <3> HIDE DEF top, bottom, n
    <3> QED BY <1>1, <2>1, <2>2, <2>3, <2>4, <2>5, <2>6 DEF n
  <2> QED BY <1>3, <2>7 DEF IInv, Locking
<1>4. CASE ~multithreaded_mode
  BY <1>2, <1>4 DEF NestingAt
<1> QED BY <1>3, <1>4

LEMMA OneConstructs ==
  ASSUME IInv, NEW t \in Threads, NEW i \in 1..Len(stack[t]),
         stack[t][i].pc \in Constructing,
         NEW u \in Threads, NEW j \in 1..Len(stack[u]),
         stack[u][j].pc \in Constructing
  PROVE  t = u
BY Exclusive

(* A static is not constructed while its construction is waiting for others. *)
LEMMA NoCircle ==
  ASSUME IInv, NEW t \in Threads, NEW i \in 2..Len(stack[t]),
         stack[t][i].pc = "create", stack[t][1].pc = "publish" \/
           (stack[t][1].pc = "create" /\ stack[t][1].todo = {})
  PROVE  stack[t][i].s # stack[t][1].s
<1> SUFFICES ASSUME stack[t][i].s = stack[t][1].s
             PROVE  FALSE
  OBVIOUS
<1>1. Len(stack[t]) \in Nat /\ 1 \in 1..Len(stack[t])
      /\ i \in 1..Len(stack[t]) /\ i - 1 \in 1..Len(stack[t])
  BY Stacks DEF IInv, Types
<1>2. /\ NestingAt(t, i) /\ NestingAt(t, i - 1)
      /\ PointersAt(t, 1) /\ PointersAt(t, i - 1)
  BY <1>1 DEF IInv, Nesting, Pointers
<1>3. stack[t][i - 1].s \in CtorUses[stack[t][i].s]
  BY <1>2 DEF NestingAt
<1>4. Ptr[stack[t][i - 1].s] # 0
  BY <1>2, <1>3 DEF PointersAt
<1>5. stack[t][i - 1].pc \in {"create", "publish"}
  <2>1. CASE i - 1 = 1
    BY <2>1
  <2>2. CASE i - 1 > 1
    BY <1>1, <1>2, <2>2 DEF NestingAt, Destroying
  <2> QED BY <2>1, <2>2, <1>1
<1> QED BY <1>2, <1>4, <1>5 DEF PointersAt

(* The facts about the top frame of a thread that is at pc.                  *)
LEMMA TopFacts ==
  ASSUME IInv, NEW t \in Threads, stack[t] # <<>>
  PROVE  /\ Top(t) = stack[t][1] /\ stack[t][1] \in Frames
         /\ Len(stack[t]) >= 1 /\ Len(stack[t]) \in Nat /\ 1 \in 1..Len(stack[t])
         /\ NestingAt(t, 1) /\ PointersAt(t, 1)
         /\ stack \in [Threads -> Seq(Frames)]
BY Stacks DEF IInv, Types, Nesting, Pointers

LEMMA AcquireHolds ==
  ASSUME IInv, NEW t \in Threads, AcquireGlobalLock(t)
  PROVE  IInv'
<1> DEFINE f == [stack[t][1] EXCEPT !.pc = "check"]
<1>1. /\ stack[t] # <<>> /\ Top(t).pc = "register" /\ multithreaded_mode
      /\ global_lock.owner \in {NoThread, t}
      /\ global_lock' = [owner |-> t, depth |-> global_lock.depth + 1]
      /\ Goto(t, "check")
      /\ UNCHANGED <<Ptr, DeleterFn, StaticList, multithreaded_mode, shutting,
                     shutdowns, live, made>>
  BY DEF AcquireGlobalLock, At, list, calls, objects
<1>2. Replaced(t, f)
  BY <1>1, TopFacts, GotoReplaces DEF Pcs
<1>3. f \in Frames /\ f.pc = "check" /\ f.s = stack[t][1].s
      /\ stack[t][1].pc = "register" /\ stack'[t][1] = f
  BY <1>1, <1>2, TopFacts DEF Frames, Pcs, Replaced
<1> HIDE DEF f
<1>4. Types'
  BY <1>1, <1>2, ManagedStaticAssumption DEF IInv, Types, Replaced
<1>5. Nesting'
  BY <1>1, <1>2, <1>3, ReplaceKeepsNesting DEF Destroying
<1>6. Locking'
  <2>1. /\ Locks(t)' = Locks(t) + 1
        /\ \A u \in Threads \ {t} : Locks(u)' = Locks(u)
    <3>1. /\ Locks(t)' = Locks(t) + One(stack[t][1].pc \in {"register", "deref"})
                                  - One(f.pc \in {"register", "deref"})
          /\ \A u \in Threads \ {t} : Locks(u)' = Locks(u)
          /\ Locks(t) \in Int
      BY <1>2, <1>3, ReplaceLocks DEF Destroying
    <3> QED BY <1>3, <3>1 DEF One
  <2> QED BY <1>1, <2>1, ManagedStaticAssumption DEF IInv, Locking, Types
<1>7. Pointers'
  <2>1. PointersAt(t, 1)'
    BY <1>3 DEF PointersAt
  <2> QED BY <1>1, <1>2, <1>3, <2>1, ReplaceKeepsPointers
          DEF IInv, Pointers, PointersAt
<1>8. Objects' /\ Listed'
  BY <1>1, <1>2, <1>3, ReplaceKeepsObjects, ReplaceKeepsListed DEF Destroying
<1> QED BY <1>4, <1>5, <1>6, <1>7, <1>8 DEF IInv

(* Steps between which the thread has the lock as often as before.           *)
LEMMA KeepsLocking ==
  ASSUME IInv, NEW t \in Threads, NEW f \in Frames, Replaced(t, f),
         f.pc \in Destroying <=> stack[t][1].pc \in Destroying,
         multithreaded_mode => (f.pc \in {"register", "deref"} <=>
                                stack[t][1].pc \in {"register", "deref"}),
         UNCHANGED <<multithreaded_mode, global_lock>>
  PROVE  Locking'
<1>1. CASE multithreaded_mode
  <2>1. /\ Locks(t)' = Locks(t) + One(stack[t][1].pc \in {"register", "deref"})
                                - One(f.pc \in {"register", "deref"})
        /\ \A u \in Threads \ {t} : Locks(u)' = Locks(u)
        /\ Locks(t) \in Int
    BY ReplaceLocks
  <2>2. Locks(t)' = Locks(t)
    BY <1>1, <2>1 DEF One
  <2> QED BY <2>1, <2>2 DEF IInv, Locking
<1>2. CASE ~multithreaded_mode
  BY <1>2 DEF Locking
<1> QED BY <1>1, <1>2

LEMMA CheckHolds ==
  ASSUME IInv, NEW t \in Threads, CheckPtr(t)
  PROVE  IInv'
<1> DEFINE s == stack[t][1].s
           f == IF stack[t][1].pc = "register" \/ Ptr[s] = 0
                THEN Frame(s, "create", CtorUses[s]) ELSE Frame(s, "unlock", {})
<1>1. /\ stack[t] # <<>>
      /\ stack[t][1].pc = "check" \/ (stack[t][1].pc = "register" /\ ~multithreaded_mode)
      /\ stack' = [stack EXCEPT ![t][1] = f]
      /\ UNCHANGED <<Ptr, DeleterFn, StaticList, multithreaded_mode, global_lock,
                     shutting, shutdowns, live, made>>
  <2>1. stack[t] # <<>>
    BY DEF CheckPtr, At
  <2> QED BY <2>1, TopFacts DEF CheckPtr, At, list, mode, calls, objects
<1>2. /\ s \in Statics /\ f \in Frames /\ f.s = s /\ f.pc \in {"create", "unlock"}
      /\ f.pc = "create" => f.todo = CtorUses[s]
      /\ f.pc = "create" <=> stack[t][1].pc = "register" \/ Ptr[s] = 0
  BY <1>1, TopFacts, ManagedStaticAssumption DEF Frames, Frame, Pcs
<1>3. stack[t][1].pc = "register" => Ptr[s] = 0
  BY <1>1, TopFacts DEF PointersAt
<1>4. ~multithreaded_mode => stack[t][1].pc = "register"
  BY <1>1, TopFacts DEF NestingAt
<1> HIDE DEF f
<1>5. Replaced(t, f)
  BY <1>1, <1>2, TopFacts, ReplacedTop
<1>6. Types'
  BY <1>1, <1>5 DEF IInv, Types, Replaced
<1>7. Nesting'
  BY <1>1, <1>2, <1>4, <1>5, ReplaceKeepsNesting DEF Destroying
<1>8. Locking'
  BY <1>1, <1>2, <1>4, <1>5, KeepsLocking DEF Destroying
<1>9. Pointers'
  <2>1. PointersAt(t, 1)'
    <3>1. stack'[t][1] = f
      BY <1>5, TopFacts, <1>1 DEF Replaced
    <3> QED BY <1>1, <1>2, <1>3, <3>1 DEF PointersAt
  <2> QED BY <1>1, <1>2, <1>5, <2>1, ReplaceKeepsPointers
          DEF IInv, Pointers, PointersAt
<1>10. Objects' /\ Listed'
  BY <1>1, <1>2, <1>5, ReplaceKeepsObjects, ReplaceKeepsListed DEF Destroying
<1> QED BY <1>6, <1>7, <1>8, <1>9, <1>10 DEF IInv

LEMMA ReleaseHolds ==
  ASSUME IInv, NEW t \in Threads, ReleaseGlobalLock(t)
  PROVE  IInv'
<1> DEFINE f == [stack[t][1] EXCEPT !.pc = "deref"]
<1>1. /\ stack[t] # <<>> /\ Top(t).pc = "unlock"
      /\ global_lock' = [owner |-> IF global_lock.depth = 1 THEN NoThread ELSE t,
                         depth |-> global_lock.depth - 1]
      /\ Goto(t, "deref")
      /\ UNCHANGED <<Ptr, DeleterFn, StaticList, multithreaded_mode, shutting,
                     shutdowns, live, made>>
  BY DEF ReleaseGlobalLock, At, list, calls, objects
<1>2. Replaced(t, f)
  BY <1>1, TopFacts, GotoReplaces DEF Pcs
<1>3. f \in Frames /\ f.pc = "deref" /\ f.s = stack[t][1].s
      /\ stack[t][1].pc = "unlock" /\ stack'[t][1] = f
  BY <1>1, <1>2, TopFacts DEF Frames, Pcs, Replaced
<1>4. multithreaded_mode
  BY <1>1, <1>3, TopFacts DEF NestingAt
<1>5. global_lock.owner = t /\ global_lock.depth > 0 /\ global_lock.depth \in Nat
  BY <1>1, <1>3, <1>4, TopFacts, Exclusive DEF Constructing, IInv, Types
<1> HIDE DEF f
<1>6. Types'
  BY <1>1, <1>2, <1>5 DEF IInv, Types, Replaced
<1>7. Nesting'
  BY <1>1, <1>2, <1>3, <1>4, ReplaceKeepsNesting DEF Destroying
<1>8. Locking'
  <2>1. /\ Locks(t)' = Locks(t) + One(stack[t][1].pc \in {"register", "deref"})
                                - One(f.pc \in {"register", "deref"})
        /\ \A u \in Threads \ {t} : Locks(u)' = Locks(u)
        /\ Locks(t) \in Int
    BY <1>2, <1>3, ReplaceLocks DEF Destroying
  <2>2. Locks(t)' = Locks(t) - 1
    BY <1>3, <2>1 DEF One
  <2>3. Locks(t) = global_lock.depth /\ \A u \in Threads \ {t} : Locks(u) = 0
    BY <1>4, <1>5 DEF IInv, Locking
  <2>4. global_lock'.depth = global_lock.depth - 1
        /\ global_lock'.owner = IF global_lock.depth = 1 THEN NoThread ELSE t
    BY <1>1
  <2>5. t # NoThread /\ NoThread \notin Threads
    BY ManagedStaticAssumption
  <2> QED BY <1>5, <2>1, <2>2, <2>3, <2>4, <2>5 DEF Locking
<1>9. Pointers'
  <2>1. PointersAt(t, 1)'
    BY <1>1, <1>3, TopFacts DEF PointersAt
  <2> QED BY <1>1, <1>2, <1>3, <2>1, ReplaceKeepsPointers
          DEF IInv, Pointers, PointersAt
<1>10. Objects' /\ Listed'
  BY <1>1, <1>2, <1>3, ReplaceKeepsObjects, ReplaceKeepsListed DEF Destroying
<1> QED BY <1>6, <1>7, <1>8, <1>9, <1>10 DEF IInv

(* The object exists before the static points to it...                       *)
LEMMA CreatorHolds ==
  ASSUME IInv, NEW t \in Threads, CreatorReturns(t)
  PROVE  IInv'
<1> DEFINE s == stack[t][1].s
           n == made[s] + 1
           f == [stack[t][1] EXCEPT !.pc = "publish", !.tmp = n]
<1>1. /\ stack[t] # <<>> /\ stack[t][1].pc = "create" /\ stack[t][1].todo = {}
      /\ made' = [made EXCEPT ![s] = n] /\ live' = live \cup {<<s, n>>}
      /\ stack' = [stack EXCEPT ![t][1].pc = "publish", ![t][1].tmp = n]
      /\ UNCHANGED <<Ptr, DeleterFn, StaticList, multithreaded_mode, global_lock,
                     shutting, shutdowns>>
  <2>1. stack[t] # <<>>
    BY DEF CreatorReturns, At
  <2> QED BY <2>1, TopFacts DEF CreatorReturns, At, list, mode, calls
<1>2. s \in Statics /\ n \in Nat \ {0}
  <2>1. s \in Statics
    BY <1>1, TopFacts DEF Frames
  <2>2. made[s] \in Nat
    BY <2>1 DEF IInv, Types
  <2> QED BY <2>1, <2>2
<1>3. f \in Frames /\ f.pc = "publish" /\ f.s = s /\ f.tmp = n
  BY <1>1, <1>2, TopFacts DEF Frames, Pcs
<1>4. Replaced(t, f)
  <2>1. stack' = [stack EXCEPT ![t][1] = f]
    BY <1>1, TopFacts DEF Frames
  <2> QED BY <1>1, <1>3, <2>1, TopFacts, ReplacedTop
<1>5. stack'[t][1] = f /\ Len(stack'[t]) >= 1
      /\ \A u \in Threads \ {t} : stack'[u] = stack[u]
  BY <1>1, <1>4, TopFacts DEF Replaced, Others
<1> HIDE DEF f
<1>6. Types'
  BY <1>1, <1>2, <1>4 DEF IInv, Types, Replaced
<1>7. Nesting' /\ Locking'
  BY <1>1, <1>3, <1>4, ReplaceKeepsNesting, KeepsLocking DEF Destroying
<1>8. Pointers'
  <2>1. Ptr[s] = 0 /\ \A u \in CtorUses[s] : Ptr[u] # 0
    <3>1. PointersAt(t, 1)
      BY <1>1, TopFacts
    <3>2. Ptr[s] = 0
      BY <1>1, <3>1 DEF PointersAt
    <3>3. ASSUME NEW u \in CtorUses[s]
          PROVE  Ptr[u] # 0
      BY <1>1, <3>1, <3>3 DEF PointersAt
    <3> QED BY <3>2, <3>3
  <2>2. n # 0 /\ <<s, n>> \in live'
    BY <1>1, <1>2
  <2> HIDE DEF s, n
  <2>3. PointersAt(t, 1)'
    BY <1>1, <1>3, <1>5, <2>1, <2>2 DEF PointersAt
  <2> USE DEF s, n
  <2> QED BY <1>1, <1>3, <1>4, <2>3, ReplaceKeepsPointers
          DEF IInv, Pointers, PointersAt
<1>9. \A r : Published(r)' <=> Published(r)
  <2>1. \A r : On(Main, "clear", r)' <=> On(Main, "clear", r)
    BY <1>1, <1>3, <1>5, ManagedStaticAssumption DEF On
  <2> QED BY <1>1, <2>1 DEF Published
<1>10. Objects'
  <2>1. \A r \in Statics : Published(r)' => Constructed(r)'
    BY <1>1, <1>9 DEF IInv, Objects, Constructed
  <2>2. live' \subseteq Statics \X (Nat \ {0})
    BY <1>1, <1>2 DEF IInv, Objects
  <2>3. ASSUME NEW o \in live'
        PROVE  \/ Published(o[1])' /\ Ptr'[o[1]] = o[2]
               \/ \E u \in Threads : On(u, "publish", o[1])' /\ stack'[u][1].tmp = o[2]
    <3>1. CASE o \in live
      <4>1. CASE Published(o[1]) /\ Ptr[o[1]] = o[2]
        BY <1>1, <1>9, <4>1
      <4>2. ASSUME NEW u \in Threads, On(u, "publish", o[1]), stack[u][1].tmp = o[2]
            PROVE  On(u, "publish", o[1])' /\ stack'[u][1].tmp = o[2]
        BY <1>1, <1>5, <4>2 DEF On
      <4>3. \/ Published(o[1]) /\ Ptr[o[1]] = o[2]
            \/ \E u \in Threads : On(u, "publish", o[1]) /\ stack[u][1].tmp = o[2]
        BY <3>1 DEF IInv, Objects
      <4> QED BY <4>1, <4>2, <4>3 DEF On, Published
    <3>2. CASE o = <<s, n>>
      <4>1. o[1] = s /\ o[2] = n
        BY <3>2
      <4>2. On(t, "publish", o[1])' /\ stack'[t][1].tmp = o[2]
        BY <1>3, <1>5, <4>1 DEF On
      <4> QED BY <4>2 DEF On
    <3>3. o \in live \/ o = <<s, n>>
      BY <1>1, <2>3
    <3> QED BY <3>1, <3>2, <3>3 DEF On, Published
  <2> QED BY <2>1, <2>2, <2>3 DEF Objects
<1>11. Listed'
  BY <1>1, <1>3, <1>4, ReplaceKeepsListed DEF Destroying
<1> QED BY <1>6, <1>7, <1>8, <1>10, <1>11 DEF IInv

(* ...and once it does, nobody is left who would construct another.          *)
LEMMA PublishHolds ==
  ASSUME IInv, NEW t \in Threads, PublishPtr(t)
  PROVE  IInv'
<1> DEFINE s == stack[t][1].s
           n == stack[t][1].tmp
           f == [stack[t][1] EXCEPT !.pc = "link"]
<1>1. /\ stack[t] # <<>> /\ stack[t][1].pc = "publish"
      /\ Ptr' = [Ptr EXCEPT ![s] = n] /\ Goto(t, "link")
      /\ UNCHANGED <<DeleterFn, StaticList, multithreaded_mode, global_lock,
                     shutting, shutdowns, live, made>>
  <2>1. stack[t] # <<>>
    BY DEF PublishPtr, At
  <2> QED BY <2>1, TopFacts DEF PublishPtr, At, mode, calls, objects
<1>2. Replaced(t, f)
  BY <1>1, TopFacts, GotoReplaces DEF Pcs
<1>3. /\ f \in Frames /\ f.pc = "link" /\ f.s = s /\ s \in Statics /\ n \in Nat
      /\ n # 0 /\ <<s, n>> \in live /\ Ptr[s] = 0
  <2>1. f \in Frames /\ f.pc = "link" /\ f.s = s /\ s \in Statics /\ n \in Nat
    BY <1>1, TopFacts DEF Frames, Pcs
  <2>2. n # 0 /\ <<s, n>> \in live /\ Ptr[s] = 0
    BY <1>1, TopFacts DEF PointersAt
  <2> QED BY <2>1, <2>2
<1>4. /\ stack'[t][1] = f /\ Len(stack'[t]) = Len(stack[t])
      /\ \A i \in 2..Len(stack[t]) : stack'[t][i] = stack[t][i]
      /\ \A u \in Threads \ {t} : stack'[u] = stack[u]
  <2>1. Len(stack[t]) \in Nat /\ Len(stack[t]) >= 1
    BY <1>1, TopFacts
  <2>2. \A i \in 2..Len(stack[t]) : i \in 1..Len(stack[t]) /\ i # 1
    BY <2>1
  <2>3. 1 \in 1..Len(stack[t])
    BY <2>1
  <2> QED BY <1>2, <2>2, <2>3 DEF Replaced, Others
<1>5. \A r \in Statics : Ptr'[r] = IF r = s THEN n ELSE Ptr[r]
  BY <1>1 DEF IInv, Types
<1>6. ASSUME NEW u \in Threads, NEW i \in 1..Len(stack[u]), u # t \/ i # 1,
             stack[u][i].pc \in Constructing, stack[u][i].pc \notin {"link", "unlock"}
      PROVE  stack[u][i].s # s /\ u = t /\ i \in 2..Len(stack[t])
             /\ stack[u][i].pc = "create"
  <2>1. u = t
    BY <1>1, <1>6, TopFacts, OneConstructs DEF Constructing
  <2>2. i \in 2..Len(stack[t])
    BY <1>6, <2>1
  <2>3. NestingAt(t, i)
    BY <1>6, <2>1 DEF IInv, Nesting
  <2>4. stack[t][i].pc = "create"
    BY <1>6, <2>1, <2>2, <2>3 DEF NestingAt, Constructing
  <2> QED BY <1>1, <2>1, <2>2, <2>4, NoCircle
<1> HIDE DEF f
<1>7. Types'
  BY <1>1, <1>2, <1>3 DEF IInv, Types, Replaced
<1>8. Nesting' /\ Locking'
  BY <1>1, <1>2, <1>3, ReplaceKeepsNesting, KeepsLocking DEF Destroying
<1>9. Pointers'
  <2> SUFFICES ASSUME NEW u \in Threads, NEW i \in 1..Len(stack'[u])
               PROVE  PointersAt(u, i)'
    BY DEF Pointers
  <2>1. CASE u = t /\ i = 1
    BY <1>1, <1>3, <1>4, <1>5, <2>1 DEF PointersAt
  <2>2. CASE u # t \/ i # 1
    <3>1. i \in 1..Len(stack[u]) /\ stack'[u][i] = stack[u][i]
          /\ PointersAt(u, i) /\ stack[u][i] \in Frames
          /\ (i > 1 => stack'[u][i - 1].s = stack[u][i - 1].s)
      <4>1. i \in 1..Len(stack[u]) /\ stack'[u][i] = stack[u][i]
        BY <1>4, <2>2
      <4>2. i > 1 => stack'[u][i - 1].s = stack[u][i - 1].s
        BY <1>3, <1>4
      <4>3. stack[u][i] \in Frames
        BY <4>1, Stacks DEF IInv, Types
      <4> QED BY <4>1, <4>2, <4>3 DEF IInv, Pointers
    <3>2. stack[u][i].s \in Statics
      BY <3>1 DEF Frames
    <3>3. stack[u][i].pc \in {"create", "publish"} => stack[u][i].s # s
      BY <1>6, <2>2, <3>1 DEF Constructing
    <3>4. \A r \in Statics : Ptr[r] # 0 => Ptr'[r] # 0
      BY <1>3, <1>5
    <3>5. stack[u][i].pc = "register" /\ ~multithreaded_mode => FALSE
      <4> SUFFICES ASSUME stack[u][i].pc = "register", ~multithreaded_mode
                   PROVE  FALSE
        OBVIOUS
      <4>1. NestingAt(u, i) /\ NestingAt(t, 1)
        BY <1>1, <3>1, TopFacts DEF IInv, Nesting
      <4> QED BY <2>2, <3>1, <4>1 DEF NestingAt
    <3>6. CtorUses[stack[u][i].s] \subseteq Statics
      BY <3>2, ManagedStaticAssumption
    <3>7. stack[u][i].pc \in {"create", "publish"} => Ptr'[stack[u][i].s] = 0
      BY <1>5, <3>1, <3>2, <3>3 DEF PointersAt
    <3> QED BY <1>1, <3>1, <3>2, <3>4, <3>5, <3>6, <3>7 DEF PointersAt
  <2> QED BY <2>1, <2>2
<1>10. ASSUME NEW r \in Statics
       PROVE  Published(r)' <=> Published(r) \/ r = s
  <2>1. \A q : On(Main, "clear", q)' <=> On(Main, "clear", q)
    BY <1>1, <1>3, <1>4, ManagedStaticAssumption DEF On
  <2>2. ~On(Main, "clear", s)
    <3> SUFFICES ASSUME On(Main, "clear", s)
                 PROVE  FALSE
      OBVIOUS
    <3>1. Main \in Threads /\ 1 \in 1..Len(stack[Main])
      BY Stacks, ManagedStaticAssumption DEF On, IInv, Types
    <3>2. NestingAt(Main, 1) /\ NestingAt(t, 1)
      BY <1>1, <3>1, TopFacts DEF IInv, Nesting
    <3> QED BY <1>1, <3>2 DEF NestingAt, On, Destroying
  <2> QED BY <1>3, <1>5, <2>1, <2>2 DEF Published
<1>11. Objects'
  <2>1. ASSUME NEW r \in Statics, Published(r)'
        PROVE  Constructed(r)'
    BY <1>1, <1>3, <1>5, <1>10, <2>1 DEF IInv, Objects, Constructed
  <2>2. ASSUME NEW o \in live
        PROVE  \/ Published(o[1])' /\ Ptr'[o[1]] = o[2]
               \/ \E u \in Threads : On(u, "publish", o[1])' /\ stack'[u][1].tmp = o[2]
    <3>1. o[1] \in Statics
      BY DEF IInv, Objects
    <3>2. CASE Published(o[1]) /\ Ptr[o[1]] = o[2]
      BY <1>3, <1>5, <1>10, <3>1, <3>2 DEF Published
    <3>3. ASSUME NEW u \in Threads, On(u, "publish", o[1]), stack[u][1].tmp = o[2]
          PROVE  \/ Published(o[1])' /\ Ptr'[o[1]] = o[2]
                 \/ On(u, "publish", o[1])' /\ stack'[u][1].tmp = o[2]
      <4>1. CASE u = t
        BY <1>5, <1>10, <3>1, <3>3, <4>1 DEF On
      <4>2. CASE u # t
        BY <1>4, <3>3, <4>2 DEF On
      <4> QED BY <4>1, <4>2
    <3> QED BY <3>2, <3>3 DEF IInv, Objects
  <2> QED BY <1>1, <2>1, <2>2 DEF IInv, Objects
<1>12. Listed'
  <2> SUFFICES ASSUME NEW r \in Statics, Ptr'[r] # 0
               PROVE  \/ \E i \in 1..Len(StaticList') : StaticList'[i] = r
                      \/ \E u \in Threads : On(u, "link", r)'
                      \/ \E i \in 1..Len(stack'[Main]) :
                           stack'[Main][i].pc \in Destroying /\ stack'[Main][i].s = r
    BY DEF Listed, On
  <2>1. CASE r = s
    <3>1. On(t, "link", r)'
      BY <1>1, <1>3, <1>4, <2>1, TopFacts DEF On
    <3> QED BY <3>1 DEF On
  <2>2. CASE r # s
    <3>1. Ptr[r] # 0
      BY <1>5, <2>2
    <3>2. \A u \in Threads : On(u, "link", r) => On(u, "link", r)'
      BY <1>1, <1>4 DEF On
    <3>3. \A i \in 1..Len(stack[Main]) : stack[Main][i].pc \in Destroying =>
            i \in 1..Len(stack'[Main]) /\ stack'[Main][i] = stack[Main][i]
      <4>1. Main \in Threads
        BY ManagedStaticAssumption
      <4> QED BY <1>1, <1>4, <4>1 DEF Destroying
    <3> QED BY <1>1, <3>1, <3>2, <3>3 DEF IInv, Listed
  <2> QED BY <2>1, <2>2
<1> QED BY <1>7, <1>8, <1>9, <1>11, <1>12 DEF IInv

(* The static goes to the head of the list.                                  *)
LEMMA AddHolds ==
  ASSUME IInv, NEW t \in Threads, AddToStaticList(t)
  PROVE  IInv'
<1> DEFINE s == stack[t][1].s
           pc == IF multithreaded_mode THEN "unlock" ELSE "deref"
           f == [stack[t][1] EXCEPT !.pc = pc]
<1>1. /\ stack[t] # <<>> /\ stack[t][1].pc = "link"
      /\ DeleterFn' = DeleterFn \cup {s} /\ StaticList' = <<s>> \o StaticList
      /\ Goto(t, pc)
      /\ UNCHANGED <<Ptr, multithreaded_mode, global_lock, shutting, shutdowns,
                     live, made>>
  <2>1. stack[t] # <<>>
    BY DEF AddToStaticList, At
  <2> QED BY <2>1, TopFacts DEF AddToStaticList, At, mode, calls, objects
<1>2. Replaced(t, f)
  BY <1>1, TopFacts, GotoReplaces DEF Pcs
<1>3. /\ f \in Frames /\ f.pc = pc /\ f.s = s /\ s \in Statics
      /\ stack'[t][1] = f
  BY <1>1, <1>2, TopFacts DEF Frames, Pcs, Replaced
<1>4. /\ Len(stack'[t]) = Len(stack[t]) /\ Len(stack[t]) \in Nat
      /\ \A i \in 1..Len(stack[t]) :
           stack'[t][i] = IF i = 1 THEN f ELSE stack[t][i]
      /\ \A u \in Threads \ {t} : stack'[u] = stack[u]
  BY <1>1, <1>2, TopFacts DEF Replaced, Others
<1>5. /\ StaticList' \in Seq(Statics) /\ Len(StaticList') = Len(StaticList) + 1
      /\ Len(StaticList) \in Nat
      /\ StaticList'[1] = s
      /\ \A i \in 1..Len(StaticList) : StaticList'[i + 1] = StaticList[i]
  <2> DEFINE q == <<s>> \o StaticList
  <2>1. StaticList \in Seq(Statics)
    BY DEF IInv, Types
  <2>2. /\ q \in Seq(Statics) /\ Len(q) = Len(StaticList) + 1 /\ q[1] = s
        /\ Len(StaticList) \in Nat
        /\ \A i \in 1..Len(StaticList) : q[i + 1] = StaticList[i]
    <3> HIDE DEF s
    <3> QED BY <1>3, <2>1
  <2> HIDE DEF q
  <2>3. StaticList' = q
    BY <1>1 DEF q
  <2> QED BY <2>2, <2>3
<1> HIDE DEF f
<1>6. Types'
  BY <1>1, <1>2, <1>3, <1>5 DEF IInv, Types, Replaced
<1>7. Nesting' /\ Locking'
  BY <1>1, <1>2, <1>3, ReplaceKeepsNesting, KeepsLocking DEF Destroying
<1>8. Pointers'
  <2>1. PointersAt(t, 1)'
    BY <1>1, <1>3, TopFacts DEF PointersAt
  <2> QED BY <1>1, <1>2, <1>3, <2>1, ReplaceKeepsPointers
          DEF IInv, Pointers, PointersAt
<1>9. Objects'
  BY <1>1, <1>2, <1>3, ReplaceKeepsObjects
<1>10. ASSUME NEW r \in Statics, Ptr'[r] # 0
       PROVE  \/ \E i \in 1..Len(StaticList') : StaticList'[i] = r
              \/ \E u \in Threads : On(u, "link", r)'
              \/ \E i \in 1..Len(stack'[Main]) :
                   stack'[Main][i].pc \in Destroying /\ stack'[Main][i].s = r
  <2>1. \/ \E i \in 1..Len(StaticList) : StaticList[i] = r
        \/ \E u \in Threads : On(u, "link", r)
        \/ \E i \in 1..Len(stack[Main]) :
             stack[Main][i].pc \in Destroying /\ stack[Main][i].s = r
    BY <1>1, <1>10 DEF IInv, Listed
  <2>2. CASE r = s
    <3>1. 1 \in 1..Len(StaticList')
      BY <1>5
    <3> QED BY <1>5, <2>2, <3>1
  <2>3. ASSUME NEW i \in 1..Len(StaticList), StaticList[i] = r
        PROVE  i + 1 \in 1..Len(StaticList') /\ StaticList'[i + 1] = r
    BY <1>5, <2>3
  <2>4. ASSUME NEW u \in Threads, On(u, "link", r), r # s
        PROVE  On(u, "link", r)'
    BY <1>1, <1>4, <2>4 DEF On
  <2>5. ASSUME NEW i \in 1..Len(stack[Main]), stack[Main][i].pc \in Destroying
        PROVE  i \in 1..Len(stack'[Main]) /\ stack'[Main][i] = stack[Main][i]
    BY <1>1, <1>4, <2>5, ManagedStaticAssumption DEF Destroying
  <2>6. CASE \E i \in 1..Len(StaticList) : StaticList[i] = r
    BY <2>3, <2>6
  <2>7. CASE \E u \in Threads : On(u, "link", r)
    BY <2>2, <2>4, <2>7
  <2>8. CASE \E i \in 1..Len(stack[Main]) :
               stack[Main][i].pc \in Destroying /\ stack[Main][i].s = r
    BY <2>5, <2>8
  <2> QED BY <2>1, <2>6, <2>7, <2>8
<1>11. Listed'
  BY <1>10 DEF Listed, On
<1> QED BY <1>6, <1>7, <1>8, <1>9, <1>11 DEF IInv
-----------------------------------------------------------------------------
(* A call starts: it has not taken the lock yet, and it registers the static *)
(* only if that is not constructed.                                          *)
LEMMA AccessHolds ==
  ASSUME IInv, NEW t \in Threads, NEW s \in Statics, Access(t, s)
  PROVE  IInv'
<1> DEFINE f == Frame(s, IF Ptr[s] = 0 THEN "register" ELSE "deref", {})
<1>1. /\ stack[t] = <<>> /\ ~shutting /\ (multithreaded_mode \/ t = Main)
      /\ stack' = [stack EXCEPT ![t] = <<f>>]
      /\ UNCHANGED <<Ptr, DeleterFn, StaticList, multithreaded_mode, global_lock,
                     shutting, shutdowns, live, made>>
  BY DEF Access, Enter, list, mode, calls, objects
<1>2. /\ f \in Frames /\ f.s = s /\ f.pc \in {"register", "deref"}
      /\ f.pc = "register" <=> Ptr[s] = 0
  BY DEF Frames, Frame, Pcs
<1> HIDE DEF f
<1>3. Single(t, f)
  BY <1>1, <1>2, FirstFrame DEF IInv, Types
<1>4. /\ Len(stack[t]) = 0 /\ Len(stack'[t]) = 1 /\ stack'[t][1] = f
      /\ \A u \in Threads \ {t} : stack'[u] = stack[u]
  BY <1>3 DEF Single, Others
<1>5. Types'
  BY <1>1, <1>3 DEF IInv, Types, Single
<1>6. Nesting'
  <2>1. ASSUME NEW u \in Threads, NEW i \in 1..Len(stack'[u])
        PROVE  NestingAt(u, i)'
    <3>1. CASE u = t
      BY <1>1, <1>2, <1>4, <3>1 DEF NestingAt, Destroying
    <3>2. CASE u # t
      BY <1>1, <1>4, <3>2 DEF IInv, Nesting, NestingAt
    <3> QED BY <3>1, <3>2
  <2> QED BY <1>1, <2>1 DEF Nesting
<1>7. \A u \in Threads : Locks(u)' = Locks(u)
  <2>1. Locks(t)' = 0
    BY <1>2, <1>4 DEF Locks, One, Destroying
  <2>2. Locks(t) = 0
    BY <1>4 DEF Locks
  <2> QED BY <1>4, <2>1, <2>2 DEF Locks
<1>8. Locking'
  BY <1>1, <1>7 DEF IInv, Locking
<1>9. Pointers'
  <2>1. ASSUME NEW u \in Threads, NEW i \in 1..Len(stack'[u])
        PROVE  PointersAt(u, i)'
    <3>1. CASE u = t
      BY <1>1, <1>2, <1>4, <3>1 DEF PointersAt
    <3>2. CASE u # t
      BY <1>1, <1>4, <3>2 DEF IInv, Pointers, PointersAt
    <3> QED BY <3>1, <3>2
  <2> QED BY <2>1 DEF Pointers
<1>10. \A u \in Threads, pc \in {"publish", "clear", "link"} : \A r :
         /\ On(u, pc, r)' <=> On(u, pc, r)
         /\ On(u, pc, r) => stack'[u] = stack[u]
  BY <1>2, <1>4 DEF On
<1>11. Objects'
  <2>1. \A r : Published(r)' <=> Published(r)
    BY <1>1, <1>10, ManagedStaticAssumption DEF Published
  <2> QED BY <1>1, <1>10, <2>1 DEF IInv, Objects, Constructed
<1>12. Listed'
  <2>1. \A i \in 1..Len(stack[Main]) :
          i \in 1..Len(stack'[Main]) /\ stack'[Main][i] = stack[Main][i]
    BY <1>4, ManagedStaticAssumption
  <2> QED BY <1>1, <1>10, <2>1 DEF IInv, Listed
<1> QED BY <1>5, <1>6, <1>8, <1>9, <1>11, <1>12 DEF IInv

(* A constructor or destructor calls an accessor.                            *)
LEMMA NestedHolds ==
  ASSUME IInv, NEW t \in Threads, NestedAccess(t)
  PROVE  IInv'
<1> DEFINE top == stack[t][1]
           n == Len(stack[t])
<1>1. PICK v \in top.todo :
        /\ stack[t] # <<>> /\ top.pc \in {"create", "delete"}
        /\ stack' = [stack EXCEPT ![t] =
             Enter(t, v) \o [stack[t] EXCEPT ![1].todo = Top(t).todo \ {v}]]
        /\ UNCHANGED <<Ptr, DeleterFn, StaticList, multithreaded_mode,
                       global_lock, shutting, shutdowns, live, made>>
  <2>1. stack[t] # <<>>
    BY DEF NestedAccess
  <2>2. /\ Top(t) = top /\ Top(t).pc \in {"create", "delete"}
        /\ UNCHANGED <<Ptr, DeleterFn, StaticList, multithreaded_mode,
                       global_lock, shutting, shutdowns, live, made>>
    BY <2>1, TopFacts DEF NestedAccess, list, mode, calls, objects
  <2>3. \E v \in Top(t).todo :
          stack' = [stack EXCEPT ![t] =
            Enter(t, v) \o [stack[t] EXCEPT ![1].todo = Top(t).todo \ {v}]]
    BY Zenon DEF NestedAccess
  <2> HIDE DEF top
  <2> QED BY <2>1, <2>2, <2>3, Zenon
<1> DEFINE f == Frame(v, IF Ptr[v] = 0 THEN "register" ELSE "deref", {})
           g == [top EXCEPT !.todo = top.todo \ {v}]
<1>0. /\ stack[t] # <<>> /\ top.pc \in {"create", "delete"}
      /\ UNCHANGED <<Ptr, DeleterFn, StaticList, multithreaded_mode,
                     global_lock, shutting, shutdowns, live, made>>
  BY <1>1
<1>2. top \in Frames /\ n \in Nat /\ n >= 1 /\ NestingAt(t, 1) /\ PointersAt(t, 1)
      /\ stack \in [Threads -> Seq(Frames)]
  BY <1>0, TopFacts
<1>3. /\ f \in Frames /\ f.s = v /\ f.pc \in {"register", "deref"}
      /\ f.pc = "register" <=> Ptr[v] = 0
  BY <1>2 DEF Frames, Frame, Pcs
<1>4. /\ g \in Frames /\ g.s = top.s /\ g.pc = top.pc
      /\ g.todo = top.todo \ {v}
  BY <1>2 DEF Frames
<1>5. Pushed(t, f, g)
  <2>1. stack' = [stack EXCEPT ![t] = <<f>> \o [@ EXCEPT ![1] = g]]
    <3>1. stack' = [stack EXCEPT ![t] =
                      <<f>> \o [stack[t] EXCEPT ![1].todo = Top(t).todo \ {v}]]
      <4>1. stack' = [stack EXCEPT ![t] =
                         Enter(t, v) \o [stack[t] EXCEPT ![1].todo = Top(t).todo \ {v}]]
        BY <1>1
      <4>2. Enter(t, v) = <<f>>
        BY DEF Enter
      <4> QED BY <4>1, <4>2, Zenon
    <3>2. [stack[t] EXCEPT ![1].todo = Top(t).todo \ {v}]
          = [stack[t] EXCEPT ![1] = g]
      BY <1>0, TopFacts
    <3> QED BY <3>1, <3>2
  <2> HIDE DEF f, g, top
  <2> QED BY <1>0, <1>2, <1>3, <1>4, <2>1, PushPushes
<1> HIDE DEF f, g
<1>6. /\ Len(stack'[t]) = n + 1
      /\ stack'[t][1] = f /\ stack'[t][2] = g
      /\ \A i \in 3..(n + 1) : stack'[t][i] = stack[t][i - 1] /\ i - 1 \in 2..n
      /\ \A u \in Threads \ {t} : stack'[u] = stack[u]
  <2>1. 1 \in 1..(n + 1) /\ 2 \in 1..(n + 1)
        /\ \A i \in 3..(n + 1) : i \in 1..(n + 1) /\ i - 1 \in 2..n /\ i # 1 /\ i # 2
    BY <1>2
  <2> QED BY <1>5, <2>1 DEF Pushed, Others
<1>7. \A i \in 1..(n + 1) : i = 1 \/ i = 2 \/ i \in 3..(n + 1)
  BY <1>2
<1>8. Types'
  BY <1>0, <1>5 DEF IInv, Types, Pushed
<1>9. Nesting'
  <2>1. NestingAt(t, 1)'
    BY <1>0, <1>2, <1>3, <1>6 DEF NestingAt, Destroying
  <2>2. NestingAt(t, 2)'
    BY <1>0, <1>2, <1>3, <1>4, <1>6 DEF NestingAt, Destroying
  <2>3. ASSUME NEW i \in 3..(n + 1)
        PROVE  NestingAt(t, i)'
    <3>1. NestingAt(t, i - 1) /\ i - 1 \in 2..n /\ stack'[t][i] = stack[t][i - 1]
      <4>1. i - 1 \in 1..n
        BY <1>2
      <4> QED BY <1>6, <4>1 DEF IInv, Nesting
    <3>2. stack'[t][i - 1].s = stack[t][i - 2].s
      <4>1. CASE i = 3
        BY <1>4, <1>6, <4>1
      <4>2. CASE i > 3
        <5>1. i - 1 \in 3..(n + 1) /\ (i - 1) - 1 = i - 2
          BY <1>2, <4>2
        <5> QED BY <1>6, <5>1
      <4> QED BY <4>1, <4>2
    <3>3. (i - 1) - 1 = i - 2 /\ i > 1 /\ i - 1 > 1 /\ (i - 1 = n => i = n + 1)
      BY <1>2
    <3> QED BY <1>0, <1>6, <3>1, <3>2, <3>3 DEF NestingAt
  <2>4. ASSUME NEW u \in Threads \ {t}, NEW i \in 1..Len(stack'[u])
        PROVE  NestingAt(u, i)'
    <3>1. stack'[u] = stack[u]
      BY <1>6
    <3>2. NestingAt(u, i)
      BY <3>1 DEF IInv, Nesting
    <3> QED BY <1>0, <3>1, <3>2 DEF NestingAt
  <2>5. shutting' /\ Len(stack'[Main]) > 0 =>
          stack'[Main][Len(stack'[Main])].pc \in Destroying
    <3>1. CASE Main # t
      BY <1>0, <1>6, <3>1, ManagedStaticAssumption DEF IInv, Nesting
    <3>2. CASE Main = t
      <4>1. shutting => stack[t][n].pc \in Destroying
        BY <1>2, <3>2 DEF IInv, Nesting
      <4>2. stack'[t][n + 1].pc = stack[t][n].pc
        <5>1. CASE n = 1
          BY <1>4, <1>6, <5>1
        <5>2. CASE n > 1
          <6>1. n + 1 \in 3..(n + 1) /\ (n + 1) - 1 = n
            BY <1>2, <5>2
          <6> QED BY <1>6, <6>1
        <5>3. n = 1 \/ n > 1
          <6> HIDE DEF n
          <6> QED BY <1>2
        <5> QED BY <5>1, <5>2, <5>3
      <4> QED BY <1>0, <1>6, <3>2, <4>1, <4>2
    <3> QED BY <3>1, <3>2
  <2> QED BY <1>6, <1>7, <2>1, <2>2, <2>3, <2>4, <2>5 DEF Nesting
<1>10. \A u \in Threads : Locks(u)' = Locks(u)
  <2> DEFINE bottom == stack[t][n].pc \in Destroying
  <2>1. Locks(t) = n - One(bottom) - 0
    BY <1>0, <1>2 DEF Locks, One
  <2>2. stack'[t][n + 1].pc = stack[t][n].pc
    <3>1. CASE n = 1
      BY <1>4, <1>6, <3>1
    <3>2. CASE n > 1
      <4>1. n + 1 \in 3..(n + 1) /\ (n + 1) - 1 = n
        BY <1>2, <3>2
      <4> QED BY <1>6, <4>1
    <3>3. n = 1 \/ n > 1
      <4> HIDE DEF n
      <4> QED BY <1>2
    <3> QED BY <3>1, <3>2, <3>3
  <2>3. Locks(t)' = (n + 1) - One(bottom) - 1
    <3>1. Locks(t)' = (n + 1) - One(bottom) - One(stack'[t][1].pc \in {"register", "deref"})
      BY <1>2, <1>6, <2>2 DEF Locks
    <3>2. One(stack'[t][1].pc \in {"register", "deref"}) = 1
      BY <1>3, <1>6 DEF One
    <3> QED BY <3>1, <3>2
  <2>4. One(bottom) \in 0..1
    BY DEF One
  <2> HIDE DEF bottom
  <2>5. Locks(t)' = Locks(t)
    BY <1>2, <2>1, <2>3, <2>4
  <2>6. \A u \in Threads \ {t} : Locks(u)' = Locks(u)
    BY <1>6 DEF Locks
  <2> QED BY <2>5, <2>6
<1>11. Locking'
  BY <1>0, <1>10 DEF IInv, Locking
<1>12. Pointers'
  <2>1. PointersAt(t, 1)'
    BY <1>0, <1>3, <1>6 DEF PointersAt
  <2>2. PointersAt(t, 2)'
    <3>1. g.pc = "create" =>
            /\ Ptr[g.s] = 0
            /\ \A w \in CtorUses[g.s] : Ptr[w] # 0 \/ w \in g.todo \/ w = f.s
      BY <1>2, <1>3, <1>4 DEF PointersAt
    <3>2. g.pc \in {"create", "delete"}
      BY <1>0, <1>4
    <3>3. stack'[t][2] = g /\ stack'[t][2 - 1].s = f.s /\ 2 > 1
      BY <1>6
    <3>4. g.pc = "create" =>
            \A w \in CtorUses[g.s] :
              \/ Ptr[w] # 0
              \/ g.pc = "create" /\ w \in g.todo
              \/ 2 > 1 /\ stack'[t][2 - 1].s = w
      BY <3>1, <3>3
    <3> QED BY <1>0, <3>1, <3>2, <3>3, <3>4 DEF PointersAt
  <2>3. ASSUME NEW i \in 3..(n + 1)
        PROVE  PointersAt(t, i)'
    <3>1. /\ PointersAt(t, i - 1) /\ i - 1 \in 2..n
          /\ stack'[t][i] = stack[t][i - 1]
      <4>1. i - 1 \in 1..n
        BY <1>2
      <4> QED BY <1>6, <4>1 DEF IInv, Pointers
    <3>2. stack'[t][i - 1].s = stack[t][i - 2].s
      <4>1. CASE i = 3
        BY <1>4, <1>6, <4>1
      <4>2. CASE i > 3
        <5>1. i - 1 \in 3..(n + 1) /\ (i - 1) - 1 = i - 2
          BY <1>2, <4>2
        <5> QED BY <1>6, <5>1
      <4> QED BY <4>1, <4>2
    <3>3. (i - 1) - 1 = i - 2 /\ i > 1 /\ i - 1 > 1
      BY <1>2
    <3>4. stack[t][(i - 1) - 1].s = stack'[t][i - 1].s
      BY <3>2, <3>3
    <3> QED BY <1>0, <3>1, <3>3, <3>4 DEF PointersAt
  <2>4. ASSUME NEW u \in Threads \ {t}, NEW i \in 1..Len(stack'[u])
        PROVE  PointersAt(u, i)'
    <3>1. stack'[u] = stack[u]
      BY <1>6
    <3>2. PointersAt(u, i)
      BY <3>1 DEF IInv, Pointers
    <3> QED BY <1>0, <3>1, <3>2 DEF PointersAt
  <2> QED BY <1>6, <1>7, <2>1, <2>2, <2>3, <2>4 DEF Pointers
<1>13. \A u \in Threads, pc \in {"publish", "clear", "link"} : \A r :
         /\ On(u, pc, r)' <=> On(u, pc, r)
         /\ On(u, pc, r) => stack'[u] = stack[u]
  BY <1>0, <1>3, <1>6 DEF On
<1>14. Objects'
  <2>1. \A r : Published(r)' <=> Published(r)
    BY <1>0, <1>13, ManagedStaticAssumption DEF Published
  <2> QED BY <1>0, <1>13, <2>1 DEF IInv, Objects, Constructed
<1>15. Listed'
  <2>1. ASSUME NEW i \in 1..Len(stack[Main])
        PROVE  \E j \in 1..Len(stack'[Main]) :
                 stack'[Main][j].pc = stack[Main][i].pc /\ stack'[Main][j].s = stack[Main][i].s
    <3>1. CASE Main # t
      BY <1>6, <3>1, ManagedStaticAssumption
    <3>2. CASE Main = t
      <4>1. i + 1 \in 1..(n + 1)
        BY <1>2, <3>2
      <4>2. stack'[t][i + 1].pc = stack[t][i].pc /\ stack'[t][i + 1].s = stack[t][i].s
        <5>1. CASE i = 1
          BY <1>4, <1>6, <5>1
        <5>2. CASE i > 1
          <6>1. i + 1 \in 3..(n + 1) /\ (i + 1) - 1 = i
            BY <1>2, <3>2, <5>2
          <6> QED BY <1>6, <6>1
        <5> QED BY <5>1, <5>2
      <4> QED BY <1>6, <3>2, <4>1, <4>2
    <3> QED BY <3>1, <3>2
  <2>2. \A u \in Threads : \A r : On(u, "link", r) => On(u, "link", r)'
    BY <1>13
  <2> QED BY <1>0, <2>1, <2>2 DEF IInv, Listed, On
<1> QED BY <1>8, <1>9, <1>11, <1>12, <1>14, <1>15 DEF IInv

(* The call that is over had no lock any more and leaves its static          *)
(* constructed.                                                              *)
LEMMA DereferenceHolds ==
  ASSUME IInv, NEW t \in Threads, Dereference(t)
  PROVE  IInv'
<1> DEFINE top == stack[t][1]
           n == Len(stack[t])
<1>1. /\ stack[t] # <<>> /\ top.pc = "deref" /\ Pop(t)
      /\ UNCHANGED <<Ptr, DeleterFn, StaticList, multithreaded_mode, global_lock,
                     shutting, shutdowns, live, made>>
  <2>1. stack[t] # <<>>
    BY DEF Dereference, At
  <2> QED BY <2>1, TopFacts DEF Dereference, At, list, mode, calls, objects
<1>2. top \in Frames /\ n \in Nat /\ n >= 1 /\ NestingAt(t, 1) /\ PointersAt(t, 1)
      /\ stack \in [Threads -> Seq(Frames)]
  BY <1>1, TopFacts
<1>3. Popped(t)
  BY <1>1, <1>2, PopPops
<1>4. /\ Len(stack'[t]) = n - 1
      /\ \A i \in 1..(n - 1) : stack'[t][i] = stack[t][i + 1] /\ i + 1 \in 2..n
      /\ \A u \in Threads \ {t} : stack'[u] = stack[u]
  BY <1>2, <1>3 DEF Popped, Others
<1>5. \A i \in 2..n : NestingAt(t, i) /\ PointersAt(t, i)
                      /\ stack[t][i].pc \in {"create", "delete"}
  <2>1. \A i \in 2..n : i \in 1..n /\ i > 1
    BY <1>2
  <2> QED BY <1>2, <2>1 DEF IInv, Nesting, Pointers, NestingAt
<1>6. Types'
  BY <1>1, <1>3 DEF IInv, Types, Popped
<1>7. Nesting'
  <2>1. ASSUME NEW i \in 1..(n - 1)
        PROVE  NestingAt(t, i)'
    <3>1. NestingAt(t, i + 1) /\ stack'[t][i] = stack[t][i + 1]
          /\ i + 1 > 1 /\ (i + 1) - 1 = i /\ (i + 1 = n => i = n - 1)
      <4>1. n \in Nat
        BY <1>2
      <4> HIDE DEF n
      <4>2. i + 1 \in 2..n
        BY <4>1
      <4>3. i + 1 > 1 /\ (i + 1) - 1 = i /\ (i + 1 = n => i = n - 1)
        BY <4>1
      <4> QED BY <1>4, <1>5, <4>2, <4>3
    <3>2. i > 1 => stack'[t][i - 1] = stack[t][i]
      <4> SUFFICES ASSUME i > 1
                   PROVE  stack'[t][i - 1] = stack[t][i]
        OBVIOUS
      <4>1. i - 1 \in 1..(n - 1) /\ (i - 1) + 1 = i
        BY <1>2
      <4> QED BY <1>4, <4>1
    <3>3. i + 1 \in 2..n
      BY <1>2
    <3> QED BY <1>1, <1>4, <1>5, <3>1, <3>2, <3>3 DEF NestingAt
  <2>2. ASSUME NEW u \in Threads \ {t}, NEW i \in 1..Len(stack'[u])
        PROVE  NestingAt(u, i)'
    <3>1. stack'[u] = stack[u]
      BY <1>4
    <3>2. NestingAt(u, i)
      BY <3>1 DEF IInv, Nesting
    <3> QED BY <1>1, <3>1, <3>2 DEF NestingAt
  <2>3. shutting' /\ Len(stack'[Main]) > 0 =>
          stack'[Main][Len(stack'[Main])].pc \in Destroying
    <3>1. CASE Main # t
      BY <1>1, <1>4, <3>1, ManagedStaticAssumption DEF IInv, Nesting
    <3>2. CASE Main = t
      <4> SUFFICES ASSUME shutting, n - 1 > 0
                   PROVE  stack'[t][n - 1].pc \in Destroying
        BY <1>1, <1>4, <3>2
      <4>1. n - 1 \in 1..(n - 1) /\ (n - 1) + 1 = n
        BY <1>2
      <4>2. stack[t][n].pc \in Destroying
        BY <1>2, <3>2 DEF IInv, Nesting
      <4> QED BY <1>4, <4>1, <4>2
    <3> QED BY <3>1, <3>2
  <2> QED BY <1>4, <2>1, <2>2, <2>3 DEF Nesting
<1>8. \A u \in Threads : Locks(u)' = Locks(u)
  <2>1. Locks(t)' = Locks(t)
    <3>1. CASE n = 1
      BY <1>1, <1>4, <3>1 DEF Locks, One, Destroying
    <3>2. CASE n > 1
      <4> DEFINE bottom == stack[t][n].pc \in Destroying
      <4>1. Locks(t) = n - One(bottom) - 1
        BY <1>1, <1>2 DEF Locks, One
      <4>2. /\ stack'[t][n - 1] = stack[t][n] /\ stack'[t][1] = stack[t][2]
            /\ stack[t][2].pc \in {"create", "delete"}
        <5>1. n - 1 \in 1..(n - 1) /\ (n - 1) + 1 = n /\ 1 \in 1..(n - 1) /\ 2 \in 2..n
          BY <1>2, <3>2
        <5> QED BY <1>4, <1>5, <5>1
      <4>3. Locks(t)' = (n - 1) - One(bottom) - 0
        <5>1. One(stack'[t][1].pc \in {"register", "deref"}) = 0
          BY <4>2 DEF One
        <5>2. Locks(t)' = (n - 1) - One(bottom)
                          - One(stack'[t][1].pc \in {"register", "deref"})
          BY <1>2, <1>4, <3>2, <4>2 DEF Locks
        <5> QED BY <5>1, <5>2
      <4>4. One(bottom) \in 0..1
        BY DEF One
      <4> HIDE DEF bottom
      <4> QED BY <1>2, <4>1, <4>3, <4>4
    <3>3. n = 1 \/ n > 1
      <4> HIDE DEF n
      <4> QED BY <1>2
    <3> QED BY <3>1, <3>2, <3>3
  <2>2. \A u \in Threads \ {t} : Locks(u)' = Locks(u)
    BY <1>4 DEF Locks
  <2> QED BY <2>1, <2>2
<1>9. Locking'
  BY <1>1, <1>8 DEF IInv, Locking
<1>10. Pointers'
  <2>1. ASSUME NEW i \in 1..(n - 1)
        PROVE  PointersAt(t, i)'
    <3>1. PointersAt(t, i + 1) /\ stack'[t][i] = stack[t][i + 1]
          /\ i + 1 > 1 /\ (i + 1) - 1 = i /\ stack[t][i + 1].pc \in {"create", "delete"}
      BY <1>2, <1>4, <1>5
    <3>2. i > 1 => stack'[t][i - 1] = stack[t][i]
      <4> SUFFICES ASSUME i > 1
                   PROVE  stack'[t][i - 1] = stack[t][i]
        OBVIOUS
      <4>1. i - 1 \in 1..(n - 1) /\ (i - 1) + 1 = i
        BY <1>2
      <4> QED BY <1>4, <4>1
    <3>3. Ptr[top.s] # 0
      BY <1>1, <1>2 DEF PointersAt
    <3>4. CASE i = 1
      BY <1>1, <3>1, <3>3, <3>4 DEF PointersAt
    <3>5. CASE i > 1
      BY <1>1, <3>1, <3>2, <3>5 DEF PointersAt
    <3> QED BY <3>4, <3>5
  <2>2. ASSUME NEW u \in Threads \ {t}, NEW i \in 1..Len(stack'[u])
        PROVE  PointersAt(u, i)'
    <3>1. stack'[u] = stack[u]
      BY <1>4
    <3>2. PointersAt(u, i)
      BY <3>1 DEF IInv, Pointers
    <3> QED BY <1>1, <3>1, <3>2 DEF PointersAt
  <2> QED BY <1>4, <2>1, <2>2 DEF Pointers
<1>11. \A u \in Threads, pc \in {"publish", "clear", "link"} : \A r :
         /\ On(u, pc, r)' <=> On(u, pc, r)
         /\ On(u, pc, r) => stack'[u] = stack[u]
  <2>1. n > 1 => stack'[t][1].pc \in {"create", "delete"}
    <3> SUFFICES ASSUME n > 1
                 PROVE  stack'[t][1].pc \in {"create", "delete"}
      OBVIOUS
    <3>1. 1 \in 1..(n - 1) /\ 1 + 1 = 2 /\ 2 \in 2..n
      BY <1>2
    <3> QED BY <1>4, <1>5, <3>1
  <2> QED BY <1>1, <1>2, <1>4, <2>1 DEF On
<1>12. Objects'
  <2>1. \A r : Published(r)' <=> Published(r)
    BY <1>1, <1>11, ManagedStaticAssumption DEF Published
  <2> QED BY <1>1, <1>11, <2>1 DEF IInv, Objects, Constructed
<1>13. Listed'
  <2>1. ASSUME NEW i \in 1..Len(stack[Main]), stack[Main][i].pc \in Destroying
        PROVE  \E j \in 1..Len(stack'[Main]) : stack'[Main][j] = stack[Main][i]
    <3>1. CASE Main # t
      BY <1>4, <3>1, ManagedStaticAssumption
    <3>2. CASE Main = t
      <4>1. i # 1
        BY <1>1, <2>1, <3>2 DEF Destroying
      <4>2. i - 1 \in 1..(n - 1) /\ (i - 1) + 1 = i
        BY <1>2, <3>2, <4>1
      <4> QED BY <1>4, <3>2, <4>2
    <3> QED BY <3>1, <3>2
  <2> QED BY <1>1, <1>11, <2>1 DEF IInv, Listed
<1> QED BY <1>6, <1>7, <1>9, <1>10, <1>12, <1>13 DEF IInv
-----------------------------------------------------------------------------
(* During the shutdown only Main can have calls in progress.                 *)
LEMMA OnlyMain ==
  ASSUME IInv, shutting, NEW t \in Threads, t # Main
  PROVE  Len(stack[t]) = 0
<1>1. Len(stack[t]) \in Nat
  BY Stacks DEF IInv, Types
<1>2. \A i \in 1..Len(stack[t]) : NestingAt(t, i)
  BY DEF IInv, Nesting
<1> QED BY <1>1, <1>2 DEF NestingAt

LEMMA NobodyCalls ==
  ASSUME IInv, Isolated \/ (shutting /\ stack[Main] = <<>>)
  PROVE  \A t \in Threads : Len(stack[t]) = 0
<1>1. \A t \in Threads : stack[t] = <<>> => Len(stack[t]) = 0
  OBVIOUS
<1> QED BY <1>1, OnlyMain, ManagedStaticAssumption DEF Isolated

(* Nothing that the proofs speak of is there while nobody calls.             *)
LEMMA QuietHolds ==
  ASSUME IInv, \A t \in Threads : Len(stack[t]) = 0, Types',
         UNCHANGED <<Ptr, StaticList, stack, live>>,
         multithreaded_mode' => \/ UNCHANGED <<multithreaded_mode, global_lock>>
                                \/ global_lock' = [owner |-> NoThread, depth |-> 0]
  PROVE  IInv'
<1>1. Main \in Threads /\ NoThread \notin Threads
  BY ManagedStaticAssumption
<1>2. \A t \in Threads : Len(stack'[t]) = 0
  OBVIOUS
<1>3. Nesting' /\ Pointers'
  BY <1>1, <1>2 DEF Nesting, Pointers
<1>4. Locking'
  <2>1. \A t \in Threads : Locks(t)' = 0 /\ Locks(t) = 0
    BY <1>2 DEF Locks
  <2>2. CASE global_lock' = [owner |-> NoThread, depth |-> 0]
    BY <1>1, <2>1, <2>2 DEF Locking
  <2>3. CASE UNCHANGED <<multithreaded_mode, global_lock>>
    BY <2>1, <2>3 DEF Locking, IInv
  <2> QED BY <2>2, <2>3 DEF Locking
<1>5. Objects' /\ Listed'
  BY DEF IInv, Objects, Listed, On, Published, Constructed
<1> QED BY <1>3, <1>4, <1>5 DEF IInv

LEMMA StartHolds ==
  ASSUME IInv, StartMultithreaded
  PROVE  IInv'
<1>1. Types'
  BY ManagedStaticAssumption DEF StartMultithreaded, IInv, Types, list, calls, objects
<1> QED BY <1>1, NobodyCalls, QuietHolds
        DEF StartMultithreaded, list, calls, objects

LEMMA BeginHolds ==
  ASSUME IInv, ShutdownBegin
  PROVE  IInv'
<1>1. Types'
  BY DEF ShutdownBegin, IInv, Types, list, mode, objects
<1> QED BY <1>1, NobodyCalls, QuietHolds
        DEF ShutdownBegin, list, mode, objects

LEMMA EndHolds ==
  ASSUME IInv, ShutdownEnd
  PROVE  IInv'
<1>1. Types'
  BY DEF ShutdownEnd, IInv, Types, list, objects
<1> QED BY <1>1, NobodyCalls, QuietHolds DEF ShutdownEnd, list, objects

(* The head of the list becomes the object that Main destroys.               *)
LEMMA DestroyHolds ==
  ASSUME IInv, DestroyHead
  PROVE  IInv'
<1> DEFINE s == Head(StaticList)
           f == Frame(s, "delete", DtorUses[s])
<1>1. /\ shutting /\ stack[Main] = <<>> /\ StaticList # <<>>
      /\ stack' = [stack EXCEPT ![Main] = <<f>>]
      /\ StaticList' = Tail(StaticList)
      /\ UNCHANGED <<Ptr, DeleterFn, multithreaded_mode, global_lock, shutting,
                     shutdowns, live, made>>
  BY DEF DestroyHead, DestroyWith, mode, calls, objects
<1>2. /\ StaticList \in Seq(Statics) /\ Len(StaticList) \in Nat
      /\ Len(StaticList) >= 1 /\ s = StaticList[1] /\ s \in Statics
      /\ Tail(StaticList) \in Seq(Statics)
      /\ Len(Tail(StaticList)) = Len(StaticList) - 1
      /\ \A i \in 1..(Len(StaticList) - 1) : Tail(StaticList)[i] = StaticList[i + 1]
  BY <1>1 DEF IInv, Types
<1>3. f \in Frames /\ f.s = s /\ f.pc = "delete"
  BY <1>2, ManagedStaticAssumption DEF Frames, Frame, Pcs
<1> HIDE DEF f
<1>4. Single(Main, f)
  BY <1>1, <1>3, FirstFrame, ManagedStaticAssumption DEF IInv, Types
<1>5. /\ Len(stack[Main]) = 0 /\ Len(stack'[Main]) = 1 /\ stack'[Main][1] = f
      /\ \A t \in Threads : Len(stack[t]) = 0
      /\ \A t \in Threads \ {Main} : Len(stack'[t]) = 0
  BY <1>1, <1>4, NobodyCalls DEF Single, Others
<1>6. Types'
  BY <1>1, <1>2, <1>4 DEF IInv, Types, Single
<1>7. Nesting'
  <2>1. NestingAt(Main, 1)'
    BY <1>1, <1>3, <1>5 DEF NestingAt, Destroying
  <2>2. ASSUME NEW t \in Threads, NEW i \in 1..Len(stack'[t])
        PROVE  t = Main /\ i = 1
    <3>1. CASE t = Main
      <4>1. Len(stack'[t]) = 1
        BY <1>5, <3>1
      <4>2. i \in 1..1
        BY <4>1
      <4> QED BY <3>1, <4>2
    <3>2. CASE t # Main
      <4>1. Len(stack'[t]) = 0
        BY <1>5, <3>2
      <4> QED BY <4>1
    <3> QED BY <3>1, <3>2
  <2>3. stack'[Main][Len(stack'[Main])].pc \in Destroying
    BY <1>3, <1>5 DEF Destroying
  <2> QED BY <2>1, <2>2, <2>3 DEF Nesting
<1>8. Locking'
  <2>1. \A t \in Threads : Locks(t) = 0
    BY <1>5 DEF Locks
  <2>2. \A t \in Threads \ {Main} : Locks(t)' = 0
    BY <1>5 DEF Locks
  <2>3. Locks(Main)' = 0
    BY <1>3, <1>5 DEF Locks, One, Destroying
  <2> QED BY <1>1, <2>1, <2>2, <2>3 DEF IInv, Locking
<1>9. Pointers'
  <2>1. PointersAt(Main, 1)'
    BY <1>3, <1>5 DEF PointersAt
  <2> QED BY <1>5, <2>1 DEF Pointers
<1>10. \A t \in Threads, pc \in {"publish", "clear", "link"} : \A r :
         ~On(t, pc, r) /\ ~On(t, pc, r)'
  BY <1>3, <1>5 DEF On
<1>11. Objects'
  <2>1. \A r : Published(r)' <=> Published(r)
    BY <1>1, <1>10, ManagedStaticAssumption DEF Published
  <2> QED BY <1>1, <1>10, <2>1 DEF IInv, Objects, Constructed
<1>12. ASSUME NEW r \in Statics, Ptr'[r] # 0
       PROVE  \/ \E i \in 1..Len(StaticList') : StaticList'[i] = r
              \/ \E i \in 1..Len(stack'[Main]) :
                   stack'[Main][i].pc \in Destroying /\ stack'[Main][i].s = r
  <2>1. PICK i \in 1..Len(StaticList) : StaticList[i] = r
    BY <1>1, <1>5, <1>10, <1>12 DEF IInv, Listed
  <2>2. CASE i = 1
    <3>1. 1 \in 1..Len(stack'[Main]) /\ stack'[Main][1].pc \in Destroying
          /\ stack'[Main][1].s = r
      BY <1>2, <1>3, <1>5, <2>1, <2>2 DEF Destroying
    <3> QED BY <3>1
  <2>3. CASE i > 1
    <3>1. i - 1 \in 1..(Len(StaticList) - 1) /\ (i - 1) + 1 = i
      BY <1>2, <2>3
    <3>2. i - 1 \in 1..Len(StaticList') /\ StaticList'[i - 1] = r
      BY <1>1, <1>2, <2>1, <3>1
    <3> QED BY <3>2
  <2> QED BY <2>2, <2>3
<1>13. Listed'
  BY <1>12 DEF Listed, On
<1> QED BY <1>6, <1>7, <1>8, <1>9, <1>11, <1>13 DEF IInv

(* The facts about the call of destroy() in progress.                        *)
LEMMA DestroyFacts ==
  ASSUME IInv, stack[Main] # <<>>, stack[Main][1].pc \in Destroying
  PROVE  /\ shutting /\ Len(stack[Main]) = 1 /\ stack[Main][1] \in Frames
         /\ \A t \in Threads \ {Main} : Len(stack[t]) = 0
BY TopFacts, OnlyMain, ManagedStaticAssumption DEF NestingAt

(* The object is deleted while the static still points to it...              *)
LEMMA DeleterHolds ==
  ASSUME IInv, DeleterReturns
  PROVE  IInv'
<1> DEFINE s == stack[Main][1].s
           f == [stack[Main][1] EXCEPT !.pc = "clear"]
<1>1. /\ stack[Main] # <<>> /\ stack[Main][1].pc = "delete"
      /\ live' = live \ {<<s, Ptr[s]>>} /\ Goto(Main, "clear")
      /\ UNCHANGED <<Ptr, DeleterFn, StaticList, multithreaded_mode, global_lock,
                     shutting, shutdowns, made>>
  <2>1. stack[Main] # <<>>
    BY DEF DeleterReturns, At
  <2> QED BY <2>1, TopFacts, ManagedStaticAssumption
          DEF DeleterReturns, At, list, mode, calls
<1>2. /\ shutting /\ Len(stack[Main]) = 1 /\ stack[Main][1] \in Frames
      /\ \A t \in Threads \ {Main} : Len(stack[t]) = 0
  BY <1>1, DestroyFacts DEF Destroying
<1>3. Replaced(Main, f)
  BY <1>1, TopFacts, GotoReplaces, ManagedStaticAssumption DEF Pcs
<1>4. /\ f \in Frames /\ f.pc = "clear" /\ f.s = s /\ s \in Statics
  BY <1>2 DEF Frames, Pcs
<1>5. /\ Len(stack'[Main]) = 1 /\ stack'[Main][1] = f
      /\ \A t \in Threads \ {Main} : stack'[t] = stack[t]
  BY <1>2, <1>3 DEF Replaced, Others
<1> HIDE DEF f
<1>6. Types'
  BY <1>1, <1>3 DEF IInv, Types, Replaced
<1>7. Nesting' /\ Locking'
  BY <1>1, <1>3, <1>4, ReplaceKeepsNesting, KeepsLocking, ManagedStaticAssumption
     DEF Destroying
<1>8. Pointers'
  <2>1. PointersAt(Main, 1)'
    BY <1>4, <1>5 DEF PointersAt
  <2>2. ASSUME NEW t \in Threads, NEW i \in 1..Len(stack'[t])
        PROVE  t = Main /\ i = 1
    <3>1. CASE t = Main
      <4>1. Len(stack'[t]) = 1
        BY <1>5, <3>1
      <4>2. i \in 1..1
        BY <4>1
      <4> QED BY <3>1, <4>2
    <3>2. CASE t # Main
      <4>1. Len(stack'[t]) = 0
        BY <1>2, <1>5, <3>2
      <4> QED BY <4>1
    <3> QED BY <3>1, <3>2
  <2> QED BY <2>1, <2>2 DEF Pointers
<1>9. /\ \A t \in Threads : \A r : ~On(t, "publish", r) /\ ~On(t, "publish", r)'
      /\ \A r : ~On(Main, "clear", r)
      /\ \A r : On(Main, "clear", r)' <=> r = s
  BY <1>1, <1>2, <1>4, <1>5 DEF On
<1>10. \A r : Published(r)' <=> Published(r) /\ r # s
  BY <1>1, <1>9 DEF Published
<1>11. Objects'
  <2>1. ASSUME NEW r \in Statics, Published(r)'
        PROVE  Constructed(r)'
    <3>1. Constructed(r) /\ r # s
      BY <1>10, <2>1 DEF IInv, Objects
    <3> HIDE DEF s
    <3> QED BY <1>1, <3>1 DEF Constructed
  <2>2. ASSUME NEW o \in live'
        PROVE  Published(o[1])' /\ Ptr'[o[1]] = o[2]
    <3>1. o \in live /\ o # <<s, Ptr[s]>>
      BY <1>1
    <3>2. Published(o[1]) /\ Ptr[o[1]] = o[2]
      BY <1>9, <3>1 DEF IInv, Objects
    <3>3. o = <<o[1], o[2]>>
      BY <3>1 DEF IInv, Objects
    <3>4. o[1] # s
      BY <3>1, <3>2, <3>3
    <3> QED BY <1>1, <1>10, <3>2, <3>4
  <2> QED BY <1>1, <2>1, <2>2 DEF IInv, Objects
<1>12. Listed'
  BY <1>1, <1>3, <1>4, ReplaceKeepsListed, ManagedStaticAssumption DEF Destroying
<1> QED BY <1>6, <1>7, <1>8, <1>11, <1>12 DEF IInv

(* ...and then the static is as it was before it was constructed.            *)
LEMMA ClearHolds ==
  ASSUME IInv, ClearPtr
  PROVE  IInv'
<1> DEFINE s == stack[Main][1].s
<1>1. /\ stack[Main] # <<>> /\ stack[Main][1].pc = "clear"
      /\ Ptr' = [Ptr EXCEPT ![s] = 0] /\ DeleterFn' = DeleterFn \ {s}
      /\ Pop(Main)
      /\ UNCHANGED <<StaticList, multithreaded_mode, global_lock, shutting,
                     shutdowns, live, made>>
  <2>1. stack[Main] # <<>>
    BY DEF ClearPtr, ClearOnly, At
  <2> QED BY <2>1, TopFacts, ManagedStaticAssumption
          DEF ClearPtr, ClearOnly, At, mode, calls, objects
<1>2. /\ shutting /\ Len(stack[Main]) = 1 /\ s \in Statics
      /\ \A t \in Threads \ {Main} : Len(stack[t]) = 0
  BY <1>1, DestroyFacts DEF Destroying, Frames
<1>3. Popped(Main)
  BY <1>1, TopFacts, PopPops, ManagedStaticAssumption
<1>4. \A t \in Threads : Len(stack'[t]) = 0
  BY <1>2, <1>3 DEF Popped, Others
<1>5. Ptr' \in [Statics -> Nat]
      /\ \A r \in Statics : Ptr'[r] = IF r = s THEN 0 ELSE Ptr[r]
  BY <1>1, <1>2 DEF IInv, Types
<1>6. Types'
  BY <1>1, <1>3, <1>5 DEF IInv, Types, Popped
<1>7. Nesting' /\ Pointers'
  BY <1>4, ManagedStaticAssumption DEF Nesting, Pointers
<1>8. Locking'
  <2>1. \A t \in Threads : Locks(t)' = 0
    BY <1>4 DEF Locks
  <2>2. \A t \in Threads \ {Main} : Locks(t) = 0
    BY <1>2 DEF Locks
  <2>3. Locks(Main) = 0
    BY <1>1, <1>2 DEF Locks, One, Destroying
  <2> QED BY <1>1, <2>1, <2>2, <2>3 DEF IInv, Locking
<1>9. /\ \A t \in Threads : \A r : ~On(t, "publish", r) /\ ~On(t, "link", r)
      /\ \A r : On(Main, "clear", r) <=> r = s
      /\ \A t \in Threads : \A pc, r : ~On(t, pc, r)'
  BY <1>1, <1>2, <1>4 DEF On
<1>10. \A r \in Statics : Published(r)' <=> Published(r)
  BY <1>5, <1>9, ManagedStaticAssumption DEF Published
<1>11. \A r \in Statics : Published(r) => Ptr'[r] = Ptr[r]
  BY <1>5, <1>9 DEF Published
<1>12. Objects'
  <2>1. \A r \in Statics : Published(r)' => Constructed(r)'
    BY <1>1, <1>10, <1>11 DEF IInv, Objects, Constructed
  <2>2. ASSUME NEW o \in live
        PROVE  Published(o[1])' /\ Ptr'[o[1]] = o[2]
    <3>1. Published(o[1]) /\ Ptr[o[1]] = o[2] /\ o[1] \in Statics
      BY <1>9 DEF IInv, Objects
    <3> QED BY <1>10, <1>11, <3>1
  <2> QED BY <1>1, <2>1, <2>2 DEF IInv, Objects
<1>13. Listed'
  <2>1. ASSUME NEW r \in Statics, Ptr'[r] # 0
        PROVE  \E i \in 1..Len(StaticList) : StaticList[i] = r
    <3>1. Ptr[r] # 0 /\ r # s
      BY <1>5, <2>1
    <3> QED BY <1>2, <1>9, <3>1 DEF IInv, Listed
  <2> QED BY <1>1, <2>1 DEF Listed
<1> QED BY <1>6, <1>7, <1>8, <1>12, <1>13 DEF IInv
-----------------------------------------------------------------------------
LEMMA InitHolds == Init => IInv
<1> SUFFICES ASSUME Init
             PROVE  IInv
  OBVIOUS
<1>1. Types
  <2>1. stack \in [Threads -> Seq(Frames)] /\ StaticList \in Seq(Statics)
    BY DEF Init
  <2>2. global_lock \in [owner : Threads \cup {NoThread}, depth : Nat]
    BY DEF Init
  <2> QED BY <2>1, <2>2 DEF Init, Types
<1>2. \A t \in Threads : Len(stack[t]) = 0
  BY DEF Init
<1>3. Nesting /\ Locking /\ Pointers
  BY <1>2, ManagedStaticAssumption DEF Init, Nesting, Locking, Pointers
<1>4. Objects /\ Listed
  BY DEF Init, Objects, Listed, Published
<1> QED BY <1>1, <1>3, <1>4 DEF IInv

LEMMA StutterHolds == IInv /\ UNCHANGED vars => IInv'
BY DEF vars, list, mode, objects, calls, IInv, Types, Nesting, NestingAt,
       Locking, Locks, Pointers, PointersAt, Objects, Listed, On, Published,
       Constructed

LEMMA StepHolds == IInv /\ [Next]_vars => IInv'
<1> SUFFICES ASSUME IInv, [Next]_vars
             PROVE  IInv'
  OBVIOUS
<1>1. ASSUME NEW t \in Threads, Run(t)
      PROVE  IInv'
  BY <1>1, NestedHolds, AcquireHolds, CheckHolds, CreatorHolds, PublishHolds,
     AddHolds, ReleaseHolds, DereferenceHolds DEF Run
<1>2. CASE Shutdown
  BY <1>2, DestroyHolds, DeleterHolds, ClearHolds, EndHolds DEF Shutdown
<1>3. CASE UNCHANGED vars
  BY <1>3, StutterHolds
<1> QED BY <1>1, <1>2, <1>3, AccessHolds, StartHolds, BeginHolds DEF Next

LEMMA Invariance == Spec => []IInv
BY InitHolds, StepHolds, PTL DEF Spec
-----------------------------------------------------------------------------
(* Every variable stays in its type, whatever the statics do to each other.  *)
THEOREM TypeCorrect == Spec => []TypeOK
<1>1. IInv => TypeOK
  <2> SUFFICES ASSUME IInv
               PROVE  TypeOK
    OBVIOUS
  <2>1. \A t \in Threads : \A i \in 1..Len(stack[t]) : stack[t][i] \in Frames
    BY Stacks DEF IInv, Types
  <2> QED BY <2>1 DEF IInv, Types, TypeOK, Frames
<1> QED BY <1>1, Invariance, PTL

(* Who creates an object is alone, and the static was null until then: no    *)
(* static ever has two objects.                                              *)
THEOREM OneObject == Spec => []OneObjectPerStatic
<1>1. ASSUME IInv, NEW s \in Statics, NEW o \in live, NEW p \in live,
             o[1] = s, p[1] = s
      PROVE  o = p
  <2>1. o = <<o[1], o[2]>> /\ p = <<p[1], p[2]>>
    BY <1>1 DEF IInv, Objects
  <2>2. ASSUME NEW t \in Threads, On(t, "publish", s)
        PROVE  /\ Ptr[s] = 0 /\ stack[t] # <<>> /\ 1 \in 1..Len(stack[t])
               /\ stack[t][1].pc \in Constructing
    <3>1. stack[t] # <<>>
      BY <1>1, <2>2, Stacks DEF On, IInv, Types
    <3> QED BY <1>1, <2>2, <3>1, TopFacts DEF On, PointersAt, Constructing
  <2>3. CASE Ptr[s] # 0
    BY <1>1, <2>1, <2>2, <2>3 DEF IInv, Objects
  <2>4. CASE Ptr[s] = 0
    <3>1. PICK t \in Threads : On(t, "publish", s) /\ stack[t][1].tmp = o[2]
      BY <1>1, <2>4 DEF IInv, Objects, Published
    <3>2. PICK u \in Threads : On(u, "publish", s) /\ stack[u][1].tmp = p[2]
      BY <1>1, <2>4 DEF IInv, Objects, Published
    <3>3. t = u
      BY <1>1, <2>2, <3>1, <3>2, OneConstructs
    <3> QED BY <1>1, <2>1, <3>1, <3>2, <3>3
  <2> QED BY <2>3, <2>4
<1>2. IInv => OneObjectPerStatic
  <2> SUFFICES ASSUME IInv, NEW s \in Statics
               PROVE  Cardinality({o \in live : o[1] = s}) <= 1
    BY DEF OneObjectPerStatic
  <2>1. CASE {o \in live : o[1] = s} = {}
    BY <2>1, FS_EmptySet
  <2>2. CASE {o \in live : o[1] = s} # {}
    <3>1. PICK o \in live : o[1] = s
      BY <2>2
    <3>2. {p \in live : p[1] = s} = {o}
      BY <1>1, <3>1
    <3>3. Cardinality({o}) = 1
      BY FS_Singleton
    <3> QED BY <3>2, <3>3
  <2> QED BY <2>1, <2>2
<1> QED BY <1>2, Invariance, PTL

(* The test of Ptr without the lock is enough: what an accessor returns has  *)
(* been constructed, and no shutdown can delete it under the accessor.       *)
THEOREM LiveObjectReturned == Spec => []AccessorReturnsLiveObject
<1>1. IInv => AccessorReturnsLiveObject
  <2> SUFFICES ASSUME IInv, NEW t \in Threads, At(t, "deref")
               PROVE  Constructed(Top(t).s)
    BY DEF AccessorReturnsLiveObject
  <2>1. /\ Top(t) = stack[t][1] /\ stack[t][1] \in Frames
        /\ stack[t][1].pc = "deref" /\ NestingAt(t, 1) /\ PointersAt(t, 1)
    BY TopFacts DEF At
  <2>2. stack[t][1].s \in Statics /\ Ptr[stack[t][1].s] # 0
    BY <2>1 DEF PointersAt, Frames
  <2>3. \A s : ~On(Main, "clear", s)
    <3> SUFFICES ASSUME NEW s, On(Main, "clear", s)
                 PROVE  FALSE
      OBVIOUS
    <3>1. Main \in Threads /\ 1 \in 1..Len(stack[Main])
      BY Stacks, ManagedStaticAssumption DEF On, IInv, Types
    <3>2. NestingAt(Main, 1)
      BY <3>1 DEF IInv, Nesting
    <3> QED BY <2>1, <3>2 DEF NestingAt, On, Destroying
  <2> QED BY <2>1, <2>2, <2>3 DEF IInv, Objects, Published
<1> QED BY <1>1, Invariance, PTL

(* When llvm_shutdown returns, no object is left, also if destructors have   *)
(* constructed statics again: those were put back into the list.             *)
THEOREM NothingLeaks == Spec => ShutdownLeaksNothing
<1>1. IInv /\ [Next]_vars => [shutting /\ ~shutting' => live = {}]_vars
  <2> SUFFICES ASSUME IInv, [Next]_vars, shutting, ~shutting'
               PROVE  live = {}
    BY Zenon
  <2>1. ShutdownEnd
    BY DEF Next, Run, Shutdown, NestedAccess, AcquireGlobalLock, CheckPtr,
           CreatorReturns, PublishPtr, AddToStaticList, ReleaseGlobalLock,
           Dereference, Access, StartMultithreaded, ShutdownBegin, DestroyHead,
           DestroyWith, DeleterReturns, ClearPtr, ClearOnly, vars, calls
  <2>2. \A t \in Threads : Len(stack[t]) = 0
    BY <2>1, NobodyCalls DEF ShutdownEnd
  <2>3. Len(StaticList) = 0
    BY <2>1 DEF ShutdownEnd
  <2>4. \A t \in Threads : \A pc, s : ~On(t, pc, s)
    BY <2>2 DEF On
  <2>5. \A s \in Statics : Ptr[s] = 0
    BY <2>2, <2>3, <2>4, ManagedStaticAssumption DEF IInv, Listed
  <2> QED BY <2>4, <2>5 DEF IInv, Objects, Published
<1> QED BY <1>1, Invariance, PTL DEF Spec, ShutdownLeaksNothing
-----------------------------------------------------------------------------
(* The order in which the statics are destroyed. A static whose destructor   *)
(* constructs again an object that uses the static itself would have it in   *)
(* use after it is gone: the uses have to be layered.                        *)
LayeredBy(rank) ==
  /\ rank \in [Statics -> Nat]
  /\ \A s \in Statics : /\ \A u \in CtorUses[s] : rank[u] < rank[s]
                        /\ \A u \in DtorUses[s] : rank[u] <= rank[s]
Layered == \E rank \in [Statics -> Nat] : LayeredBy(rank)

InList(s) == \E i \in 1..Len(StaticList) : StaticList[i] = s
Dying(s) == \E i \in 1..Len(stack[Main]) :
              stack[Main][i].pc \in Destroying /\ stack[Main][i].s = s
Deleting(s) == \E i \in 1..Len(stack[Main]) :
                 stack[Main][i].pc = "delete" /\ stack[Main][i].s = s

(* What has been published is in one place: about to be put into the list,   *)
(* there, or being destroyed.                                                *)
Distinct ==
  /\ \A i, j \in 1..Len(StaticList) : StaticList[i] = StaticList[j] => i = j
  /\ \A s \in Statics : InList(s) => Ptr[s] # 0 /\ ~Dying(s)
  /\ \A s \in Statics : Dying(s) => Ptr[s] # 0
  /\ \A t \in Threads : \A s \in Statics :
       On(t, "link", s) => ~InList(s) /\ ~Dying(s)

(* What a constructor used is further down the list than its object.         *)
Ordered ==
  /\ \A i \in 1..Len(StaticList) : \A u \in CtorUses[StaticList[i]] :
       \E j \in 1..Len(StaticList) : j > i /\ StaticList[j] = u
  /\ \A t \in Threads : \A s \in Statics :
       On(t, "link", s) \/ Deleting(s) => \A u \in CtorUses[s] : InList(u)

(* A call is for a static no higher than the one of its outermost call.      *)
Falling(rank) ==
  \A t \in Threads : \A i \in 1..Len(stack[t]) :
    LET f == stack[t][i] IN
    /\ f.pc = "delete" => f.todo \subseteq DtorUses[f.s]
    /\ rank[f.s] <= rank[stack[t][Len(stack[t])].s]

Order(rank) == Distinct /\ Ordered /\ Falling(rank)

LEMMA PlacesKeepOrder ==
  ASSUME Distinct, Ordered, UNCHANGED <<Ptr, StaticList>>,
         \A s \in Statics : /\ Dying(s)' => Dying(s)
                            /\ Deleting(s)' => Deleting(s),
         \A t \in Threads : \A s \in Statics :
           On(t, "link", s)' => On(t, "link", s)
  PROVE  Distinct' /\ Ordered'
<1>1. \A s \in Statics : InList(s)' <=> InList(s)
  BY DEF InList
<1>2. \A s \in Statics : \A u \in CtorUses[s] : u \in Statics
  BY ManagedStaticAssumption
<1>3. Distinct'
  BY <1>1 DEF Distinct
<1>4. Ordered'
  BY <1>1, <1>2 DEF Ordered
<1> QED BY <1>3, <1>4

LEMMA ReplaceKeepsOrder ==
  ASSUME IInv, NEW rank, LayeredBy(rank), Order(rank), NEW t \in Threads,
         NEW f \in Frames, Replaced(t, f), f.s = stack[t][1].s,
         UNCHANGED <<Ptr, StaticList>>, f.pc # "link",
         f.pc = "delete" => stack[t][1].pc = "delete"
                            /\ f.todo \subseteq stack[t][1].todo,
         f.pc = "clear" => stack[t][1].pc = "delete"
  PROVE  Order(rank)'
<1> DEFINE n == Len(stack[t])
<1>1. /\ n \in Nat /\ n >= 1 /\ Len(stack'[t]) = n
      /\ \A i \in 1..n : stack'[t][i] = IF i = 1 THEN f ELSE stack[t][i]
      /\ \A u \in Threads \ {t} : stack'[u] = stack[u]
  BY Stacks DEF IInv, Types, Replaced, Others
<1>2. \A i \in 1..n : stack'[t][i].s = stack[t][i].s
  BY <1>1
<1>3. 1 \in 1..n /\ n \in 1..n
  BY <1>1
<1>4. ASSUME NEW u \in Threads, NEW i \in 1..Len(stack'[u])
      PROVE  /\ i \in 1..Len(stack[u]) /\ stack'[u][i].s = stack[u][i].s
             /\ stack'[u][i].pc = "delete" => stack[u][i].pc = "delete"
                  /\ stack'[u][i].todo \subseteq stack[u][i].todo
             /\ stack'[u][i].pc \in Destroying => stack[u][i].pc \in Destroying
             /\ Len(stack'[u]) = Len(stack[u])
             /\ stack'[u][Len(stack[u])].s = stack[u][Len(stack[u])].s
  <2>1. CASE u # t
    BY <1>1, <1>4, <2>1
  <2>2. CASE u = t /\ i = 1
    BY <1>1, <1>2, <1>3, <1>4, <2>2 DEF Destroying
  <2>3. CASE u = t /\ i # 1
    BY <1>1, <1>2, <1>3, <1>4, <2>3
  <2> QED BY <2>1, <2>2, <2>3
<1>5. Falling(rank)'
  <2> SUFFICES ASSUME NEW u \in Threads, NEW i \in 1..Len(stack'[u])
               PROVE  /\ stack'[u][i].pc = "delete" =>
                           stack'[u][i].todo \subseteq DtorUses[stack'[u][i].s]
                      /\ rank[stack'[u][i].s] <= rank[stack'[u][Len(stack'[u])].s]
    BY DEF Falling
  <2> QED BY <1>4 DEF Order, Falling
<1>6. \A s \in Statics : (Dying(s)' => Dying(s)) /\ (Deleting(s)' => Deleting(s))
  BY <1>4, ManagedStaticAssumption DEF Dying, Deleting
<1>7. \A u \in Threads : \A s \in Statics :
        On(u, "link", s)' => On(u, "link", s)
  BY <1>1, <1>3 DEF On
<1> QED BY <1>5, <1>6, <1>7, PlacesKeepOrder DEF Order

LEMMA PopKeepsOrder ==
  ASSUME IInv, NEW rank, Order(rank), NEW t \in Threads, Popped(t),
         \A i \in 1..Len(stack[t]) : i > 1 => stack[t][i].pc # "link",
         UNCHANGED <<Ptr, StaticList>>
  PROVE  Order(rank)'
<1> DEFINE n == Len(stack[t])
<1>1. /\ n \in Nat /\ n >= 1 /\ Len(stack'[t]) = n - 1
      /\ \A i \in 1..(n - 1) : stack'[t][i] = stack[t][i + 1]
      /\ \A u \in Threads \ {t} : stack'[u] = stack[u]
  BY Stacks DEF IInv, Types, Popped, Others
<1>2. ASSUME NEW u \in Threads, NEW i \in 1..Len(stack'[u])
      PROVE  \E j \in 1..Len(stack[u]) :
               /\ stack'[u][i] = stack[u][j] /\ (u = t => j > 1)
               /\ stack'[u][Len(stack'[u])] = stack[u][Len(stack[u])]
  <2>1. CASE u # t
    BY <1>1, <1>2, <2>1
  <2>2. CASE u = t
    <3>1. /\ i \in 1..(n - 1) /\ n - 1 \in 1..(n - 1) /\ (n - 1) + 1 = n
          /\ i + 1 \in 1..n /\ i + 1 > 1
      BY <1>1, <1>2, <2>2
    <3>2. stack'[t][i] = stack[t][i + 1] /\ stack'[t][n - 1] = stack[t][n]
      BY <1>1, <3>1
    <3> QED BY <1>1, <2>2, <3>1, <3>2
  <2> QED BY <2>1, <2>2
<1>3. Falling(rank)'
  <2> SUFFICES ASSUME NEW u \in Threads, NEW i \in 1..Len(stack'[u])
               PROVE  /\ stack'[u][i].pc = "delete" =>
                           stack'[u][i].todo \subseteq DtorUses[stack'[u][i].s]
                      /\ rank[stack'[u][i].s] <= rank[stack'[u][Len(stack'[u])].s]
    BY DEF Falling
  <2> QED BY <1>2 DEF Order, Falling
<1>4. ASSUME NEW s \in Statics
      PROVE  (Dying(s)' => Dying(s)) /\ (Deleting(s)' => Deleting(s))
  <2>1. \A i \in 1..Len(stack'[Main]) : \E j \in 1..Len(stack[Main]) :
          stack'[Main][i] = stack[Main][j]
    BY <1>2, ManagedStaticAssumption
  <2>2. Dying(s)' => Dying(s)
    BY <2>1 DEF Dying
  <2>3. Deleting(s)' => Deleting(s)
    BY <2>1 DEF Deleting
  <2> QED BY <2>2, <2>3
<1>5. ASSUME NEW u \in Threads, NEW s \in Statics, On(u, "link", s)'
      PROVE  On(u, "link", s)
  <2>1. CASE u # t
    BY <1>1, <1>5, <2>1 DEF On
  <2>2. CASE u = t
    <3>1. n - 1 >= 1 /\ 1 \in 1..Len(stack'[t])
      BY <1>1, <1>5, <2>2 DEF On
    <3>2. PICK j \in 1..n : stack'[t][1] = stack[t][j] /\ j > 1
      BY <1>2, <3>1
    <3> QED BY <1>5, <2>2, <3>2 DEF On
  <2> QED BY <2>1, <2>2
<1> QED BY <1>3, <1>4, <1>5, PlacesKeepOrder DEF Order

LEMMA PushKeepsOrder ==
  ASSUME IInv, NEW rank, LayeredBy(rank), Order(rank), NEW t \in Threads,
         NEW f \in Frames, NEW g \in Frames, Pushed(t, f, g),
         f.pc \in {"register", "deref"},
         rank[f.s] <= rank[stack[t][1].s], g.s = stack[t][1].s,
         g.pc = stack[t][1].pc, g.todo \subseteq stack[t][1].todo,
         UNCHANGED <<Ptr, StaticList>>
  PROVE  Order(rank)'
<1> DEFINE n == Len(stack[t])
<1>1. /\ n \in Nat /\ n >= 1 /\ Len(stack'[t]) = n + 1
      /\ \A i \in 1..(n + 1) :
           stack'[t][i] = IF i = 1 THEN f ELSE IF i = 2 THEN g ELSE stack[t][i - 1]
      /\ \A u \in Threads \ {t} : stack'[u] = stack[u]
  BY Stacks DEF IInv, Types, Pushed, Others
<1>2. /\ stack'[t][1] = f /\ 1 \in 1..n /\ n \in 1..n
      /\ stack'[t][n + 1].s = stack[t][n].s
  <2> HIDE DEF n
  <2>1. 1 \in 1..(n + 1) /\ n + 1 \in 1..(n + 1) /\ n + 1 # 1 /\ (n + 1) - 1 = n
        /\ (n + 1 = 2 => n = 1) /\ 1 \in 1..n /\ n \in 1..n
    BY <1>1
  <2>2. stack'[t][1] = f
    BY <1>1, <2>1
  <2>3. stack'[t][n + 1] = IF n + 1 = 2 THEN g ELSE stack[t][n]
    BY <1>1, <2>1
  <2> QED BY <2>1, <2>2, <2>3
<1>3. ASSUME NEW u \in Threads, NEW i \in 1..Len(stack'[u]), ~(u = t /\ i = 1)
      PROVE  \E j \in 1..Len(stack[u]) :
               /\ stack'[u][i].s = stack[u][j].s
               /\ stack'[u][i].pc = stack[u][j].pc
               /\ stack'[u][i].todo \subseteq stack[u][j].todo
               /\ stack'[u][Len(stack'[u])].s = stack[u][Len(stack[u])].s
  <2>1. CASE u # t
    BY <1>1, <1>3, <2>1
  <2>2. CASE u = t
    <3>1. i \in 1..(n + 1) /\ i # 1 /\ i - 1 \in 1..n /\ (i = 2 => i - 1 = 1)
      BY <1>1, <1>3, <2>2
    <3>2. stack'[t][i] = IF i = 2 THEN g ELSE stack[t][i - 1]
      BY <1>1, <3>1
    <3> QED BY <1>1, <1>2, <2>2, <3>1, <3>2
  <2> QED BY <2>1, <2>2
<1>4. Falling(rank)'
  <2> SUFFICES ASSUME NEW u \in Threads, NEW i \in 1..Len(stack'[u])
               PROVE  /\ stack'[u][i].pc = "delete" =>
                           stack'[u][i].todo \subseteq DtorUses[stack'[u][i].s]
                      /\ rank[stack'[u][i].s] <= rank[stack'[u][Len(stack'[u])].s]
    BY DEF Falling
  <2>1. CASE u = t /\ i = 1
    <3>1. stack[t][1] \in Frames /\ stack[t][n] \in Frames
      BY <1>2, Stacks DEF IInv, Types
    <3>2. rank[f.s] \in Nat /\ rank[stack[t][1].s] \in Nat
          /\ rank[stack[t][n].s] \in Nat
      BY <3>1 DEF LayeredBy, Frames
    <3>3. rank[stack[t][1].s] <= rank[stack[t][n].s]
      BY <1>2 DEF Order, Falling
    <3>4. rank[f.s] <= rank[stack[t][n].s]
      BY <3>2, <3>3
    <3> QED BY <1>1, <1>2, <2>1, <3>4
  <2>2. CASE ~(u = t /\ i = 1)
    BY <1>3, <2>2 DEF Order, Falling
  <2> QED BY <2>1, <2>2
<1>5. ASSUME NEW s \in Statics
      PROVE  (Dying(s)' => Dying(s)) /\ (Deleting(s)' => Deleting(s))
  <2>1. ASSUME NEW i \in 1..Len(stack'[Main]), stack'[Main][i].pc \in Destroying
        PROVE  ~(Main = t /\ i = 1)
    BY <1>2, <2>1 DEF Destroying
  <2>2. \A i \in 1..Len(stack'[Main]) : stack'[Main][i].pc \in Destroying =>
          \E j \in 1..Len(stack[Main]) : stack'[Main][i].s = stack[Main][j].s
                                         /\ stack'[Main][i].pc = stack[Main][j].pc
    BY <1>3, <2>1, ManagedStaticAssumption
  <2>3. Dying(s)' => Dying(s)
    BY <2>2 DEF Dying
  <2>4. Deleting(s)' => Deleting(s)
    BY <2>2 DEF Deleting, Destroying
  <2> QED BY <2>3, <2>4
<1>6. \A u \in Threads : \A s \in Statics :
        On(u, "link", s)' => On(u, "link", s)
  BY <1>1, <1>2 DEF On
<1> QED BY <1>4, <1>5, <1>6, PlacesKeepOrder DEF Order
-----------------------------------------------------------------------------
LEMMA AccessKeepsOrder ==
  ASSUME IInv, NEW rank, LayeredBy(rank), Order(rank),
         NEW t \in Threads, NEW s \in Statics, Access(t, s)
  PROVE  Order(rank)'
<1> DEFINE f == Frame(s, IF Ptr[s] = 0 THEN "register" ELSE "deref", {})
<1>1. /\ stack[t] = <<>> /\ stack' = [stack EXCEPT ![t] = <<f>>]
      /\ UNCHANGED <<Ptr, StaticList>>
  BY DEF Access, Enter, list
<1>2. f \in Frames /\ f.s = s /\ f.pc \in {"register", "deref"}
  BY DEF Frames, Frame, Pcs
<1> HIDE DEF f
<1>3. Single(t, f)
  BY <1>1, <1>2, FirstFrame DEF IInv, Types
<1>4. /\ Len(stack'[t]) = 1 /\ stack'[t][1] = f
      /\ \A u \in Threads \ {t} : stack'[u] = stack[u]
  BY <1>3 DEF Single, Others
<1>5. rank[s] \in Nat
  BY DEF LayeredBy
<1>6. Falling(rank)'
  <2> SUFFICES ASSUME NEW u \in Threads, NEW i \in 1..Len(stack'[u])
               PROVE  /\ stack'[u][i].pc = "delete" =>
                           stack'[u][i].todo \subseteq DtorUses[stack'[u][i].s]
                      /\ rank[stack'[u][i].s] <= rank[stack'[u][Len(stack'[u])].s]
    BY DEF Falling
  <2>1. CASE u = t
    <3>1. i \in 1..1
      BY <1>4, <2>1
    <3>2. i = 1
      BY <3>1
    <3> QED BY <1>2, <1>4, <1>5, <2>1, <3>2
  <2>2. CASE u # t
    BY <1>4, <2>2 DEF Order, Falling
  <2> QED BY <2>1, <2>2
<1>7. ASSUME NEW r \in Statics
      PROVE  (Dying(r)' => Dying(r)) /\ (Deleting(r)' => Deleting(r))
  <2>1. \A i \in 1..Len(stack'[Main]) : stack'[Main][i].pc \in Destroying =>
          i \in 1..Len(stack[Main]) /\ stack'[Main][i] = stack[Main][i]
    <3>1. CASE Main = t
      <4>1. \A i \in 1..Len(stack'[Main]) : i = 1
        <5>1. Len(stack'[Main]) = 1 /\ \A i \in 1..1 : i = 1
          BY <1>4, <3>1
        <5> QED BY <5>1
      <4> QED BY <1>2, <1>4, <3>1, <4>1 DEF Destroying
    <3>2. CASE Main # t
      BY <1>4, <3>2, ManagedStaticAssumption
    <3> QED BY <3>1, <3>2
  <2>2. Dying(r)' => Dying(r)
    BY <2>1 DEF Dying
  <2>3. Deleting(r)' => Deleting(r)
    BY <2>1 DEF Deleting, Destroying
  <2> QED BY <2>2, <2>3
<1>8. \A u \in Threads : \A r \in Statics :
        On(u, "link", r)' => On(u, "link", r)
  BY <1>2, <1>4 DEF On
<1> QED BY <1>1, <1>6, <1>7, <1>8, PlacesKeepOrder DEF Order

LEMMA NestedKeepsOrder ==
  ASSUME IInv, NEW rank, LayeredBy(rank), Order(rank),
         NEW t \in Threads, NestedAccess(t)
  PROVE  Order(rank)'
<1> DEFINE top == stack[t][1]
<1>1. PICK v \in top.todo :
        /\ stack[t] # <<>> /\ top.pc \in {"create", "delete"}
        /\ stack' = [stack EXCEPT ![t] =
             Enter(t, v) \o [stack[t] EXCEPT ![1].todo = Top(t).todo \ {v}]]
        /\ UNCHANGED <<Ptr, StaticList>>
  <2>1. stack[t] # <<>>
    BY DEF NestedAccess
  <2>2. /\ Top(t) = top /\ Top(t).pc \in {"create", "delete"}
        /\ UNCHANGED <<Ptr, StaticList>>
    BY <2>1, TopFacts DEF NestedAccess, list
  <2>3. \E v \in Top(t).todo :
          stack' = [stack EXCEPT ![t] =
            Enter(t, v) \o [stack[t] EXCEPT ![1].todo = Top(t).todo \ {v}]]
    BY Zenon DEF NestedAccess
  <2> HIDE DEF top
  <2> QED BY <2>1, <2>2, <2>3, Zenon
<1> DEFINE f == Frame(v, IF Ptr[v] = 0 THEN "register" ELSE "deref", {})
           g == [top EXCEPT !.todo = top.todo \ {v}]
<1>2. /\ stack[t] # <<>> /\ top.pc \in {"create", "delete"}
      /\ UNCHANGED <<Ptr, StaticList>> /\ v \in top.todo
  BY <1>1
<1>3. top \in Frames /\ NestingAt(t, 1) /\ stack \in [Threads -> Seq(Frames)]
      /\ 1 \in 1..Len(stack[t])
  BY <1>2, TopFacts
<1>4. f \in Frames /\ f.s = v /\ f.pc \in {"register", "deref"}
  BY <1>2, <1>3 DEF Frames, Frame, Pcs
<1>5. /\ g \in Frames /\ g.s = top.s /\ g.pc = top.pc
      /\ g.todo = top.todo \ {v}
  BY <1>3 DEF Frames
<1>6. Pushed(t, f, g)
  <2>1. stack' = [stack EXCEPT ![t] = <<f>> \o [@ EXCEPT ![1] = g]]
    <3>1. stack' = [stack EXCEPT ![t] =
                      <<f>> \o [stack[t] EXCEPT ![1].todo = Top(t).todo \ {v}]]
      <4>1. stack' = [stack EXCEPT ![t] =
                         Enter(t, v) \o [stack[t] EXCEPT ![1].todo = Top(t).todo \ {v}]]
        BY <1>1
      <4>2. Enter(t, v) = <<f>>
        BY DEF Enter
      <4> QED BY <4>1, <4>2, Zenon
    <3>2. [stack[t] EXCEPT ![1].todo = Top(t).todo \ {v}]
          = [stack[t] EXCEPT ![1] = g]
      BY <1>2, TopFacts
    <3> QED BY <3>1, <3>2
  <2> HIDE DEF f, g, top
  <2> QED BY <1>2, <1>3, <1>4, <1>5, <2>1, PushPushes
<1>7. rank[v] <= rank[top.s]
  <2>1. v \in CtorUses[top.s] \/ v \in DtorUses[top.s]
    BY <1>2, <1>3 DEF NestingAt, Order, Falling
  <2>2. top.s \in Statics /\ v \in Statics /\ rank \in [Statics -> Nat]
    BY <1>2, <1>3 DEF Frames, LayeredBy
  <2>3. rank[v] < rank[top.s] \/ rank[v] <= rank[top.s]
    BY <2>1, <2>2 DEF LayeredBy
  <2> HIDE DEF top
  <2> QED BY <2>2, <2>3
<1> HIDE DEF f, g
<1> QED BY <1>2, <1>4, <1>5, <1>6, <1>7, PushKeepsOrder

(* The steps that replace the top frame of a call in progress.               *)
LEMMA ConstructionKeepsOrder ==
  ASSUME IInv, NEW rank, LayeredBy(rank), Order(rank), NEW t \in Threads,
         AcquireGlobalLock(t) \/ CheckPtr(t) \/ CreatorReturns(t)
           \/ ReleaseGlobalLock(t)
  PROVE  Order(rank)'
<1>1. CASE AcquireGlobalLock(t)
  <2> DEFINE f == [stack[t][1] EXCEPT !.pc = "check"]
  <2>1. stack[t] # <<>> /\ Goto(t, "check") /\ UNCHANGED <<Ptr, StaticList>>
    BY <1>1 DEF AcquireGlobalLock, At, list
  <2>2. Replaced(t, f)
    BY <2>1, TopFacts, GotoReplaces DEF Pcs
  <2>3. f \in Frames /\ f.pc = "check" /\ f.s = stack[t][1].s
    BY <2>1, TopFacts DEF Frames, Pcs
  <2> HIDE DEF f
  <2> QED BY <2>1, <2>2, <2>3, ReplaceKeepsOrder
<1>2. CASE CheckPtr(t)
  <2> DEFINE s == stack[t][1].s
             f == IF stack[t][1].pc = "register" \/ Ptr[s] = 0
                  THEN Frame(s, "create", CtorUses[s]) ELSE Frame(s, "unlock", {})
  <2>1. stack[t] # <<>>
    BY <1>2 DEF CheckPtr, At
  <2>2. stack' = [stack EXCEPT ![t][1] = f] /\ UNCHANGED <<Ptr, StaticList>>
    BY <1>2, <2>1, TopFacts DEF CheckPtr, At, list
  <2>3. f \in Frames /\ f.s = s /\ f.pc \in {"create", "unlock"}
    BY <2>1, TopFacts, ManagedStaticAssumption DEF Frames, Frame, Pcs
  <2> HIDE DEF f
  <2>4. Replaced(t, f)
    BY <2>1, <2>2, <2>3, TopFacts, ReplacedTop
  <2> QED BY <2>2, <2>3, <2>4, ReplaceKeepsOrder
<1>3. CASE CreatorReturns(t)
  <2> DEFINE n == made[stack[t][1].s] + 1
             f == [stack[t][1] EXCEPT !.pc = "publish", !.tmp = n]
  <2>1. stack[t] # <<>>
    BY <1>3 DEF CreatorReturns, At
  <2>2. /\ stack' = [stack EXCEPT ![t][1].pc = "publish", ![t][1].tmp = n]
        /\ UNCHANGED <<Ptr, StaticList>>
    BY <1>3, <2>1, TopFacts DEF CreatorReturns, list
  <2>3. n \in Nat
    <3>1. made[stack[t][1].s] \in Nat
      BY <2>1, TopFacts DEF Frames, IInv, Types
    <3> QED BY <3>1
  <2>4. f \in Frames /\ f.pc = "publish" /\ f.s = stack[t][1].s
    BY <2>1, <2>3, TopFacts DEF Frames, Pcs
  <2>5. stack' = [stack EXCEPT ![t][1] = f]
    BY <2>1, <2>2, TopFacts DEF Frames
  <2> HIDE DEF f
  <2>6. Replaced(t, f)
    BY <2>1, <2>4, <2>5, TopFacts, ReplacedTop
  <2> QED BY <2>2, <2>4, <2>6, ReplaceKeepsOrder
<1>4. CASE ReleaseGlobalLock(t)
  <2> DEFINE f == [stack[t][1] EXCEPT !.pc = "deref"]
  <2>1. stack[t] # <<>> /\ Goto(t, "deref") /\ UNCHANGED <<Ptr, StaticList>>
    BY <1>4 DEF ReleaseGlobalLock, At, list
  <2>2. Replaced(t, f)
    BY <2>1, TopFacts, GotoReplaces DEF Pcs
  <2>3. f \in Frames /\ f.pc = "deref" /\ f.s = stack[t][1].s
    BY <2>1, TopFacts DEF Frames, Pcs
  <2> HIDE DEF f
  <2> QED BY <2>1, <2>2, <2>3, ReplaceKeepsOrder
<1> QED BY <1>1, <1>2, <1>3, <1>4

LEMMA DereferenceKeepsOrder ==
  ASSUME IInv, NEW rank, Order(rank), NEW t \in Threads, Dereference(t)
  PROVE  Order(rank)'
<1>1. stack[t] # <<>> /\ Pop(t) /\ UNCHANGED <<Ptr, StaticList>>
  BY DEF Dereference, At, list
<1>2. Popped(t)
  BY <1>1, TopFacts, PopPops
<1>3. \A i \in 1..Len(stack[t]) : i > 1 => stack[t][i].pc # "link"
  BY DEF IInv, Nesting, NestingAt
<1> QED BY <1>1, <1>2, <1>3, PopKeepsOrder

LEMMA DeleterKeepsOrder ==
  ASSUME IInv, NEW rank, LayeredBy(rank), Order(rank), DeleterReturns
  PROVE  Order(rank)'
<1> DEFINE f == [stack[Main][1] EXCEPT !.pc = "clear"]
<1>1. stack[Main] # <<>>
  BY DEF DeleterReturns, At
<1>2. Goto(Main, "clear") /\ UNCHANGED <<Ptr, StaticList>>
      /\ stack[Main][1].pc = "delete"
  BY <1>1, TopFacts, ManagedStaticAssumption DEF DeleterReturns, At, list
<1>3. Replaced(Main, f)
  BY <1>1, <1>2, TopFacts, GotoReplaces, ManagedStaticAssumption DEF Pcs
<1>4. f \in Frames /\ f.pc = "clear" /\ f.s = stack[Main][1].s
  BY <1>1, TopFacts, ManagedStaticAssumption DEF Frames, Pcs
<1> HIDE DEF f
<1> QED BY <1>2, <1>3, <1>4, ReplaceKeepsOrder, ManagedStaticAssumption

(* A static that is published has not been in the list. The statics its      *)
(* constructor used are there: the one being destroyed was not among them.   *)
LEMMA PublishKeepsOrder ==
  ASSUME IInv, NEW rank, LayeredBy(rank), Order(rank),
         NEW t \in Threads, PublishPtr(t)
  PROVE  Order(rank)'
<1> DEFINE s == stack[t][1].s
           f == [stack[t][1] EXCEPT !.pc = "link"]
           n == Len(stack[t])
<1>1. /\ stack[t] # <<>> /\ stack[t][1].pc = "publish"
      /\ Ptr' = [Ptr EXCEPT ![s] = stack[t][1].tmp] /\ Goto(t, "link")
      /\ StaticList' = StaticList
  <2>1. stack[t] # <<>>
    BY DEF PublishPtr, At
  <2> QED BY <2>1, TopFacts DEF PublishPtr, At
<1>2. Replaced(t, f)
  BY <1>1, TopFacts, GotoReplaces DEF Pcs
<1>3. /\ f \in Frames /\ f.pc = "link" /\ f.s = s /\ s \in Statics
      /\ stack[t][1].tmp # 0 /\ Ptr[s] = 0
      /\ \A u \in CtorUses[s] : Ptr[u] # 0
      /\ n \in Nat /\ n >= 1 /\ 1 \in 1..n /\ n \in 1..n
  <2>1. f \in Frames /\ f.pc = "link" /\ f.s = s /\ s \in Statics
    BY <1>1, TopFacts DEF Frames, Pcs
  <2>2. stack[t][1].tmp # 0 /\ Ptr[s] = 0 /\ \A u \in CtorUses[s] : Ptr[u] # 0
    <3>1. PointersAt(t, 1)
      BY <1>1, TopFacts
    <3> QED BY <1>1, <3>1 DEF PointersAt
  <2> QED BY <1>1, <2>1, <2>2, TopFacts
<1>4. /\ Len(stack'[t]) = n
      /\ \A i \in 1..n : stack'[t][i] = IF i = 1 THEN f ELSE stack[t][i]
      /\ \A u \in Threads \ {t} : stack'[u] = stack[u]
  BY <1>2 DEF Replaced, Others
<1>5. \A r \in Statics : Ptr'[r] # 0 <=> Ptr[r] # 0 \/ r = s
  BY <1>1, <1>3 DEF IInv, Types
<1>6. \A u \in Threads : \A r \in Statics : ~On(u, "link", r)
  <2> SUFFICES ASSUME NEW u \in Threads, NEW r \in Statics, On(u, "link", r)
               PROVE  FALSE
    OBVIOUS
  <2>1. 1 \in 1..Len(stack[u]) /\ stack[u][1].pc = "link"
    BY Stacks DEF On, IInv, Types
  <2>2. u = t
    BY <1>1, <1>3, <2>1, OneConstructs DEF Constructing
  <2> QED BY <1>1, <2>1, <2>2
<1>7. ASSUME NEW r \in Statics, r = s \/ rank[r] < rank[s]
      PROVE  ~Dying(r)
  <2> SUFFICES ASSUME NEW i \in 1..Len(stack[Main]),
                      stack[Main][i].pc \in Destroying, stack[Main][i].s = r
               PROVE  FALSE
    BY DEF Dying
  <2>1. Main \in Threads /\ NestingAt(Main, i)
    BY ManagedStaticAssumption DEF IInv, Nesting
  <2>2. shutting /\ i = Len(stack[Main])
    BY <2>1 DEF NestingAt
  <2>3. t = Main
    BY <1>3, <2>2, OnlyMain
  <2>4. rank[s] <= rank[r]
    BY <1>3, <2>2, <2>3 DEF Order, Falling
  <2>5. rank[s] \in Nat /\ rank[r] \in Nat
    BY <1>3 DEF LayeredBy
  <2>6. CASE r = s
    <3>1. Dying(r)
      BY DEF Dying
    <3> QED BY <1>3, <2>6, <3>1 DEF Order, Distinct
  <2>7. CASE rank[r] < rank[s]
    <3> HIDE DEF s
    <3> QED BY <2>4, <2>5, <2>7
  <2> QED BY <1>7, <2>6, <2>7
<1>8. ASSUME NEW u \in CtorUses[s]
      PROVE  InList(u)
  <2>1. u \in Statics /\ Ptr[u] # 0
    BY <1>3, ManagedStaticAssumption
  <2>2. rank[u] < rank[s]
    BY <1>3 DEF LayeredBy
  <2>3. ~Dying(u)
    BY <1>7, <2>1, <2>2
  <2> QED BY <1>6, <2>1, <2>3 DEF IInv, Listed, Dying, InList
<1> HIDE DEF f
<1>9. \A r \in Statics : /\ InList(r)' <=> InList(r)
                         /\ Dying(r)' <=> Dying(r)
                         /\ Deleting(r)' <=> Deleting(r)
  <2>1. /\ Len(stack'[Main]) = Len(stack[Main])
        /\ \A i \in 1..Len(stack[Main]) :
             /\ stack'[Main][i].pc # stack[Main][i].pc =>
                  stack'[Main][i].pc = "link" /\ stack[Main][i].pc = "publish"
             /\ stack'[Main][i].s = stack[Main][i].s
    <3>1. CASE Main = t
      BY <1>1, <1>3, <1>4, <3>1
    <3>2. CASE Main # t
      BY <1>4, <3>2, ManagedStaticAssumption
    <3> QED BY <3>1, <3>2
  <2> QED BY <1>1, <2>1 DEF InList, Dying, Deleting, Destroying
<1>10. \A u \in Threads : \A r \in Statics :
         On(u, "link", r)' => r = s
  <2> SUFFICES ASSUME NEW u \in Threads, NEW r \in Statics, On(u, "link", r)'
               PROVE  r = s
    OBVIOUS
  <2>1. CASE u = t
    BY <1>3, <1>4, <2>1 DEF On
  <2>2. CASE u # t
    <3>1. On(u, "link", r)
      BY <1>4, <2>2 DEF On
    <3> QED BY <1>6, <3>1
  <2> QED BY <2>1, <2>2
<1>11. ~InList(s) /\ ~Dying(s)
  BY <1>3 DEF Order, Distinct
<1>12. Distinct'
  <2>1. \A i, j \in 1..Len(StaticList') : StaticList'[i] = StaticList'[j] => i = j
    BY <1>1 DEF Order, Distinct
  <2>2. \A r \in Statics : InList(r)' => Ptr'[r] # 0 /\ ~Dying(r)'
    BY <1>5, <1>9 DEF Order, Distinct
  <2>3. \A r \in Statics : Dying(r)' => Ptr'[r] # 0
    BY <1>5, <1>9 DEF Order, Distinct
  <2>4. \A u \in Threads : \A r \in Statics :
          On(u, "link", r)' => ~InList(r)' /\ ~Dying(r)'
    BY <1>9, <1>10, <1>11
  <2> QED BY <2>1, <2>2, <2>3, <2>4 DEF Distinct
<1>13. Ordered'
  <2>1. \A i \in 1..Len(StaticList') : \A u \in CtorUses[StaticList'[i]] :
          \E j \in 1..Len(StaticList') : j > i /\ StaticList'[j] = u
    BY <1>1 DEF Order, Ordered
  <2>2. \A r \in Statics : \A u \in CtorUses[r] : u \in Statics
    BY ManagedStaticAssumption
  <2>3. \A u \in Threads : \A r \in Statics : On(u, "link", r)' \/ Deleting(r)' =>
          \A v \in CtorUses[r] : InList(v)'
    BY <1>8, <1>9, <1>10, <2>2 DEF Order, Ordered
  <2> QED BY <2>1, <2>3 DEF Ordered
<1>14. Falling(rank)'
  <2> SUFFICES ASSUME NEW u \in Threads, NEW i \in 1..Len(stack'[u])
               PROVE  /\ stack'[u][i].pc = "delete" =>
                           stack'[u][i].todo \subseteq DtorUses[stack'[u][i].s]
                      /\ rank[stack'[u][i].s] <= rank[stack'[u][Len(stack'[u])].s]
    BY DEF Falling
  <2>1. CASE u = t
    <3>1. /\ i \in 1..n /\ stack'[t][i].s = stack[t][i].s
          /\ stack'[t][n].s = stack[t][n].s
          /\ i # 1 => stack'[t][i] = stack[t][i]
          /\ i = 1 => stack'[t][i].pc = "link"
      BY <1>3, <1>4, <2>1
    <3> QED BY <1>4, <2>1, <3>1 DEF Order, Falling
  <2>2. CASE u # t
    BY <1>4, <2>2 DEF Order, Falling
  <2> QED BY <2>1, <2>2
<1> QED BY <1>12, <1>13, <1>14 DEF Order

LEMMA AddKeepsOrder ==
  ASSUME IInv, NEW rank, LayeredBy(rank), Order(rank),
         NEW t \in Threads, AddToStaticList(t)
  PROVE  Order(rank)'
<1> DEFINE s == stack[t][1].s
           pc == IF multithreaded_mode THEN "unlock" ELSE "deref"
           f == [stack[t][1] EXCEPT !.pc = pc]
           n == Len(stack[t])
           m == Len(StaticList)
<1>1. /\ stack[t] # <<>> /\ stack[t][1].pc = "link"
      /\ StaticList' = <<s>> \o StaticList /\ Goto(t, pc) /\ Ptr' = Ptr
  <2>1. stack[t] # <<>>
    BY DEF AddToStaticList, At
  <2> QED BY <2>1, TopFacts DEF AddToStaticList, At
<1>2. Replaced(t, f)
  BY <1>1, TopFacts, GotoReplaces DEF Pcs
<1>3. /\ f \in Frames /\ f.pc \in {"unlock", "deref"} /\ f.s = s /\ s \in Statics
      /\ n \in Nat /\ n >= 1 /\ 1 \in 1..n /\ n \in 1..n
  <2>1. stack[t][1] \in Frames /\ n \in Nat /\ n >= 1
    BY <1>1, TopFacts
  <2>2. pc \in {"unlock", "deref"}
    OBVIOUS
  <2> HIDE DEF pc
  <2>3. f \in Frames /\ f.pc = pc /\ f.s = s /\ s \in Statics
    BY <2>1, <2>2 DEF Frames, Pcs
  <2> HIDE DEF f, s
  <2> QED BY <2>1, <2>2, <2>3
<1>4. /\ Len(stack'[t]) = n
      /\ \A i \in 1..n : stack'[t][i] = IF i = 1 THEN f ELSE stack[t][i]
      /\ \A u \in Threads \ {t} : stack'[u] = stack[u]
  BY <1>2 DEF Replaced, Others
<1>5. /\ m \in Nat /\ Len(StaticList') = m + 1
      /\ \A i \in 1..(m + 1) :
           StaticList'[i] = IF i = 1 THEN s ELSE StaticList[i - 1]
  <2>1. StaticList \in Seq(Statics)
    BY DEF IInv, Types
  <2> HIDE DEF s
  <2> QED BY <1>1, <1>3, <2>1
<1> HIDE DEF f
<1>6. On(t, "link", s)
  BY <1>1, <1>3 DEF On
<1>7. ~InList(s) /\ ~Dying(s) /\ \A u \in CtorUses[s] : InList(u)
  BY <1>3, <1>6 DEF Order, Distinct, Ordered
<1>8. \A u \in Threads : \A r \in Statics : ~On(u, "link", r)'
  <2> SUFFICES ASSUME NEW u \in Threads, NEW r \in Statics, On(u, "link", r)'
               PROVE  FALSE
    OBVIOUS
  <2>1. CASE u = t
    BY <1>3, <1>4, <2>1 DEF On
  <2>2. CASE u # t
    <3>1. 1 \in 1..Len(stack[u]) /\ stack[u][1].pc = "link"
      BY <1>4, <2>2, Stacks DEF On, IInv, Types
    <3> QED BY <1>1, <1>3, <2>2, <3>1, OneConstructs DEF Constructing
  <2> QED BY <2>1, <2>2
<1>9. \A r \in Statics : (Dying(r)' <=> Dying(r)) /\ (Deleting(r)' <=> Deleting(r))
  <2>1. /\ Len(stack'[Main]) = Len(stack[Main])
        /\ \A i \in 1..Len(stack[Main]) :
             /\ stack'[Main][i].pc # stack[Main][i].pc =>
                  /\ stack'[Main][i].pc \in {"unlock", "deref"}
                  /\ stack[Main][i].pc = "link"
             /\ stack'[Main][i].s = stack[Main][i].s
    <3>1. CASE Main = t
      BY <1>1, <1>3, <1>4, <3>1
    <3>2. CASE Main # t
      BY <1>4, <3>2, ManagedStaticAssumption
    <3> QED BY <3>1, <3>2
  <2> QED BY <2>1 DEF Dying, Deleting, Destroying
<1>10. ASSUME NEW i \in 1..(m + 1)
       PROVE  /\ i = 1 => StaticList'[i] = s
              /\ i # 1 => /\ i - 1 \in 1..m
                          /\ StaticList'[i] = StaticList[i - 1]
                          /\ StaticList'[i] # s
  <2> HIDE DEF m, s
  <2>1. i # 1 => i - 1 \in 1..m
    BY <1>5
  <2>2. i # 1 => StaticList'[i] = StaticList[i - 1]
    BY <1>5
  <2>3. i # 1 => StaticList[i - 1] # s
    BY <1>7, <2>1 DEF InList, m
  <2>4. i = 1 => StaticList'[i] = s
    BY <1>5
  <2> QED BY <2>1, <2>2, <2>3, <2>4
<1>11. ASSUME NEW j \in 1..m
       PROVE  j + 1 \in 1..(m + 1) /\ j + 1 > 1 /\ StaticList'[j + 1] = StaticList[j]
  <2> HIDE DEF m
  <2>1. j + 1 \in 1..(m + 1) /\ j + 1 # 1 /\ j + 1 > 1 /\ (j + 1) - 1 = j
    BY <1>5
  <2> QED BY <1>10, <2>1
<1>12. \A r \in Statics : /\ InList(r) => InList(r)'
                          /\ InList(r)' => InList(r) \/ r = s
  <2> SUFFICES ASSUME NEW r \in Statics
               PROVE  /\ InList(r) => InList(r)'
                      /\ InList(r)' => InList(r) \/ r = s
    OBVIOUS
  <2>1. ASSUME InList(r)
        PROVE  InList(r)'
    <3>1. PICK j \in 1..m : StaticList[j] = r
      BY <2>1 DEF InList
    <3> QED BY <1>5, <1>11, <3>1 DEF InList
  <2>2. ASSUME InList(r)'
        PROVE  InList(r) \/ r = s
    <3>1. PICK i \in 1..(m + 1) : StaticList'[i] = r
      BY <1>5, <2>2 DEF InList
    <3> QED BY <1>10, <3>1 DEF InList
  <2> QED BY <2>1, <2>2
<1>13. Distinct'
  <2>1. ASSUME NEW i \in 1..(m + 1), NEW j \in 1..(m + 1),
               StaticList'[i] = StaticList'[j]
        PROVE  i = j
    <3>1. CASE i = 1 \/ j = 1
      BY <1>10, <2>1, <3>1
    <3>2. CASE i # 1 /\ j # 1
      <4>1. i - 1 \in 1..m /\ j - 1 \in 1..m
            /\ StaticList[i - 1] = StaticList[j - 1]
        BY <1>10, <2>1, <3>2
      <4>2. i - 1 = j - 1
        BY <4>1 DEF Order, Distinct
      <4> HIDE DEF m
      <4> QED BY <1>5, <4>2
    <3> QED BY <3>1, <3>2
  <2>2. Ptr[s] # 0
    BY <1>1, TopFacts DEF PointersAt
  <2>3. \A r \in Statics : InList(r)' => Ptr'[r] # 0 /\ ~Dying(r)'
    BY <1>1, <1>7, <1>9, <1>12, <2>2 DEF Order, Distinct
  <2>4. \A r \in Statics : Dying(r)' => Ptr'[r] # 0
    BY <1>1, <1>9 DEF Order, Distinct
  <2> QED BY <1>5, <1>8, <2>1, <2>3, <2>4 DEF Distinct
<1>14. Ordered'
  <2>1. ASSUME NEW i \in 1..(m + 1), NEW u \in CtorUses[StaticList'[i]]
        PROVE  \E k \in 1..(m + 1) : k > i /\ StaticList'[k] = u
    <3>1. CASE i = 1
      <4>1. u \in CtorUses[s]
        BY <1>10, <3>1
      <4>2. PICK j \in 1..m : StaticList[j] = u
        BY <1>7, <4>1 DEF InList
      <4> QED BY <1>11, <3>1, <4>2
    <3>2. CASE i # 1
      <4>1. i - 1 \in 1..m /\ u \in CtorUses[StaticList[i - 1]]
        BY <1>10, <3>2
      <4>2. PICK j \in 1..m : j > i - 1 /\ StaticList[j] = u
        BY <4>1 DEF Order, Ordered
      <4>3. j + 1 \in 1..(m + 1) /\ StaticList'[j + 1] = u
        BY <1>11, <4>2
      <4>4. j + 1 > i
        <5> HIDE DEF m
        <5> QED BY <1>5, <4>2
      <4> QED BY <4>3, <4>4
    <3> QED BY <3>1, <3>2
  <2>2. \A r \in Statics : \A u \in CtorUses[r] : u \in Statics
    BY ManagedStaticAssumption
  <2>3. \A r \in Statics : Deleting(r)' => \A u \in CtorUses[r] : InList(u)'
    BY <1>9, <1>12, <2>2 DEF Order, Ordered
  <2> QED BY <1>5, <1>8, <2>1, <2>3 DEF Ordered
<1>15. Falling(rank)'
  <2> SUFFICES ASSUME NEW u \in Threads, NEW i \in 1..Len(stack'[u])
               PROVE  /\ stack'[u][i].pc = "delete" =>
                           stack'[u][i].todo \subseteq DtorUses[stack'[u][i].s]
                      /\ rank[stack'[u][i].s] <= rank[stack'[u][Len(stack'[u])].s]
    BY DEF Falling
  <2>1. CASE u = t
    <3>1. /\ i \in 1..n /\ stack'[t][i].s = stack[t][i].s
          /\ stack'[t][n].s = stack[t][n].s
          /\ i # 1 => stack'[t][i] = stack[t][i]
          /\ i = 1 => stack'[t][i].pc # "delete"
      BY <1>3, <1>4, <2>1
    <3> QED BY <1>4, <2>1, <3>1 DEF Order, Falling
  <2>2. CASE u # t
    BY <1>4, <2>2 DEF Order, Falling
  <2> QED BY <2>1, <2>2
<1> QED BY <1>13, <1>14, <1>15 DEF Order

(* The head of the list is destroyed: nothing that stays in the list was     *)
(* used by it alone, and what it used stays behind it.                       *)
LEMMA DestroyKeepsOrder ==
  ASSUME IInv, NEW rank, LayeredBy(rank), Order(rank), DestroyHead
  PROVE  Order(rank)'
<1> DEFINE s == Head(StaticList)
           f == Frame(s, "delete", DtorUses[s])
           m == Len(StaticList)
<1>1. /\ shutting /\ stack[Main] = <<>> /\ StaticList # <<>>
      /\ stack' = [stack EXCEPT ![Main] = <<f>>]
      /\ StaticList' = Tail(StaticList) /\ Ptr' = Ptr
  BY DEF DestroyHead, DestroyWith
<1>2. /\ m \in Nat /\ m >= 1 /\ s = StaticList[1] /\ s \in Statics
      /\ StaticList' \in Seq(Statics) /\ Len(StaticList') = m - 1
      /\ \A i \in 1..(m - 1) : StaticList'[i] = StaticList[i + 1]
  BY <1>1 DEF IInv, Types
<1>3. f \in Frames /\ f.s = s /\ f.pc = "delete" /\ f.todo = DtorUses[s]
  BY <1>2, ManagedStaticAssumption DEF Frames, Frame, Pcs
<1> HIDE DEF f
<1>4. Single(Main, f)
  BY <1>1, <1>3, FirstFrame, ManagedStaticAssumption DEF IInv, Types
<1>5. /\ Len(stack'[Main]) = 1 /\ stack'[Main][1] = f
      /\ \A t \in Threads : Len(stack[t]) = 0
      /\ \A t \in Threads \ {Main} : Len(stack'[t]) = 0
  BY <1>1, <1>4, NobodyCalls DEF Single, Others
<1> HIDE DEF s, m
<1>6. /\ \A r \in Statics : ~Dying(r)
      /\ \A r \in Statics : (Dying(r)' <=> r = s) /\ (Deleting(r)' => r = s)
  <2>1. Main \in Threads
    BY ManagedStaticAssumption
  <2>2. \A i \in 1..Len(stack'[Main]) : i = 1
    <3>1. Len(stack'[Main]) = 1 /\ \A i \in 1..1 : i = 1
      BY <1>5
    <3> QED BY <3>1
  <2>3. 1 \in 1..Len(stack'[Main])
    BY <1>5
  <2>4. \A i \in 1..Len(stack[Main]) : FALSE
    BY <1>5, <2>1
  <2>5. \A r \in Statics : ~Dying(r)
    BY <2>4 DEF Dying
  <2>6. \A r \in Statics : Dying(r)' <=> r = s
    BY <1>3, <1>5, <2>2, <2>3 DEF Dying, Destroying
  <2>7. \A r \in Statics : Deleting(r)' => r = s
    BY <1>3, <1>5, <2>2 DEF Deleting
  <2> QED BY <2>5, <2>6, <2>7
<1>7. ASSUME NEW i \in 1..(m - 1)
      PROVE  i + 1 \in 1..m /\ i + 1 # 1 /\ StaticList'[i] = StaticList[i + 1]
  <2>1. i + 1 \in 1..m /\ i + 1 # 1
    BY <1>2
  <2> QED BY <1>2, <2>1
<1>8. ASSUME NEW j \in 1..m, j > 1
      PROVE  j - 1 \in 1..(m - 1) /\ StaticList'[j - 1] = StaticList[j]
  <2>1. j - 1 \in 1..(m - 1) /\ (j - 1) + 1 = j
    BY <1>2, <1>8
  <2> QED BY <1>2, <2>1
<1>9. 1 \in 1..m
  BY <1>2
<1>10. \A r \in Statics : InList(r)' => InList(r) /\ r # s
  <2> SUFFICES ASSUME NEW r \in Statics, InList(r)'
               PROVE  InList(r) /\ r # s
    OBVIOUS
  <2>1. PICK i \in 1..(m - 1) : StaticList'[i] = r
    BY <1>2 DEF InList
  <2>2. i + 1 \in 1..m /\ i + 1 # 1 /\ StaticList[i + 1] = r
    BY <1>7, <2>1
  <2>3. r # s
    BY <1>2, <1>9, <2>2 DEF Order, Distinct, m
  <2> QED BY <2>2, <2>3 DEF InList, m
<1>11. Distinct'
  <2>1. ASSUME NEW i \in 1..(m - 1), NEW j \in 1..(m - 1),
               StaticList'[i] = StaticList'[j]
        PROVE  i = j
    <3>1. i + 1 \in 1..m /\ j + 1 \in 1..m /\ StaticList[i + 1] = StaticList[j + 1]
      BY <1>7, <2>1
    <3>2. i + 1 = j + 1
      BY <3>1 DEF Order, Distinct, m
    <3> QED BY <1>2, <3>2
  <2>2. Ptr[s] # 0
    <3>1. InList(s)
      BY <1>2, <1>9 DEF InList, m
    <3> QED BY <1>2, <3>1 DEF Order, Distinct
  <2>3. \A r \in Statics : InList(r)' => Ptr'[r] # 0 /\ ~Dying(r)'
    BY <1>1, <1>6, <1>10 DEF Order, Distinct
  <2>4. \A r \in Statics : Dying(r)' => Ptr'[r] # 0
    BY <1>1, <1>6, <2>2
  <2>5. \A t \in Threads : \A r \in Statics : ~On(t, "link", r)'
    BY <1>3, <1>5 DEF On
  <2> QED BY <1>2, <2>1, <2>3, <2>4, <2>5 DEF Distinct
<1>12. Ordered'
  <2>1. ASSUME NEW i \in 1..(m - 1), NEW u \in CtorUses[StaticList'[i]]
        PROVE  \E k \in 1..(m - 1) : k > i /\ StaticList'[k] = u
    <3>1. i + 1 \in 1..m /\ u \in CtorUses[StaticList[i + 1]]
      BY <1>7
    <3>2. PICK j \in 1..m : j > i + 1 /\ StaticList[j] = u
      BY <3>1 DEF Order, Ordered, m
    <3>3. j > 1 /\ j - 1 > i
      BY <1>2, <3>2
    <3> QED BY <1>8, <3>2, <3>3
  <2>2. ASSUME NEW u \in CtorUses[s]
        PROVE  InList(u)'
    <3>1. PICK j \in 1..m : j > 1 /\ StaticList[j] = u
      BY <1>2, <1>9 DEF Order, Ordered, m
    <3> QED BY <1>2, <1>8, <3>1 DEF InList
  <2>3. \A t \in Threads : \A r \in Statics : ~On(t, "link", r)'
    BY <1>3, <1>5 DEF On
  <2> QED BY <1>2, <1>6, <2>1, <2>2, <2>3 DEF Ordered
<1>13. Falling(rank)'
  <2> SUFFICES ASSUME NEW u \in Threads, NEW i \in 1..Len(stack'[u])
               PROVE  /\ stack'[u][i].pc = "delete" =>
                           stack'[u][i].todo \subseteq DtorUses[stack'[u][i].s]
                      /\ rank[stack'[u][i].s] <= rank[stack'[u][Len(stack'[u])].s]
    BY DEF Falling
  <2>1. u = Main /\ i = 1
    <3>1. u = Main
      <4>1. u # Main => 1..Len(stack'[u]) = 1..0
        BY <1>5
      <4> QED BY <4>1
    <3>2. i \in 1..1
      BY <1>5, <3>1
    <3> QED BY <3>1, <3>2
  <2>2. rank[s] \in Nat
    BY <1>2 DEF LayeredBy
  <2> QED BY <1>3, <1>5, <2>1, <2>2
<1> QED BY <1>11, <1>12, <1>13 DEF Order

LEMMA ClearKeepsOrder ==
  ASSUME IInv, NEW rank, Order(rank), ClearPtr
  PROVE  Order(rank)'
<1> DEFINE s == stack[Main][1].s
<1>1. /\ stack[Main] # <<>> /\ stack[Main][1].pc = "clear"
      /\ Ptr' = [Ptr EXCEPT ![s] = 0] /\ Pop(Main) /\ StaticList' = StaticList
  <2>1. stack[Main] # <<>>
    BY DEF ClearPtr, ClearOnly, At
  <2> QED BY <2>1, TopFacts, ManagedStaticAssumption DEF ClearPtr, ClearOnly, At
<1>2. /\ Len(stack[Main]) = 1 /\ s \in Statics
      /\ \A t \in Threads \ {Main} : Len(stack[t]) = 0
  BY <1>1, DestroyFacts DEF Destroying, Frames
<1>3. Popped(Main)
  BY <1>1, TopFacts, PopPops, ManagedStaticAssumption
<1>4. \A t \in Threads : Len(stack'[t]) = 0
  BY <1>2, <1>3 DEF Popped, Others
<1>5. \A t \in Threads : \A i \in 1..Len(stack'[t]) : FALSE
  BY <1>4
<1>6. \A r \in Statics : ~Dying(r)' /\ ~Deleting(r)'
  BY <1>5, ManagedStaticAssumption DEF Dying, Deleting
<1>7. \A t \in Threads : \A r \in Statics : ~On(t, "link", r)'
  BY <1>4 DEF On
<1>8. Dying(s)
  <2>1. 1 \in 1..Len(stack[Main])
    BY <1>2
  <2> QED BY <1>1, <2>1 DEF Dying, Destroying
<1>9. \A r \in Statics : InList(r)' => InList(r) /\ Ptr'[r] = Ptr[r]
  <2>1. \A r \in Statics : InList(r)' <=> InList(r)
    BY <1>1 DEF InList
  <2>2. \A r \in Statics : r # s => Ptr'[r] = Ptr[r]
    BY <1>1 DEF IInv, Types
  <2>3. ~InList(s)
    BY <1>2, <1>8 DEF Order, Distinct
  <2> QED BY <2>1, <2>2, <2>3
<1>10. Distinct'
  <2>1. \A i, j \in 1..Len(StaticList') : StaticList'[i] = StaticList'[j] => i = j
    BY <1>1 DEF Order, Distinct
  <2> QED BY <1>6, <1>7, <1>9, <2>1 DEF Order, Distinct
<1>11. Ordered'
  <2>1. \A i \in 1..Len(StaticList') : \A u \in CtorUses[StaticList'[i]] :
          \E j \in 1..Len(StaticList') : j > i /\ StaticList'[j] = u
    BY <1>1 DEF Order, Ordered
  <2> QED BY <1>6, <1>7, <2>1 DEF Ordered
<1>12. Falling(rank)'
  BY <1>5 DEF Falling
<1> QED BY <1>10, <1>11, <1>12 DEF Order

LEMMA OrderInvariant ==
  ASSUME NEW rank, LayeredBy(rank)
  PROVE  Spec => [](IInv /\ Order(rank))
<1>1. Init => Order(rank)
  <2> SUFFICES ASSUME Init
               PROVE  Order(rank)
    OBVIOUS
  <2>1. Len(StaticList) = 0 /\ \A t \in Threads : Len(stack[t]) = 0
    BY DEF Init
  <2>2. Main \in Threads /\ \A i \in 1..0 : FALSE
    BY ManagedStaticAssumption
  <2>3. \A r \in Statics : ~InList(r) /\ ~Dying(r) /\ ~Deleting(r)
    BY <2>1, <2>2 DEF InList, Dying, Deleting
  <2>4. \A t \in Threads : \A r \in Statics : ~On(t, "link", r)
    BY <2>1 DEF On
  <2>5. Distinct
    BY <2>1, <2>2, <2>3, <2>4 DEF Distinct
  <2>6. Ordered
    BY <2>1, <2>2, <2>3, <2>4 DEF Ordered
  <2>7. Falling(rank)
    BY <2>1, <2>2 DEF Falling
  <2> QED BY <2>5, <2>6, <2>7 DEF Order
<1>2. IInv /\ Order(rank) /\ [Next]_vars => Order(rank)'
  <2> SUFFICES ASSUME IInv, Order(rank), [Next]_vars
               PROVE  Order(rank)'
    OBVIOUS
  <2>1. ASSUME UNCHANGED <<Ptr, StaticList, stack>>
        PROVE  Order(rank)'
    BY <2>1 DEF Order, Distinct, Ordered, Falling, InList, Dying, Deleting, On
  <2>2. ASSUME NEW t \in Threads, Run(t)
        PROVE  Order(rank)'
    BY <2>2, NestedKeepsOrder, ConstructionKeepsOrder, PublishKeepsOrder,
       AddKeepsOrder, DereferenceKeepsOrder DEF Run
  <2>3. ASSUME NEW t \in Threads, NEW s \in Statics, Access(t, s)
        PROVE  Order(rank)'
    BY <2>3, AccessKeepsOrder
  <2>4. CASE StartMultithreaded \/ ShutdownBegin
    BY <2>1, <2>4 DEF StartMultithreaded, ShutdownBegin, list
  <2>5. CASE Shutdown
    <3>1. CASE ShutdownEnd
      BY <2>1, <3>1 DEF ShutdownEnd, list
    <3> QED BY <2>5, <3>1, DestroyKeepsOrder, DeleterKeepsOrder, ClearKeepsOrder
            DEF Shutdown
  <2>6. CASE UNCHANGED vars
    BY <2>1, <2>6 DEF vars, list
  <2> QED BY <2>2, <2>3, <2>4, <2>5, <2>6 DEF Next
<1> QED BY <1>1, <1>2, Invariance, PTL DEF Spec

(* Objects are destroyed in the reverse order of their construction, also    *)
(* when threads construct concurrently and destructors construct again:      *)
(* while an object is there, so is everything its constructor used.          *)
THEOREM UsedOutliveUsers ==
  ASSUME Layered
  PROVE  Spec => []OutlivesItsUsers
<1>1. PICK rank \in [Statics -> Nat] : LayeredBy(rank)
  BY DEF Layered
<1>2. IInv /\ Order(rank) => OutlivesItsUsers
  <2> SUFFICES ASSUME IInv, Order(rank), NEW s \in Statics, Constructed(s),
                      NEW u \in CtorUses[s]
               PROVE  Constructed(u)
    BY DEF OutlivesItsUsers
  <2>1. u \in Statics /\ Main \in Threads
    BY ManagedStaticAssumption
  <2>2. Published(s)
    <3>1. CASE \E t \in Threads : On(t, "publish", s) /\ stack[t][1].tmp = Ptr[s]
      <4>1. PICK t \in Threads : On(t, "publish", s) /\ stack[t][1].tmp = Ptr[s]
        BY <3>1
      <4>2. 1 \in 1..Len(stack[t])
        BY <4>1, Stacks DEF On, IInv, Types
      <4>3. PointersAt(t, 1)
        BY <4>2 DEF IInv, Pointers
      <4> QED BY <4>1, <4>3 DEF PointersAt, On
    <3> QED BY <3>1 DEF IInv, Objects, Constructed
  <2>3. InList(s) \/ (\E t \in Threads : On(t, "link", s)) \/ Dying(s)
    BY <2>2 DEF IInv, Listed, InList, Dying, Published
  <2>4. Dying(s) => Deleting(s)
    <3> SUFFICES ASSUME NEW i \in 1..Len(stack[Main]), stack[Main][i].s = s,
                        stack[Main][i].pc = "clear"
                 PROVE  FALSE
      BY DEF Dying, Deleting, Destroying
    <3>1. NestingAt(Main, i)
      BY <2>1 DEF IInv, Nesting
    <3>2. Len(stack[Main]) \in Nat /\ ~(i > 1)
      BY <2>1, <3>1, Stacks DEF NestingAt, IInv, Types
    <3>3. i = 1 /\ Len(stack[Main]) >= 1
      BY <3>2
    <3> QED BY <2>2, <3>3 DEF Published, On
  <2>5. InList(u)
    <3>1. CASE InList(s)
      BY <3>1 DEF InList, Order, Ordered
    <3>2. CASE (\E t \in Threads : On(t, "link", s)) \/ Deleting(s)
      <4>1. Ordered
        BY DEF Order
      <4> QED BY <2>1, <3>2, <4>1 DEF Ordered
    <3> QED BY <2>3, <2>4, <3>1, <3>2
  <2>6. Ptr[u] # 0 /\ ~Dying(u)
    BY <2>1, <2>5 DEF Order, Distinct
  <2>7. ~On(Main, "clear", u)
    <3> SUFFICES ASSUME On(Main, "clear", u)
                 PROVE  FALSE
      OBVIOUS
    <3>1. 1 \in 1..Len(stack[Main])
      BY <2>1, Stacks DEF On, IInv, Types
    <3> QED BY <2>6, <3>1 DEF On, Dying, Destroying
  <2> QED BY <2>1, <2>6, <2>7 DEF IInv, Objects, Published
<1>3. Spec => [](IInv /\ Order(rank))
  BY <1>1, OrderInvariant
<1> QED BY <1>2, <1>3, PTL
=============================================================================
