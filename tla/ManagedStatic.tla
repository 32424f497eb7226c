---------------------------- MODULE ManagedStatic ----------------------------
(* Lazy construction and ordered destruction of LLVM's ManagedStatic globals *)
(* (include/llvm/Support/ManagedStatic.h, lib/Support/ManagedStatic.cpp) and *)
(* the recursive global mutex that guards them (lib/Support/Threading.cpp).  *)
EXTENDS Naturals, Sequences, FiniteSets

CONSTANTS Threads,     \* threads that call into LLVM
          Main,        \* the one that starts and stops multithreaded mode
          Statics,     \* the ManagedStatic globals
          CtorUses,    \* CtorUses[s]: statics that s's constructor accesses
          DtorUses,    \* DtorUses[s]: statics that s's destructor accesses
          NoThread,    \* owner of the free global lock
          MaxShutdowns \* bound: how often Main may call llvm_shutdown

ASSUME ManagedStaticAssumption ==
  /\ Main \in Threads /\ NoThread \notin Threads
  /\ CtorUses \in [Statics -> SUBSET Statics]
  /\ DtorUses \in [Statics -> SUBSET Statics]
  /\ MaxShutdowns \in Nat

VARIABLES
  Ptr,                 \* 0, or the number of the object the static points to
  DeleterFn,           \* statics whose DeleterFn is set
  StaticList,          \* the list threaded through Next, its head first
  multithreaded_mode,
  global_lock,         \* owner and recursion depth of the recursive mutex
  stack,               \* calls in progress in each thread, innermost first
  shutting,            \* Main is inside llvm_shutdown
  live,                \* objects <<static, number>> allocated and not deleted
  made,                \* number of objects allocated for each static so far
  shutdowns            \* number of calls of llvm_shutdown so far

list == <<Ptr, DeleterFn, StaticList>>
mode == <<multithreaded_mode, global_lock>>
objects == <<live, made>>
calls == <<shutting, shutdowns>>
vars == <<list, mode, objects, calls, stack>>

(* A frame is an accessor call or a destroy() call on static s. "todo" are   *)
(* the accessor calls its constructor or destructor has still to make.       *)
Pcs == {"register", "check", "create", "publish", "link", "unlock", "deref",
        "delete", "clear"}
Frame(s, pc, todo) == [s |-> s, pc |-> pc, todo |-> todo, tmp |-> 0]

Top(t) == Head(stack[t])
At(t, pc) == stack[t] # <<>> /\ Top(t).pc = pc
Goto(t, pc) == stack' = [stack EXCEPT ![t][1].pc = pc]
Pop(t) == stack' = [stack EXCEPT ![t] = Tail(@)]
Isolated == \A t \in Threads : stack[t] = <<>>
-----------------------------------------------------------------------------
Init ==
  /\ Ptr = [s \in Statics |-> 0] /\ DeleterFn = {} /\ StaticList = <<>>
  /\ multithreaded_mode = FALSE
  /\ global_lock = [owner |-> NoThread, depth |-> 0]
  /\ stack = [t \in Threads |-> <<>>]
  /\ shutting = FALSE /\ live = {} /\ made = [s \in Statics |-> 0]
  /\ shutdowns = 0

(* operator* reads Ptr, fences, and registers the static only if it read 0. *)
Enter(t, s) ==
  <<Frame(s, IF Ptr[s] = 0 THEN "register" ELSE "deref", {})>>

(* A client call. Only Main calls LLVM outside multithreaded mode, and no    *)
(* one does during llvm_shutdown: the isolation docs/ProgrammersManual.html  *)
(* requires of clients.                                                      *)
Access(t, s) ==
  /\ stack[t] = <<>> /\ ~shutting /\ (multithreaded_mode \/ t = Main)
  /\ stack' = [stack EXCEPT ![t] = Enter(t, s)]
  /\ UNCHANGED <<list, mode, calls, objects>>

(* A constructor or destructor of LLVM that accesses another static. *)
NestedAccess(t) ==
  /\ stack[t] # <<>> /\ Top(t).pc \in {"create", "delete"}
  /\ \E u \in Top(t).todo :
       stack' = [stack EXCEPT ![t] =
                   Enter(t, u) \o [@ EXCEPT ![1].todo = Top(t).todo \ {u}]]
  /\ UNCHANGED <<list, mode, calls, objects>>

(* Mutant: the global mutex is not recursive. *)
AcquirePlainLock(t) ==
  /\ At(t, "register") /\ multithreaded_mode /\ global_lock.owner = NoThread
  /\ global_lock' = [owner |-> t, depth |-> 1]
  /\ Goto(t, "check")
  /\ UNCHANGED <<list, multithreaded_mode, calls, objects>>

(* RegisterManagedStatic takes the recursive lock in multithreaded mode... *)
AcquireGlobalLock(t) ==
  /\ At(t, "register") /\ multithreaded_mode
  /\ global_lock.owner \in {NoThread, t}
  /\ global_lock' = [owner |-> t, depth |-> global_lock.depth + 1]
  /\ Goto(t, "check")
  /\ UNCHANGED <<list, multithreaded_mode, calls, objects>>

(* Mutant: the check under the lock is left out. *)
CheckPtrWithoutRecheck(t) ==
  /\ \/ At(t, "check")
     \/ At(t, "register") /\ ~multithreaded_mode
  /\ LET s == Top(t).s
     IN stack' = [stack EXCEPT ![t][1] = Frame(s, "create", CtorUses[s])]
  /\ UNCHANGED <<list, mode, calls, objects>>

(* ...and checks Ptr again; a single thread goes straight to the creator. *)
CheckPtr(t) ==
  /\ \/ At(t, "check")
     \/ At(t, "register") /\ ~multithreaded_mode
  /\ LET s == Top(t).s
         create == Top(t).pc = "register" \/ Ptr[s] = 0
     IN stack' = [stack EXCEPT ![t][1] =
                    IF create THEN Frame(s, "create", CtorUses[s])
                              ELSE Frame(s, "unlock", {})]
  /\ UNCHANGED <<list, mode, calls, objects>>

(* Creator() returns: new C() has allocated and constructed the object. *)
CreatorReturns(t) ==
  /\ At(t, "create") /\ Top(t).todo = {}
  /\ LET s == Top(t).s IN
       /\ made' = [made EXCEPT ![s] = @ + 1]
       /\ live' = live \cup {<<s, made[s] + 1>>}
       /\ stack' = [stack EXCEPT ![t][1].pc = "publish",
                                 ![t][1].tmp = made[s] + 1]
  /\ UNCHANGED <<list, mode, calls>>

(* Ptr = tmp, seen at once by accessors that do not hold the lock. *)
PublishPtr(t) ==
  /\ At(t, "publish")
  /\ Ptr' = [Ptr EXCEPT ![Top(t).s] = Top(t).tmp]
  /\ Goto(t, "link")
  /\ UNCHANGED <<DeleterFn, StaticList, mode, calls, objects>>

(* Mutant: new statics go to the end of the list. *)
AppendToStaticList(t) ==
  /\ At(t, "link")
  /\ DeleterFn' = DeleterFn \cup {Top(t).s}
  /\ StaticList' = StaticList \o <<Top(t).s>>
  /\ Goto(t, IF multithreaded_mode THEN "unlock" ELSE "deref")
  /\ UNCHANGED <<Ptr, mode, calls, objects>>

AddToStaticList(t) ==
  /\ At(t, "link")
  /\ DeleterFn' = DeleterFn \cup {Top(t).s}
  /\ StaticList' = <<Top(t).s>> \o StaticList
  /\ Goto(t, IF multithreaded_mode THEN "unlock" ELSE "deref")
  /\ UNCHANGED <<Ptr, mode, calls, objects>>

(* Back in RegisterManagedStatic, which releases the lock it took. *)
ReleaseGlobalLock(t) ==
  /\ At(t, "unlock")
  /\ global_lock' = [owner |-> IF global_lock.depth = 1 THEN NoThread ELSE t,
                     depth |-> global_lock.depth - 1]
  /\ Goto(t, "deref")
  /\ UNCHANGED <<list, multithreaded_mode, calls, objects>>

(* The accessor reads Ptr a second time and returns the object. *)
Dereference(t) ==
  /\ At(t, "deref")
  /\ Pop(t)
  /\ UNCHANGED <<list, mode, calls, objects>>
-----------------------------------------------------------------------------
StartMultithreaded ==
  /\ Isolated /\ ~shutting /\ ~multithreaded_mode
  /\ multithreaded_mode' = TRUE
  /\ global_lock' = [owner |-> NoThread, depth |-> 0]
  /\ UNCHANGED <<list, stack, calls, objects>>

ShutdownBegin ==
  /\ Isolated /\ ~shutting /\ shutdowns < MaxShutdowns
  /\ shutting' = TRUE
  /\ shutdowns' = shutdowns + 1
  /\ UNCHANGED <<list, mode, stack, objects>>

(* Mutants: Next is cleared before StaticList takes it, or nothing is        *)
(* unlinked at all.                                                          *)
DestroyWith(rest) ==
  /\ shutting /\ stack[Main] = <<>> /\ StaticList # <<>>
  /\ LET s == Head(StaticList)
     IN stack' = [stack EXCEPT ![Main] = <<Frame(s, "delete", DtorUses[s])>>]
  /\ StaticList' = rest
  /\ UNCHANGED <<Ptr, DeleterFn, mode, calls, objects>>
DestroyHeadDropsRest == DestroyWith(<<>>)
DestroyHeadKeepsHead == DestroyWith(StaticList)

(* A turn of "while (StaticList) StaticList->destroy()": unlink the head... *)
DestroyHead == DestroyWith(Tail(StaticList))

(* ...run DeleterFn(Ptr), Ptr still set while the destructor runs... *)
DeleterReturns ==
  /\ At(Main, "delete") /\ Top(Main).todo = {}
  /\ live' = live \ {<<Top(Main).s, Ptr[Top(Main).s]>>}
  /\ Goto(Main, "clear")
  /\ UNCHANGED <<list, mode, calls, made>>

ClearOnly(ptr, deleter) ==
  /\ At(Main, "clear")
  /\ Ptr' = [Ptr EXCEPT ![Top(Main).s] = IF ptr THEN 0 ELSE @]
  /\ DeleterFn' = DeleterFn \ (IF deleter THEN {Top(Main).s} ELSE {})
  /\ Pop(Main)
  /\ UNCHANGED <<StaticList, mode, calls, objects>>
(* Mutant: Ptr is not reset. *)
ClearDeleterOnly == ClearOnly(FALSE, TRUE)

(* ...and clear Ptr and DeleterFn. *)
ClearPtr == ClearOnly(TRUE, TRUE)

ShutdownEnd ==
  /\ shutting /\ stack[Main] = <<>> /\ StaticList = <<>>
  /\ shutting' = FALSE
  /\ multithreaded_mode' = FALSE
  /\ UNCHANGED <<list, global_lock, stack, objects, shutdowns>>

(* The steps a call in progress takes by itself. *)
Run(t) ==
  \/ NestedAccess(t) \/ AcquireGlobalLock(t) \/ CheckPtr(t)
  \/ CreatorReturns(t) \/ PublishPtr(t) \/ AddToStaticList(t)
  \/ ReleaseGlobalLock(t) \/ Dereference(t)
Shutdown == DestroyHead \/ DeleterReturns \/ ClearPtr \/ ShutdownEnd

Next ==
  \/ \E t \in Threads : Run(t) \/ \E s \in Statics : Access(t, s)
  \/ StartMultithreaded \/ ShutdownBegin \/ Shutdown

(* Threads are scheduled, and a free mutex that somebody waits for is taken  *)
(* in the end, by whichever thread: no fairness between waiters is assumed.  *)
Fairness == (\A t \in Threads : WF_vars(Run(t))) /\ WF_vars(Shutdown)
Spec == Init /\ [][Next]_vars /\ Fairness
-----------------------------------------------------------------------------
TypeOK ==
  /\ Ptr \in [Statics -> Nat]
  /\ DeleterFn \subseteq Statics
  /\ StaticList \in Seq(Statics)
  /\ multithreaded_mode \in BOOLEAN /\ shutting \in BOOLEAN
  /\ global_lock.owner \in Threads \cup {NoThread} /\ global_lock.depth \in Nat
  /\ DOMAIN stack = Threads
  /\ \A t \in Threads : \A i \in 1..Len(stack[t]) :
       stack[t][i].pc \in Pcs /\ stack[t][i].s \in Statics

Constructed(s) == <<s, Ptr[s]>> \in live

(* Double-checked locking: however threads, nested constructors and the      *)
(* shutdown interleave, a static never has two objects at once.              *)
OneObjectPerStatic ==
  \A s \in Statics : Cardinality({o \in live : o[1] = s}) <= 1

(* What an accessor is about to return is an object that has been            *)
(* constructed and not yet deleted, although it tested Ptr without the lock. *)
AccessorReturnsLiveObject ==
  \A t \in Threads : At(t, "deref") => Constructed(Top(t).s)

(* "Not destroyed in reverse order of construction?": an object outlives     *)
(* every object whose constructor used it.                                   *)
OutlivesItsUsers ==
  \A s \in Statics : Constructed(s) => \A u \in CtorUses[s] : Constructed(u)

(* llvm_shutdown ends, also when destructors construct statics again (as     *)
(* ~PassRegistry does with its lock), and leaks no object.                   *)
ShutdownLeaksNothing == [][shutting /\ ~shutting' => live = {}]_vars
ShutdownTerminates == shutting ~> ~shutting

(* Every call of an accessor returns: recursion on the one global mutex      *)
(* neither deadlocks nor starves a thread.                                   *)
CallsReturn == \A t \in Threads : stack[t] # <<>> ~> stack[t] = <<>>
=============================================================================
