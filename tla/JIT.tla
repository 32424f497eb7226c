--------------------------------- MODULE JIT ---------------------------------
(* The JIT: threads that ask for the code of functions, the compilation of   *)
(* one function and of those it calls under the engine's lock, call stubs,   *)
(* lazy compilation from a stub, recompiling, freeing and deleting functions *)
(* (lib/ExecutionEngine/JIT/JIT.cpp, JITEmitter.cpp, Target/X86/X86JITInfo). *)
EXTENDS GlobalMaps, Naturals, Sequences, FiniteSets

CONSTANTS Threads,
          NoThread,      \* holder of the free lock
          Memory,        \* code addresses the memory manager has to give
          Resolver,      \* address of the target's lazy resolver function
          Programs,      \* programs, and how each is compiled
          FreeStubbed    \* clients free the code of functions with a stub too

Locations == Addrs \cup {Null}

(* Of a program: the functions that each body calls; the address of each     *)
(* function that is only declared; isCompilingLazily(); whether the target's *)
(* calls may need far stubs (ARM, Mips); whether clients call                *)
(* getPointerToFunctionOrStub too; bounds: how often code does not fit, is   *)
(* recompiled or is freed, and how often that happens together.              *)
ASSUME JITAssumption ==
  /\ NoThread \notin Threads /\ Resolver \notin Locations
  /\ Memory \subseteq Addrs \cap Nat /\ IsFiniteSet(Memory)
  /\ FreeStubbed \in BOOLEAN
  /\ \A p \in Programs :
       /\ DOMAIN p.calls \subseteq Globals
       /\ p.calls \in [DOMAIN p.calls -> SUBSET DOMAIN p.calls]
       /\ DOMAIN p.externalAddr \subseteq DOMAIN p.calls
       /\ p.externalAddr \in [DOMAIN p.externalAddr -> Locations \ Memory]
       /\ {p.lazily, p.farStubs, p.orStubs} \subseteq BOOLEAN
       /\ {p.retries, p.recompiles, p.frees, p.events} \subseteq Nat

VARIABLES      \* and the engine's maps and the functions alive: see GlobalMaps
  program,     \* the program and how it is compiled, chosen once and for all
  mem,         \* what is at each address of Memory
  emitted,     \* EmittedFunctions[f].FunctionBody, Null without an entry
  stubOf,      \* FunctionToLazyStubMap, Null without a stub
  callSites,   \* stubs in CallSiteToFunctionMap and StubToResolverMap
  pending,     \* the pending functions of the JITState
  lock,        \* thread that holds the engine's recursive lock
  job,         \* what the holder of the lock is compiling
  th,          \* the call each thread is in
  given,       \* history: pairs <<f, a>>, a returned to a client as code of f
  used         \* how often each bounded thing has happened

code == <<mem, emitted, stubOf, callSites, pending>>
vars == <<program, maps, alive, code, lock, job, th, given, used>>

Calls == program.calls
ExternalAddr == program.externalAddr
External == DOMAIN ExternalAddr
Lazily == program.lazily
FarStubs == program.farStubs

(* A body or a stub of f. A body is "done" when it can be executed, and then *)
(* has a target for every function it calls. "jump" is where a stub jumps    *)
(* to, and where a body does whose entry has been overwritten.               *)
Code(kind, f) ==
  [kind |-> kind, fn |-> f, calls |-> {}, done |-> FALSE, jump |-> Null]

Idle == [pc |-> "idle", op |-> "none", f |-> None, at |-> Null]
NoJob == [f |-> None, queued |-> FALSE, todo |-> {}, calls |-> {}]
Job(f, queued) == [NoJob EXCEPT !.f = f, !.queued = queued]

Goto(t, pc) == th' = [th EXCEPT ![t].pc = pc]
LockFree == lock = NoThread
Alone == LockFree /\ \A t \in Threads : th[t] = Idle
MayHappenAgain(event) ==
  /\ used[event] < program[event]
  /\ used.retries + used.recompiles + used.frees < program.events
Recompiled(f) == \E t \in Threads : th[t].op = "recompile" /\ th[t].f = f

(* Any address may be handed out that is free, of those used before and of   *)
(* those never used the lowest, which differ in nothing from the others.     *)
MayAllocate(a) ==
  /\ mem[a].kind \in {"unused", "freed"}
  /\ \A b \in Memory : b < a => mem[b].kind # mem[a].kind

Init ==
  /\ program \in Programs
  /\ maps = Empty /\ alive = DOMAIN program.calls
  /\ mem = [a \in Memory |-> Code("unused", None)]
  /\ emitted = [f \in Globals |-> Null] /\ stubOf = [f \in Globals |-> Null]
  /\ callSites = {} /\ pending = <<>> /\ lock = NoThread /\ job = NoJob
  /\ th = [t \in Threads |-> Idle] /\ given = {}
  /\ used = [retries |-> 0, recompiles |-> 0, frees |-> 0]
-----------------------------------------------------------------------------
(* A call returns an address: to a client, or to the callback of a stub.     *)
Return(t, a) ==
  IF th[t].op = "stub"
    THEN /\ th' = [th EXCEPT ![t].pc = "patch", ![t].at = <<@, a>>]
         /\ UNCHANGED given
    ELSE /\ th' = [th EXCEPT ![t] = Idle]
         /\ given' = given \cup {<<th[t].f, a>>}

(* getPointerToFunction, by any thread at any time. *)
getPointerToFunction(t, f) ==
  /\ th[t] = Idle /\ f \in alive
  /\ th' = [th EXCEPT ![t] = [pc |-> "check", op |-> "get", f |-> f,
                              at |-> Null]]
  /\ UNCHANGED <<maps, alive, code, lock, job, given, used>>

(* The first look at the map, which takes the lock for as long as it lasts.  *)
CheckMap(t) ==
  /\ th[t].pc = "check" /\ LockFree
  /\ IF Lookup(maps, th[t].f) # Null
       THEN Return(t, Lookup(maps, th[t].f))
       ELSE Goto(t, "lock") /\ UNCHANGED given
  /\ UNCHANGED <<maps, alive, code, lock, job, used>>

(* Mutant: the second look at the map is left out. *)
LockUnchecked(t) ==
  /\ th[t].pc = "lock" /\ LockFree
  /\ lock' = t /\ job' = Job(th[t].f, FALSE)
  /\ Goto(t, "start")
  /\ UNCHANGED <<maps, alive, code, given, used>>

(* "... and check if another thread has already code gen'd the function."    *)
(* An external function is only looked up and mapped.                        *)
LockAndCheck(t) ==
  LET f == th[t].f IN
  /\ th[t].pc = "lock" /\ LockFree
  /\ \/ /\ Lookup(maps, f) # Null
        /\ Return(t, Lookup(maps, f))
        /\ UNCHANGED <<maps, lock, job>>
     \/ /\ Lookup(maps, f) = Null /\ f \in External
        /\ maps' = addGlobalMapping(maps, f, ExternalAddr[f])
        /\ Return(t, ExternalAddr[f])
        /\ UNCHANGED <<lock, job>>
     \/ /\ Lookup(maps, f) = Null /\ f \notin External
        /\ lock' = t /\ job' = Job(f, FALSE)
        /\ Goto(t, "start")
        /\ UNCHANGED <<maps, given>>
  /\ UNCHANGED <<alive, code, used>>
-----------------------------------------------------------------------------
(* JITEmitter::startFunction. *)
StartFunction(t) ==
  LET f == job.f IN
  /\ th[t].pc = "start"
  /\ \E a \in Memory :
       /\ MayAllocate(a)
       /\ mem' = [mem EXCEPT ![a] = Code("body", f)]
       /\ emitted' = [emitted EXCEPT ![f] = a]
       /\ maps' = updateGlobalMapping(maps, f, a)
  /\ job' = [job EXCEPT !.todo = Calls[f], !.calls = {}]
  /\ Goto(t, "emit")
  /\ UNCHANGED <<alive, stubOf, callSites, pending, lock, given, used>>

(* Mutant: the relocation is looked at for ever. *)
RelocateAgain(g, a) == job' = [job EXCEPT !.calls = @ \cup {<<g, a>>}]

Relocate(g, a) ==
  job' = [job EXCEPT !.todo = @ \ {g}, !.calls = @ \cup {<<g, a>>}]
Resolve(g) == IF Lookup(maps, g) = Null
                THEN addGlobalMapping(maps, g, ExternalAddr[g]) ELSE maps

(* Resolve one relocation (JITEmitter::getPointerToGlobal): call the stub    *)
(* that exists, or call the code, or external function, directly.            *)
EmitDirectCall(t, g) ==
  /\ th[t].pc = "emit" /\ g \in job.todo
  /\ \/ /\ stubOf[g] # Null
        /\ Relocate(g, stubOf[g])
        /\ UNCHANGED maps
     \/ /\ stubOf[g] = Null /\ ~FarStubs /\ Lookup(maps, g) # Null
        /\ Relocate(g, Lookup(maps, g))
        /\ UNCHANGED maps
     \/ /\ stubOf[g] = Null /\ Lookup(maps, g) = Null /\ g \in External
        /\ ~FarStubs \/ ExternalAddr[g] = Null
        /\ maps' = Resolve(g)
        /\ Relocate(g, ExternalAddr[g])
  /\ UNCHANGED <<alive, code, lock, th, given, used>>

(* AddCallSite and RegisterStubResolver. *)
AddCallSite(s) == IF Lazily THEN callSites \cup {s} ELSE callSites

(* JITResolver::getLazyFunctionStub when it emits a new stub, at s, except   *)
(* for what it does about functions not compiled yet.                        *)
EmitStub(g, s) ==
  LET actual == IF g \in External THEN Lookup(Resolve(g), g)
                ELSE IF Lazily THEN Resolver ELSE Null
  IN /\ stubOf[g] = Null /\ MayAllocate(s)
     /\ g \in External => actual # Null
     /\ mem' = [mem EXCEPT ![s] = [Code("stub", g) EXCEPT !.jump = actual]]
     /\ stubOf' = [stubOf EXCEPT ![g] = s]
     /\ LET resolved == IF g \in External THEN Resolve(g) ELSE maps
        IN maps' = IF actual = Resolver THEN maps
                   ELSE updateGlobalMapping(resolved, g, s)
     /\ callSites' = AddCallSite(s)
     /\ UNCHANGED emitted

(* Mutant: the function is not put on the work list. *)
StubWithoutPending(g, s) == EmitStub(g, s) /\ UNCHANGED pending

getLazyFunctionStub(g, s) ==
  /\ EmitStub(g, s)
  /\ pending' = IF Lazily \/ g \in External THEN pending ELSE Append(pending, g)

EmitStubCall(t, g) ==
  /\ th[t].pc = "emit" /\ g \in job.todo
  /\ FarStubs \/ (Lookup(maps, g) = Null /\ g \notin External)
  /\ \E s \in Memory : getLazyFunctionStub(g, s) /\ Relocate(g, s)
  /\ UNCHANGED <<alive, lock, th, given, used>>

(* Mutant: the memory of the first attempt is not given back. *)
RetryWithoutFreeing(t) ==
  /\ th[t].pc = "emit" /\ MayHappenAgain("retries")
  /\ job.todo \in {{}, Calls[job.f]}
  /\ used' = [used EXCEPT !.retries = @ + 1]
  /\ Goto(t, "start")
  /\ UNCHANGED <<maps, alive, code, lock, job, given>>

(* JITEmitter::finishFunction finds that the code did not fit, before it has *)
(* resolved the relocations or after, and the function is emitted again.     *)
Retry(t) ==
  /\ th[t].pc = "emit" /\ MayHappenAgain("retries")
  /\ job.todo \in {{}, Calls[job.f]}
  /\ mem' = [mem EXCEPT ![emitted[job.f]] = Code("freed", None)]
  /\ emitted' = [emitted EXCEPT ![job.f] = Null]
  /\ used' = [used EXCEPT !.retries = @ + 1]
  /\ Goto(t, "start")
  /\ UNCHANGED <<maps, alive, stubOf, callSites, pending, lock, job, given>>

(* updateFunctionStub: fill in the stub of a function from the work list.   *)
updateFunctionStub(m, f) == [m EXCEPT ![stubOf[f]].jump = Lookup(maps, f)]

(* The end of runJITOnFunctionUnlocked. *)
Release(t) ==
  /\ lock' = NoThread /\ job' = NoJob
  /\ IF th[t].op = "recompile"
       THEN Goto(t, "find") /\ UNCHANGED given
       ELSE Return(t, Lookup(maps, th[t].f))

(* The work list is emptied from its end. *)
NextFunction(t) ==
  IF pending # <<>>
    THEN /\ pending' = SubSeq(pending, 1, Len(pending) - 1)
         /\ job' = Job(pending[Len(pending)], TRUE)
         /\ Goto(t, "start") /\ UNCHANGED <<lock, given>>
    ELSE Release(t) /\ UNCHANGED pending

(* JITEmitter::finishFunction, when the code fitted. *)
FinishFunction(t) ==
  /\ th[t].pc = "emit" /\ job.todo = {}
  /\ LET a == emitted[job.f]
         written == [mem EXCEPT ![a].done = TRUE, ![a].calls = job.calls]
     IN mem' = IF job.queued THEN updateFunctionStub(written, job.f) ELSE written
  /\ NextFunction(t)
  /\ UNCHANGED <<maps, alive, emitted, stubOf, callSites, used>>
-----------------------------------------------------------------------------
(* Where a call of address a ends up, and all code that a client can reach.  *)
Follow(a) == IF a \in Memory /\ mem[a].jump \notin {Null, Resolver}
               THEN mem[a].jump ELSE a
Destination(a) ==
  LET after[n \in 0..Cardinality(Memory)] ==
        IF n = 0 THEN a ELSE Follow(after[n - 1])
  IN after[Cardinality(Memory)]
AndSuccessors(as) ==
  as \cup UNION {{mem[a].jump} \cup {c[2] : c \in mem[a].calls} :
                   a \in as \cap Memory}
ReachableFrom(as) ==
  LET after[n \in 0..Cardinality(Memory)] ==
        IF n = 0 THEN as ELSE AndSuccessors(after[n - 1])
  IN after[Cardinality(Memory)] \cap Memory
Reachable == ReachableFrom({p[2] : p \in given})

(* Running code enters a stub that has not been resolved, and the target's   *)
(* callback gets the address of its function. No other thread is in the same *)
(* stub: that is the rule for clients (DisableLazyCompilation).              *)
CallStub(t, s) ==
  /\ Lazily /\ LockFree
  /\ th[t] = Idle /\ s \in callSites /\ s \in Reachable
  /\ mem[s].jump = Resolver
  /\ \A u \in Threads : th[u].f # mem[s].fn \/ th[u].op # "stub"
  /\ th' = [th EXCEPT ![t] = [pc |-> "check", op |-> "stub", f |-> mem[s].fn,
                              at |-> s]]
  /\ UNCHANGED <<maps, alive, code, lock, job, given, used>>

(* X86CompilationCallback2 rewrites the stub, without the lock. *)
Patch(t) ==
  /\ th[t].pc = "patch"
  /\ mem' = [mem EXCEPT ![th[t].at[1]].jump = th[t].at[2]]
  /\ th' = [th EXCEPT ![t] = Idle]
  /\ UNCHANGED <<maps, alive, emitted, stubOf, callSites, pending, lock, job,
                 given, used>>
-----------------------------------------------------------------------------
(* recompileAndRelinkFunction of a compiled function: four steps that take   *)
(* the lock, each for itself, and one that does not. Of one function only    *)
(* one thread at a time asks for it, as it has been modified.                *)
recompileAndRelinkFunction(t, f) ==
  /\ th[t] = Idle /\ LockFree /\ f \in alive \ External
  /\ Lookup(maps, f) # Null /\ ~Recompiled(f)
  /\ MayHappenAgain("recompiles")
  /\ used' = [used EXCEPT !.recompiles = @ + 1]
  /\ th' = [th EXCEPT ![t] = [pc |-> "unmap", op |-> "recompile", f |-> f,
                              at |-> Lookup(maps, f)]]
  /\ UNCHANGED <<maps, alive, code, lock, job, given>>

(* "Delete the old function mapping." *)
DeleteMapping(t) ==
  /\ th[t].pc = "unmap" /\ LockFree
  /\ maps' = addGlobalMapping(maps, th[t].f, Null)
  /\ Goto(t, "recompile")
  /\ UNCHANGED <<alive, code, lock, job, given, used>>

(* Nobody looks whether another thread has compiled the function meanwhile.  *)
runJITOnFunction(t) ==
  /\ th[t].pc = "recompile" /\ LockFree
  /\ lock' = t /\ job' = Job(th[t].f, FALSE)
  /\ Goto(t, "start")
  /\ UNCHANGED <<maps, alive, code, given, used>>

FindNewCode(t) ==
  /\ th[t].pc = "find" /\ LockFree
  /\ th' = [th EXCEPT ![t].pc = "relink",
                      ![t].at = <<@, Lookup(maps, th[t].f)>>]
  /\ UNCHANGED <<maps, alive, code, lock, job, given, used>>

(* Mutant: the new code is made to jump to the old. *)
RelinkBackwards(t) ==
  /\ th[t].pc = "relink"
  /\ mem' = [mem EXCEPT ![th[t].at[2]].jump = th[t].at[1]]
  /\ Return(t, th[t].at[2])
  /\ UNCHANGED <<maps, alive, emitted, stubOf, callSites, pending, lock, job,
                 used>>

(* The old entry becomes a jump (replaceMachineCodeForFunction).             *)
Relink(t) ==
  /\ th[t].pc = "relink"
  /\ mem' = [mem EXCEPT ![th[t].at[1]].jump = th[t].at[2]]
  /\ Return(t, th[t].at[2])
  /\ UNCHANGED <<maps, alive, emitted, stubOf, callSites, pending, lock, job,
                 used>>

(* deallocateMemForFunction. The stub of f stays. *)
deallocateMemForFunction(f) ==
  /\ mem' = IF emitted[f] = Null THEN mem
            ELSE [mem EXCEPT ![emitted[f]] = Code("freed", None)]
  /\ emitted' = [emitted EXCEPT ![f] = Null]

(* freeMachineCodeForFunction, by a client that does not use the code of f   *)
(* any more, when no code of another function leads to it.                   *)
freeMachineCodeForFunction(f) ==
  /\ Alone /\ f \in alive /\ emitted[f] # Null
  /\ MayHappenAgain("frees")
  /\ FreeStubbed \/ stubOf[f] = Null
  /\ ~ \E a, b \in Memory :
         /\ mem[a].kind = "body" /\ mem[a].fn # f
         /\ mem[b].kind = "body" /\ mem[b].fn = f
         /\ b \in ReachableFrom({a})
  /\ used' = [used EXCEPT !.frees = @ + 1]
  /\ maps' = updateGlobalMapping(maps, f, Null)
  /\ deallocateMemForFunction(f)
  /\ given' = {p \in given : p[1] # f}
  /\ UNCHANGED <<alive, stubOf, callSites, pending, lock, job, th>>

(* Mutant: a deleted function keeps its call sites. *)
AllCallSites(f) == callSites

(* EraseAllCallSitesForPrelocked. *)
CallSitesWithout(f) == {s \in callSites : mem[s].fn # f}

(* A function that nothing uses is deleted, and the handles of the four maps *)
(* that are keyed by it remove their entries. No thread is in a call about   *)
(* it or runs it, and the lock is free.                                      *)
DeleteFunction(f) ==
  /\ LockFree /\ f \in alive
  /\ \A t \in Threads : th[t].f # f
  /\ \A g \in alive \ {f} : f \notin Calls[g]
  /\ alive' = alive \ {f} /\ given' = {p \in given : p[1] # f}
  /\ maps' = onDelete(maps, f)
  /\ deallocateMemForFunction(f)
  /\ stubOf' = [stubOf EXCEPT ![f] = Null]
  /\ callSites' = CallSitesWithout(f)
  /\ UNCHANGED <<pending, lock, job, th, used>>

(* getPointerToFunctionOrStub looks at the map and then, the lock having     *)
(* been free in between, gets a stub, or null ("eg. a weak external").       *)
getPointerToFunctionOrStub(t, f) ==
  /\ program.orStubs /\ LockFree /\ th[t] = Idle /\ f \in alive
  /\ IF Lookup(maps, f) # Null
       THEN given' = given \cup {<<f, Lookup(maps, f)>>} /\ UNCHANGED th
       ELSE /\ th' = [th EXCEPT ![t] = [pc |-> "orstub", op |-> "get", f |-> f,
                                        at |-> Null]]
            /\ UNCHANGED given
  /\ UNCHANGED <<maps, alive, code, lock, job, used>>

GetStub(t) ==
  /\ th[t].pc = "orstub" /\ LockFree
  /\ \/ \E s \in Memory : /\ \/ stubOf[th[t].f] = s /\ UNCHANGED <<maps, code>>
                             \/ getLazyFunctionStub(th[t].f, s)
                          /\ Return(t, s)
     \/ /\ stubOf[th[t].f] = Null /\ th[t].f \in External
        /\ ExternalAddr[th[t].f] = Null
        /\ maps' = Resolve(th[t].f) /\ Return(t, Null)
        /\ UNCHANGED code
  /\ UNCHANGED <<alive, lock, job, used>>

(* getGlobalValueAtAddress. *)
Ask == /\ LockFree /\ maps' = ComputeReverse(maps)
       /\ UNCHANGED <<alive, code, lock, job, th, given, used>>

Progress(t) ==
  /\ UNCHANGED program
  /\ \/ CheckMap(t) \/ LockAndCheck(t) \/ StartFunction(t)
     \/ \E g \in Globals : EmitDirectCall(t, g) \/ EmitStubCall(t, g)
     \/ FinishFunction(t) \/ Patch(t) \/ GetStub(t)
     \/ DeleteMapping(t) \/ runJITOnFunction(t) \/ FindNewCode(t) \/ Relink(t)

Next ==
  \/ \E t \in Threads : Progress(t)
  \/ /\ UNCHANGED program
     /\ \/ \E t \in Threads : Retry(t)
        \/ \E t \in Threads, f \in Globals :
             \/ getPointerToFunction(t, f) \/ recompileAndRelinkFunction(t, f)
             \/ getPointerToFunctionOrStub(t, f)
        \/ \E t \in Threads, s \in Memory : CallStub(t, s)
        \/ \E f \in Globals : freeMachineCodeForFunction(f) \/ DeleteFunction(f)
        \/ Ask

Spec == Init /\ [][Next]_vars
FairSpec == Spec /\ \A t \in Threads : WF_vars(Progress(t))
-----------------------------------------------------------------------------
Kinds == {"unused", "freed", "body", "stub"}
Holds(t) == th[t].pc \in {"start", "emit"}

(* The variables have their types, and exactly the thread that is compiling  *)
(* holds the lock.                                                           *)
TypeOK ==
  /\ maps \in [fwd : [Globals -> Locations \cup {Absent}],
               rev : [Locations -> Globals \cup {None}]]
  /\ alive \subseteq Globals /\ callSites \subseteq Memory
  /\ mem \in [Memory -> [kind : Kinds, fn : Globals \cup {None},
                         calls : SUBSET (Globals \X Locations), done : BOOLEAN,
                         jump : Locations \cup {Resolver}]]
  /\ {emitted, stubOf} \subseteq [Globals -> Memory \cup {Null}]
  /\ pending \in Seq(Globals)
  /\ lock \in Threads \cup {NoThread}
  /\ \A t \in Threads : Holds(t) <=> lock = t
  /\ given \subseteq Globals \X Locations

Runs(f, a) ==
  LET d == Destination(a) IN
  IF f \in External THEN d = ExternalAddr[f]
  ELSE /\ d \in Memory /\ mem[d].fn = f
       /\ \/ /\ mem[d].kind = "body" /\ mem[d].done
             /\ {c[1] : c \in mem[d].calls} = Calls[f]
          \/ mem[d].jump = Resolver /\ d \in callSites

(* Every address that getPointerToFunction has returned leads to complete    *)
(* code of that function, and so does every call in code that can be reached *)
(* from there, or else to a stub that the lazy resolver knows. (JIT.cpp: the *)
(* loop over the pending functions, the order of the map's update and the    *)
(* compilation, the lock; JITResolver::getLazyFunctionStub.)                 *)
ReturnedCodeIsComplete ==
  /\ \A p \in given : Runs(p[1], p[2])
  /\ \A a \in Reachable : \A c \in mem[a].calls : Runs(c[1], c[2])

(* A function that is asked for by two threads, or found in several ways, is *)
(* compiled once (JIT::getPointerToFunction looks at the map again under the *)
(* lock), unless some function is recompiled, which does not look; with far  *)
(* stubs compiled functions are put on the work list again.                  *)
Body(a) == mem[a].kind = "body" /\ mem[a].jump = Null
OneBodyPerFunction ==
  used.recompiles = 0 /\ ~FarStubs =>
    \A a, b \in Memory : Body(a) /\ Body(b) /\ mem[a].fn = mem[b].fn => a = b

(* "When F is destroyed, the ExecutionEngine will remove its global mapping  *)
(* and free any machine code." (Only the newest code of a function that was  *)
(* recompiled. Where calls need far stubs a function may be compiled twice,  *)
(* and its first body is never freed.)                                       *)
DestroyedCodeIsFreed ==
  \A f \in Globals \ alive :
    /\ Lookup(maps, f) = Null
    /\ used.recompiles = 0 /\ ~FarStubs =>
         \A a \in Memory : Body(a) => mem[a].fn # f

(* The tables of the engine agree: no call site is of a deleted function, as *)
(* the map holds asserting handles (CallSiteValueMapConfig::onDelete), and   *)
(* the callers of the global mappings keep the rule that no address has two  *)
(* functions, so that the reverse map, while in use, is the inverse of the   *)
(* map (unless a function has been recompiled: it is mapped to null for a    *)
(* while, and its old address is not erased).                                *)
TablesAgree ==
  /\ TypeOK
  /\ \A s \in callSites : mem[s].fn \in alive
  /\ ReverseInUse(maps) /\ used.recompiles = 0 =>
       \A f \in Globals, a \in Addrs : maps.fwd[f] = a <=> maps.rev[a] = f

(* "Then the entry to the old copy is overwritten with a branch to the new   *)
(* copy": whatever other threads do meanwhile, an address that was returned  *)
(* for a function and has been overwritten leads, after any number of        *)
(* recompilations, to its newest code (the test                              *)
(* FunctionIsRecompiledAndRelinked checks one old address).                  *)
PointersReachCurrentCode ==
  ~FarStubs =>
    \A p \in given :
      p[2] \in Memory /\ mem[p[2]].kind = "body" /\ mem[p[2]].jump # Null
        => Destination(p[2]) = emitted[p[1]] \/ Recompiled(p[1])

(* Every call returns: no thread waits for the lock, or in a compilation,    *)
(* for ever (retries come to an end).                                        *)
CallsReturn == \A t \in Threads : th[t].pc # "idle" ~> th[t].pc = "idle"
=============================================================================
