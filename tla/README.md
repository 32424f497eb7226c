# A verification project for llvm-coffee

llvm-coffee is LLVM as of late 2012 with two targets of its own, COFFEE and
CoffeeCL. Most of its 1.7 million lines are sequential transformations of
programs, tables and test inputs. The parts modelled here are those that keep
state which several threads, processes, callbacks or calls of a client can get
at in an order nobody wrote down. All of it is under `src/llvm/`; paths below
are relative to that directory.

* [1. Inventory](#1-inventory)
* [2. Modules and how they correspond to the
  code](#2-modules-and-how-they-correspond-to-the-code)
* [3. Runs, bounds and results](#3-runs-bounds-and-results)
* [4. Fairness and assumptions](#4-fairness-and-assumptions)
* [5. What is proved](#5-what-is-proved)
* [6. Disagreements between code and
  documentation](#6-disagreements-between-code-and-documentation)
* [7. What is not modelled](#7-what-is-not-modelled)
* [8. Plan](#8-plan)

Run a model with `tlc -config X.cfg M` and a proof with `tlapm M.tla`;
`PROJECT.json` lists which configuration belongs to which module, the source
lines behind every definition, a mutant that breaks each property, and the
hazards the properties were written for.

## 1. Inventory

### Modelled

**Managed statics** (`lib/Support/ManagedStatic.cpp`, `ManagedStatic.h`,
`Threading.cpp`). State: for each static `Ptr`, `DeleterFn` and its place in
`StaticList`; the flag `multithreaded_mode` and the recursive global lock.
Operations: an accessor constructs its object at first use; `llvm_shutdown`
destroys all of them; `llvm_start_multithreaded` switches locking on.
Users: `PassRegistry`, `Statistic`, `Timer`, `GlobalContext`, command line
options, the signal handlers. Hard: double-checked locking, constructors and
destructors that use other statics while the lock is held or the list is being
emptied, statics that come to life again after a shutdown. Correct if there is
one object per static, accessors return live objects, users are destroyed
before what they use, and shutdown ends without leaks.

**Lock files** (`lib/Support/LockFileManager.cpp`). State: the directory
entries `X.lock` and `X.lock-<unique>`, their inodes' contents, and for each
process the fields of its manager. Operations: the constructor (read, create,
write, hard link, stat, read again), `waitForUnlock`, the destructor. Processes
interact through the file system only. Hard: each step is a system call, other
processes run in between, calls fail, a network file system may report failure
after success, processes die and pids are reused. Correct if at most one
process owns the lock, a published lock file is complete, waiting ends and
stale locks go away.

**Value handles** (`include/llvm/Support/ValueHandle.h`, `lib/VMCore/Value.cpp`).
State: the fields `VP`, `Next`, `PrevPtr` of each handle, the `DenseMap` from a
value to the head of its list, the bit `HasValueHandle`. Operations: construct,
copy, assign and destroy a handle; replace or delete a value, which walks its
list. Handles are used by the JIT's maps, `ValueMap`, most analyses and the
inliner. Hard: the walk calls client code that changes the list being walked,
deletes other values and makes the map reallocate, while list nodes point back
into the map's buckets. Correct if the lists and the map stay consistent,
every handle that should be told is told once, and no handle is left on a
deleted value.

**Global mappings** (`lib/ExecutionEngine/ExecutionEngine.cpp`). State:
`GlobalAddressMap` (a `ValueMap`, hence with callback handles as keys) and
`GlobalAddressReverseMap`, filled when it is first asked for. Operations: add,
update, clear, look up either way, and the callback when a global is destroyed.
Used by the JIT, which enters functions, stubs and null. Hard: the second map
is a cache whose validity is deduced from its being non-empty, and its values
are asserting handles that abort when they outlive their global.

**JIT** (`lib/ExecutionEngine/JIT/JIT.cpp`, `JITEmitter.cpp`,
`lib/Target/X86/X86JITInfo.cpp`). State: the mappings above, `EmittedFunctions`,
the resolver's maps of stubs and call sites, the list of pending functions, the
engine's recursive lock, and the code memory. Operations:
`getPointerToFunction`, `getPointerToFunctionOrStub`,
`recompileAndRelinkFunction`, `freeMachineCodeForFunction`, the compilation of
a function and of those it calls, the callback of a lazy stub, and the deletion
of a function. Hard: code is entered into the map before it is complete,
compilation is retried when memory is short, stubs are filled in later, threads
and running code enter at any time, functions and their code come and go.
Correct if every address given out leads to complete current code of its
function, nothing is compiled twice or leaked, and every call returns.

**JIT memory manager** (`lib/ExecutionEngine/JIT/JITMemoryManager.cpp`). State:
slabs of memory divided into blocks, each behind a one-word header that says
whether it and the block before it are in use, the size of a free block at its
end, and a circular free list. Operations: a function body is begun in the
largest free block and trimmed when it ends; spaces and sections are allocated;
bodies are freed. The JIT allocates and frees through it. Hard: a size is read
through a word that is a client's data if the block in front is in use; freeing
merges with both neighbours while the list is entered at one of them; the list
must never become empty. Correct if headers and list tell the truth, free
neighbours are merged, and what a client was given stays its own.

**DenseMap** (`include/llvm/ADT/DenseMap.h`). State: an array of buckets and two
counts. Operations: find, insert, assign, erase, clear, resize. The map of value
handles, the JIT's tables and most of LLVM use it. Hard: an erased key leaves a
tombstone, searches end at empty buckets only, and the array is replaced between
the search for a bucket and the insertion into it. Correct if it is a map, and
every search ends.

**Pass managers** (`lib/VMCore/PassManager.cpp`, `PassManagers.h`). State: the
stack of managers, the maps of available analyses, the last user of every pass,
the implementations connected to each pass, and the results they hold.
Operations: a client adds a pass, which schedules the analyses it requires, and
runs them all. Hard: scheduling one analysis may pop the manager that holds
another; what a pass does not preserve must disappear from several maps; a
result must live as long as the last pass that uses it, directly or through
another analysis, and no longer; the same managers run again. Correct if each
pass finds what it requires, computed for what it works on and not out of date,
and nothing is leaked.

**Assembler layout** (`lib/MC/MCAssembler.cpp`, `MCAsmLayout.h`). State: the
fragments of each section, their contents and offsets, and for each section the
last fragment whose offset is valid. Operations: offsets are computed when they
are asked for; scans over the sections relax branches and encode differences
anew until a scan changes nothing. Hard: a size changes behind offsets that are
cached and have been used, and each change may undo the reason for another one.
Correct if the cached offsets are right, what is written fits, and layout ends.

The components interact as in the code: `GlobalMaps` is shared by
`GlobalMapping`, which gives it arbitrary clients, and `JIT`, which is one
particular client; what `ValueHandles` shows about callbacks (each key's handle
is notified once, whatever other callbacks do) is what `Destroy` in
`GlobalMapping` and `DeleteFunction` in `JIT` rely on when they remove the
entries of a deleted function in one step. `DenseMap` shows that the maps under
all of these are maps, and that any insertion may move their buckets, which is
what `ValueHandleLists` lets them do; `JITMemoryManager` shows what `JIT`
assumes of memory: cells given out are free and stay one's own. The managed
statics are what makes the resolver table of the JIT and the pass registry
available to every thread.

### Not modelled

The interpreter and the rest of the execution engine; MCJIT and RuntimeDyld;
types, constants, use lists and modules; `IntervalMap`, `ilist`, `FoldingSet`;
signals and crash recovery; the rest of Support; the linker; bitcode and
assembly I/O; the code generator; parsers and object formats of the MC layer;
analyses and transformations; the COFFEE and CoffeeCL targets; the other
targets; TableGen; tools, bindings and examples; build system, documentation
and tests. Section 7 gives the reasons and section 8 says which are planned.

## 2. Modules and how they correspond to the code

| module | models | extends |
|---|---|---|
| `ManagedStatic` | managed statics, global lock, shutdown | |
| `ManagedStaticProofs` | theorems about them | `ManagedStatic` |
| `LockFileManager` | lock file protocol of several processes | |
| `LockFileManagerProofs` | theorems about it | `LockFileManager` |
| `ValueHandleLists` | operators: the lists and map of value handles | |
| `ValueHandles` | clients, `ValueIsDeleted`, `ValueIsRAUWd`, callbacks | `ValueHandleLists` |
| `ValueHandlesProofs` | lemmas about the lists, theorems about them | `ValueHandles` |
| `GlobalMaps` | the two maps of the engine, the globals alive, operators on the maps | |
| `AddressBook` | abstract: one map, nothing cached | |
| `GlobalMapping` | the maps under all clients; implements `AddressBook` | `GlobalMaps` |
| `JIT` | compilation, stubs, patching, freeing | `GlobalMaps` |
| `ExecutionEngineProofs` | theorems about the maps, under all clients and under `JIT`, the refinement included | `JIT`, `GlobalMapping` |
| `JITMemoryManager` | blocks, boundary tags, free list, slabs | |
| `JITMemoryManagerProofs` | theorems about it | `JITMemoryManager` |
| `Dictionary` | abstract: a map | |
| `DenseMap` | hash table with tombstones; implements `Dictionary` | |
| `DenseMapProofs` | theorems about it, the refinement included | `DenseMap` |
| `PassManager` | scheduling, running, invalidation, release | |
| `PassManagerProofs` | theorems about it | `PassManager` |
| `AssemblerLayout` | fragments, cached offsets, relaxation | |
| `AssemblerLayoutProofs` | theorems about it | `AssemblerLayout` |
| `MC*` | constants of the runs | the module they are named after |

Names of variables and actions are those of the source wherever TLA+ allows.

**`ManagedStatic`.** Each thread has a stack of frames, one for each accessor
or `destroy` call in progress, because constructors and destructors call
accessors (`CtorUses`, `DtorUses`). The frame's `pc` follows the code line by
line: the unlocked test (`Access`, `NestedAccess`), the lock
(`AcquireGlobalLock`), the second test (`CheckPtr`), the creator
(`CreatorReturns`), `Ptr = tmp` (`PublishPtr`), `DeleterFn` and the list
(`AddToStaticList`), unlocking, and the second read of `Ptr`. `DestroyHead`,
`DeleterReturns` and `ClearPtr` are the three parts of `destroy`, between which
a destructor may construct statics. Objects have numbers, so that two objects
of one static, or one deleted and constructed again, are told apart.
`multithreaded_mode` is read when a call takes the lock and when it releases
it, as in the code. The memory fences make the two writes of `PublishPtr` and
`CreatorReturns` appear in order; they are steps in that order. The isolation
that `docs/ProgrammersManual.html` asks of clients for starting and stopping
multithreaded mode is the guard `Isolated`.

**`LockFileManager`.** One action for each system call; `pc` is the position
in the constructor, `waitForUnlock` or the destructor. `lock` is the inode that
the name `X.lock` links to, `files` are the inodes that have a unique name, and
`pid` what is written in them; an inode without a name is free for reuse. With
`FsErrors` any call but removal may fail, and a hard link may be made although
failure is reported, which is why the code looks at the link count.
`processStillExecuting` answers yes for another host. Processes may die
anywhere and be followed by a new one with the same pid. The history variable
`robbed` collects the owners whose lock file another process has removed. The
doubling intervals of `waitForUnlock` are counted in `rounds`.

**`ValueHandleLists` / `ValueHandles`.** The first holds pure operators on a
record of all the fields: `AddToExistingUseList`, `AddToUseList` (which gives a
set of outcomes, since the map may reallocate), `RemoveFromUseList`, and the
assignments built from them. A `PrevPtr` is a handle (its `Next` field) or a
bucket `<<array, value>>`; when the map moves to the other array, old buckets
dangle, as they do in memory. The second adds the loops of `ValueIsDeleted` and
`ValueIsRAUWd` as a stack (a callback may start another loop), with their local
`Iterator` handles, and the clients, which act when no loop runs or inside the
innermost callback. What a callback must not do (leave a new handle on a value
that is being deleted, delete the value again) is the code's own rule: the fatal
error and the asserts at the end of the loops. To put a handle there for a
moment is allowed, as the comment in `ValueIsDeleted` says; so the rule is asked
of a callback when it returns (`LeavesNoNewHandle`), and destroying handles is
not counted among a callback's operations, or it could not take them off again.
Removing a handle resets its links, which the code leaves as they were; nothing
reads them before the handle is linked again.

**`GlobalMaps` / `GlobalMapping` / `AddressBook`.** A record of a forward map
(an entry, null, or absent) and a reverse map. Each engine call runs under the
engine's lock and is one action. The asserts of `addGlobalMapping` and
`updateGlobalMapping` are what callers must respect (`MayEnter`); they look at
an address only while the reverse map is in use. What the clients of an instance
ask for is said apart from that (`Asked`): `NullMappings` lets them map a global
to null, as `recompileAndRelinkFunction` does, and `SharedAddresses` two globals
to one address, as an alias or a function of two names may be. `AddressBook` is
what the header promises: one map, no cache; the refinement maps `address[g]` to
`Lookup(maps, g)`. `GlobalMaps` declares the state that `GlobalMapping` and
`JIT` share, the maps and the globals alive; `GlobalMapping`'s specification is
`MapsSpec`, so that one module can prove theorems about both.

**`JIT`.** A thread's call goes through `CheckMap` (the unlocked look, which
locks the map for a moment), `LockAndCheck` (the look under the engine's lock),
then for each function `StartFunction`, one `EmitDirectCall` or `EmitStubCall`
for each relocation, and `FinishFunction`, which fills in the stub of a pending
function, takes the next one off the list, or releases the lock. `Retry` is
`retryWithMoreMemory`, before or after the relocations were resolved.
`recompileAndRelinkFunction` takes the lock three times and gives it back in
between, so it is five steps and the compilation: the first look,
`DeleteMapping`, `runJITOnFunction` (which, unlike `LockAndCheck`, does not ask
whether somebody has compiled the function meanwhile), `FindNewCode` and
`Relink`; the other threads go on between them. A stub
whose function is unknown jumps to null when compilation is eager, and to the
target's resolver when it is lazy; `CallStub` is code that runs into such a
stub, and `Patch` is what `X86CompilationCallback2` writes, without the lock.
Memory cells hold a body or a stub with its jump and the targets of its calls;
`Destination` and `Reachable` follow them as a processor would. Deleting a
function removes its entries from the four maps that are keyed by handles.
`program` is chosen at the start: who calls whom, whether compilation is lazy,
whether calls go through far stubs, and how many retries, recompilations and
freeings the environment has in store. Data that no property tells apart is left
out: instructions, constants, jump tables, alignment, listeners.

**`JITMemoryManager`.** Addresses and sizes are in words, a header is one word
and the smallest block four. `heap.block[b]` is the header at address `b`;
`before` is the word in front of it, which is a size if the block before is
free and 0, standing for a client's data, if not. `heap.free` is the circular
list, as a sequence that begins at `FreeMemoryList`; removing the only element
of a ring leaves it alone, as in the code. Slabs lie one behind the other; the
first has a tiny free block of its own (`Mem2`), which keeps the list from
becoming empty. Functions and sections never get it, as they take the largest
block and a new slab if that is no larger than `Mem2`; `allocateSpace`, which
takes the head of the list whatever it is, may. `held` is history: what clients
have been given. The operations between `startFunctionBody` and
`endFunctionBody` are excluded, as the code's comment on the current block
demands. When `allocateSpace` has given a client less than it asked for, or
`Mem2`, what happens next is undefined in the code (the client writes over the
next header; a ring without elements is read through a client's memory); so a
behaviour is followed up to that call, and no further (`Defined`).

**`DenseMap` / `Dictionary`.** A call of the client (`Call`) is followed by one
`Probe` for every turn of the loop in `LookupBucketFor` and by the step that
writes the bucket. Growing is the same loop over the old buckets
(`LookupMoved`, `Move`, `LeaveBehind`) with a search in the new ones for each
key, then the search for the key to be inserted starts again. `step` tells
which of the two tests of `InsertIntoBucketImpl` have been passed. `Dictionary`
is a function with three ways to change; the refinement maps its domain to the
keys in the buckets, old ones that have not been moved included.

**`PassManager`.** `frames` are the activations of the recursive `schedulePass`.
`available` has the entries of all managers' maps, `lastUser` and `lastUses` are
`LastUser` and its inverse. `AssignFunctionPass` and `AssignModulePass` contain
all that `PMDataManager::add` does, `RunFunctionPass` and `RunModulePass` all
that is done before and after a pass: connecting implementations, running,
removing what is not preserved, recording, freeing. `result[p]` is history that
says for which function a result was computed and whether a pass in between has
made it out of date. The code's `setLastUser` recurs along what is required
transitively. As it only ever passes on the pass it was called for, or that
pass's manager, what it comes to can be said at once: the passes that are used
are the smallest set that is closed under transitive requirements (`RelyOn`),
and each of them, as well as whatever one of them was the last to use, gets the
new user (`NewLastUser`). The recursion's assertion that a transitive
requirement is found is `Dangles`, which like a requirement that cannot be
connected makes the manager `unable` to go on. `Transforms` are the identities
that may be required but are no analyses, so that `schedulePass` adds them anew
each time.

**`AssemblerLayout`.** A program is a sequence of fragments with their sections.
Instructions that may be relaxed are "branch"es, the four kinds of contents that
depend on a difference (ULEB128 and SLEB128, line table and call frame
advances) are "delta"s with a code, and `Width` gives the size of each value.
`Scan` is a turn of the loop in `layoutSectionOnce`; before it, `LayoutFragment`
runs for the fragments whose offsets the turn asks for and that are not up to
date (`Asked`, `Wanted`), one for each turn of the loop in `EnsureValid`. So
offsets are as lazy as in the code, and computed with sizes that may change
later in the same scan. `RepeatSection` is `Invalidate`, `EndPass` the end of
`layoutOnce`.

## 3. Runs, bounds and results

Distinct states are given to the nearest thousand. All runs take minutes at most.

| run | instance | states | shows |
|---|---|---|---|
| `managed_static` | 2 threads, 3 statics, 2 shutdowns | 48,000 | one object each, destroyed after its users, shutdown ends and leaks nothing, accessors return |
| `lock_file` | 2 processes, 3 inodes, 2 sleeps, failures, 1 death | 120,000 | what the lock file does guarantee; waiting ends; a stale lock is removed |
| `lock_one_owner` | 3 processes, no failures, no deaths | violated | two owners (section 6) |
| `value_handles` | 2 values, weak, tracking and two callback handles, loops two deep | 552,000 | lists stay linked, no handle is lost or left behind, loops stay on their list, everybody is visited once |
| `global_mapping` | 3 globals, 3 addresses | 422 | the two maps are one address book |
| `jit` | 8 programs of 2 to 3 functions, 2 threads, 9 cells | 298,000 | addresses lead to complete current code; nothing compiled twice or leaked; the tables agree; every call returns |
| `jit_free` | one program, 2 freeings, freed functions may have stubs | violated | freed code is still reached (section 6) |
| `jit_memory` | slabs of 17 words, 2 slabs, sizes 2 and 5 | 581,000 | headers, tags and free list agree; free neighbours are merged; functions and sections keep their memory |
| `dense_map` | 4 colliding keys, 2 values, up to 16 buckets | 347,000 | counts are true; searches end; the table is a dictionary |
| `pass_manager` | 6 analyses, a required transformation, 6 usages, 3 passes added, 2 runs, 2 functions | 323,000 | what a pass requires is ready and what that relies on is alive; results are released; no analysis is scheduled twice in vain |
| `pass_stale` | the same, other property | violated | an outdated module analysis is used (section 6) |
| `assembler_layout` | 1,920 programs of 7 fragments in 2 sections | 83,000 | cached offsets are right; what is written fits; layout ends, or a difference over padding grows and shrinks for ever |

Why these bounds are enough to be interesting:

* Managed statics: two threads are what double-checked locking is about. The
  statics are those of `lib/VMCore/PassRegistry.cpp` (the registry's destructor
  takes its lock) and a third whose constructor uses both. Two shutdowns let
  each static be constructed again after one.
* Lock files: processes construct managers again and again, so two of them
  already show a reader that removes the lock of an owner that has come and
  gone meanwhile; a third inode lets a file name be reused while old files
  still exist; one death leaves a stale lock, which the other process can meet
  at every step. The exclusion and completeness properties are also proved for
  any number of processes and hosts.
* Value handles: every kind of handle occurs, there are two callback handles so
  that one can act on the other while it is next in line, and two nested loops.
  One client operation per callback besides destroying handles (`MaxOps`)
  composes, as handles persist between turns, and lets a callback put a handle
  on the dying value and take it off again; the theorems hold for any number.
* Global mapping: three globals let one keep, one change and one lose its
  address; the theorems cover the rest.
* JIT: the program compiled eagerly has a function that calls itself and one
  of two that call each other, so that a compilation meets itself, a function
  already being compiled and one not yet known, and the work list holds a
  function whose compilation adds another; it may be retried once, freed
  once. Two functions that call each other are recompiled twice, by one thread or
  by two, with a retry or a freeing, at most two of these in one behaviour: two
  recompilations of one function make a chain of two jumps, and between the steps
  of one the other thread compiles the same function, or the other one with it.
  The lazy programs and those with far stubs are smaller, because every stub
  multiplies the states, and have an external function, once a weak one that is
  missing, and one that calls itself. No behaviour uses up the nine cells.
* JIT memory: a slab of 17 words holds a block for functions of 11, which can be
  split into two or three; a request of 18 does not fit and makes a larger slab.
  Free blocks occur in front of, behind, and on both sides of the one that is
  freed, with the head of the list at any of them. `allocateSpace` meets heads
  that are too small, and `Mem2` as the head.
* DenseMap: all four keys share paths in tables of 2 and 4 buckets, two share
  them in every table; 4 buckets instead of 64 (`MinBuckets`) let shrinking
  happen. The theorems hold for any number.
* Pass manager: analyses of the module and of a function, one that relies on one
  of the module, a chain in which each relies on the next (`Evolution`, `Loops`,
  `Dom`), and one that requires the end of that chain for itself only (`Users`),
  as `IVUsers` and `CalculateSpillWeights` do with `ScalarEvolution` and
  `LiveIntervals`; a transformation that is required and preserves two of the
  chain but not the third (`Split`, which is `BreakCriticalEdges` in
  `docs/WritingAnLLVMPass.html:1182`). One usage of a client preserves `Users` and
  `Dom` but not what `Users` requires, as passes of the code generator do. Three
  passes of the client bring in up to six others and several function pass
  managers; the second function and the second run find what the first left.
* Assembler layout: branches reach 4 bytes instead of 128, and differences take
  a second byte from 4 on, so that one relaxation is enough to cause another.
  Every order of data, alignment, origin, branch forwards and backwards, to
  another section and to an undefined symbol, and difference occurs, with the
  section that measures the other one behind or in front of it, with and without
  `-mc-relax-all`; a second family of programs measures differences across
  alignments and origins, some of which are never laid out (section 6). The two
  safety properties are proved for any program.

Some choices of properties need a word. `TablesAgree` does not compare the
reverse map once something has been recompiled, as the mapping to null that
`recompileAndRelinkFunction` enters breaks it (section 6). And in `jit` clients
free only functions without a stub (`FreeStubbed = FALSE`), as others lead to
the counterexample of `jit_free`. `DestroyedCodeIsFreed` and `OneBodyPerFunction`
do not speak of bodies once something has been recompiled: the code leaves
overwritten ones in place for those that still call them, and compiles a function
anew without a look at the map (section 6). `OneBodyPerFunction` and
`PointersReachCurrentCode` leave out far stubs, with which a call compiles a
function anew and relinks nothing (section 6). `PointersReachCurrentCode` speaks
of bodies that have been overwritten; that a body which has not is the newest one
is not so if another thread compiles the function while it is recompiled
(section 6).

`ClientsHaveTheirMemory` does not say that a space lies in its block, and
`FreeListIsExact` speaks of the time before `Mem2` is handed out: both fail in
the state with which a behaviour of `JITMemoryManager` ends. `LayoutEnds` has the
differences that measure padding as its exception, and nothing else; that they
need one is section 6.

`RequiredAreReady` and `AliveWhenUsed` have two exceptions between them, for
analyses that are scheduled again while an older result of theirs is still to be
used (`Outlived`, `Renewed`), and `RequiredAreReady` one more, which `pass_stale`
is about. Section 6 describes all three; none of them is ruled out in the
instance.

Type invariants: those of `ManagedStatic`, `LockFileManager`, `ValueHandles`,
`GlobalMapping`, `DenseMap`, `AssemblerLayout` and `PassManager` are proved, and
those of `JITMemoryManager` and `JIT` as part of `HeadersAgree` and
`TablesAgree`. That of `PassManager` is checked as part of `RequiredAreReady`.

`CHECK_DEADLOCK FALSE` is said where the system may really stop: when the memory
is used up by clients that keep what they have, when a pass cannot be scheduled
(or the client has added and run all it wanted to), and when a file is written.

## 4. Fairness and assumptions

*Managed statics.* Weak fairness of each thread's running call, and of the
shutdown. A thread that waits for the lock is enabled whenever the lock is
free; since only constructions take the lock and there are finitely many
between shutdowns, weak fairness is enough and no fair mutex is assumed.

*Lock files.* Weak fairness of a process's own steps (a running process is
scheduled), none of its client: it may keep the lock for ever, and waiters must
come back all the same, which is what `WaitEnds` says. Sleeping is fair because
time passes. Dying removes the obligation.

*JIT.* Weak fairness of each thread inside the JIT. `Retry` is not fair and is
bounded in `program`: the code doubles the size it asks for each time, so
that a function that fits in memory at all is retried finitely often. Waiting
for the lock is again bounded, as there are finitely many functions.

*DenseMap.* Weak fairness of the steps of a call that is in progress: it is a
loop of one thread. That it ends is not a matter of fairness but of the probe
sequence and of the empty buckets.

*Pass manager.* Weak fairness of the client's thread while it schedules or runs.
For the steps that assign or run a pass the condition is written out as a
formula that says when they are enabled.

*Assembler layout.* Weak fairness of the next step: a sequential program goes on.

The remaining modules have no liveness property, as nothing in them waits or
repeats.

Assumptions about the environment, each stated in a guard or a comment where it
is used:

* `llvm_start_multithreaded` and `llvm_shutdown` are called in isolation, and
  only one thread uses LLVM before the former (`docs/ProgrammersManual.html`).
* Removing a lock file succeeds; every other file system call may fail.
* In the run, the relation of statics that use each other's objects in
  constructors has no cycle (such a program recurses for ever in its
  constructors). The theorems do not assume it, except for `UsedOutliveUsers`,
  which assumes that the uses of constructors and destructors are layered
  (section 5).
* Callbacks follow the rules that `ValueIsDeleted` and `ValueIsRAUWd` assert.
* One thread at a time calls a given lazy stub (`ExecutionEngine.h`, the
  comment on `DisableLazyCompilation`). Patching without the lock is safe only
  under this rule, and what a torn write would execute is below the model.
* A function is recompiled by one thread at a time, the one that has modified it;
  other threads compile anything meanwhile, that function included, and may
  recompile others.
* Freeing is done by a client while no other thread is in the JIT; code that is
  freed is not reachable from other code. A function is deleted when no function
  that is left calls it and no thread is in a call about it ("Be sure no threads
  are running inside F when that happens").
* In the run `global_mapping`, and in the theorems about it, clients map no global
  to null and no two globals to one address (`NullMappings` and `SharedAddresses`
  are `FALSE`). Both are choices about clients which no code enforces; section 6
  says what the others see.
* Clients of the memory manager emit one function at a time, as the code's
  comment demands.
* Keys of a `DenseMap` are neither the empty key nor the tombstone, and no call
  is made while another one is in progress.
* What is required transitively is also required, as `addRequiredTransitive` sees
  to; module passes require no function analysis, which would be run on the fly;
  no pass of the client has the identity of an analysis or a manager
  (`UsageAssumption`). Nothing is assumed of what passes preserve. The instance
  has no function pass that requires both a transformation of functions which
  spoils a module analysis and, behind it, that module analysis: scheduling it
  does not end (section 6).

## 5. What is proved

All theorems hold for every value of the constants that satisfies the named
assumptions in the modules. Those say that null, tombstones and the like are
different from proper values, that constants have their types (a program calls
functions it has, a slab has room for the blocks it begins with), and of the
usages of passes what section 4 says of `UsageAssumption`; what else a theorem
assumes is said with it.

**Managed statics** (`ManagedStaticProofs`). `OneObject`, `LiveObjectReturned`,
`NothingLeaks` and `TypeCorrect`, for any number of threads and statics and any
use of statics by constructors and destructors. The invariant ties the stacks of
frames to the recursive lock (`Locking`): its depth is the number of frames of
its owner that are between taking and releasing it. So whoever constructs holds
the lock or is the only thread (`Exclusive`, `OneConstructs`). `Pointers` says
that `Ptr` is null while its static is constructed, and set for everything its
constructor is done with; therefore a static whose constructor, directly or
through others, uses that static is never published (`NoCircle`), which is why
the theorems need not forbid such programs. `Objects` and `Listed` tie the live
objects to the pointers, and the pointers to the list that a shutdown empties.

`UsedOutliveUsers` says that while an object is there, so is everything its
constructor used. It assumes `Layered`: statics have ranks, a constructor uses
statics of lower rank, and a destructor none of higher rank than its own.
Otherwise it is false: let the destructor of A use B, whose constructor uses A;
B is constructed again with an A that is gone the moment the destructor returns
(TLC finds this when `DtorUses` of `Lock` in `MCManagedStatic` is given
`Context`). The invariant adds that a static is in one place only, the list, a
frame about to put it there or a frame that destroys it (`Distinct`); that what a
constructor used is further down the list (`Ordered`); and that calls inside a
destructor are for statics no higher than it (`Falling`), so that what they put
before the rest of the list cannot use what is being destroyed.

**Lock files** (`LockFileManagerProofs`). `ExclusiveLock`: of the processes that
believe they own the lock, at most one has not been robbed of it; so every
violation of exclusion begins with a removal of somebody else's lock file.
`CompleteLockFile`: a lock file names its owner. The invariant `IInv` has three
parts: unique files are unique and exist while they are worked with; a file
that may be linked holds its writer's pid; an owner that has not been robbed is
the one the lock name links to. The last is inductive only with the other two:
without `UniqueFiles` a process could remove a file that another one's lock
links to, and without `WrittenBeforeLink` nothing ties the contents to the name.
Steps are grouped into lemmas by what they change (nothing on disk, the lock
name, the unique file), one lemma per group. `TypeCorrect` adds that a process
sleeps less than `MaxRounds` times while it waits.

**Value handles** (`ValueHandlesProofs`). `WellLinkedLists`, `LoopsAreSafe` and
`TypeCorrect`. Local consistency of links (`WellLinked`) is not inductive: it
allows circular lists beside the proper one, from which removing a handle could
empty the wrong bucket. The strengthening `Good` asks for integers that increase
along each list and start at its head, so that lists are linear and complete.
Each list operation has a lemma that builds the new numbers from the old
(doubling them makes room for one in between). On top of that, `LoopsHold` ties
each loop on the stack to its local handle: inner loops have their own handles,
outer ones are inside a callback, and no client touches a local handle.

`NothingLeftBehind` and `AllVisitedOnce` say what a loop has done when it ends;
they need to know what is behind its iterator. `Past` says that there is a set
of handles, closed under the links up to the iterator (`Split`), that holds none
of a kind that the loop takes off the list, and of those that stayed only
visited ones. Whatever happens to another handle, in a callback or in a loop
inside it, moves no third handle past the iterator: each list operation has a
lemma that says so (`Spares`). `Apart` says which values the loops on the stack
may have: none is being deleted that another loop works on, and no loop moves
handles onto a value that a loop outside it is emptying. `NothingLost` says that
walking from the bucket finds every handle of the value; the walk takes as many
steps as there are handles, and that they are enough follows by counting from
the increasing numbers of `Good`, as each step leads to a larger one. What the
callback in progress has itself put on the list (`New`) is excepted everywhere,
until `LeavesNoNewHandle` says at its return that it is gone. TLC has checked
these parts of the invariant on the instance of `value_handles` too.

**Global mappings** (`ExecutionEngineProofs`, about `MapsSpec`). `MapsTyped`,
`MapsAgree` (a reverse map in use is the inverse of the forward map, and
destroyed globals are in neither: `ReverseIsInverse` and `DestroyedAreUnmapped`)
and `MappingRefinesBook` (the two maps implement `AddressBook`), all assuming
`NullMappings = FALSE` and `SharedAddresses = FALSE`; section 6 says why both
are needed. The invariant adds that no two globals share an address, without
which the computed reverse map would not be determined, and that destroyed
globals have no entry.

**JIT** (`ExecutionEngineProofs`). `EngineTablesAgree`, `CompiledOnce`,
`DeletedIsFreed`, `CompleteWhenReturned` and `RelinkedToNewest`, for any
program, any number of threads and any finite memory. All assume that clients
ask for stubs only if the JIT compiles lazily (`StubsAreLazy`; section 6 says
what happens otherwise) and that no two functions have one external address
(`ExternalsDiffer`, without which the reverse map cannot be an inverse).

The first three follow from `AInv`: the stack of calls and the lock belong
together (`Threading`); what is compiled, and the work list, are functions that
exist and have a stub (`Session`); the tables of the emitter and the resolver
say what the memory says (`Tables`); a function is mapped to its newest code, or
to its stub while it waits, or to nothing while it is about to be recompiled
(`Mapped`), and to it alone (`InverseMaps`); as long as nothing is recompiled, a
body is the one the emitter has recorded, and what waits has none (`Single`).
The last is the reason why a function is compiled once: every way into the
compiler finds either the mapping or the entry of the list.

The other two also assume `FreeStubbed = FALSE`, as the counterexample of
`jit_free` refutes them otherwise. That code can be run is a fact about
everything it leads to, while a work list is emptied in which stubs have no
target yet. `BInv` therefore says that there are two sets of functions with
addresses (`Complete`), each closed under calls and jumps: one of all that
clients may run, in which nothing is unfinished, and a larger one that may
contain the stubs of what waits. When the list is empty the larger one takes the
place of the smaller: only then does the thread release the lock and return.
Two more parts are needed: nothing waits twice, and stubs that wait have no jump
(`Once`); and jumps do not run in circles (`Ranked`), or following them from a
returned address would not arrive at the newest body. `Covered` says which code
counts as in use: what was returned, what the maps lead to, and what the calls in
progress hold (`Held`: the callback of a stub its function's code, a recompilation
the old code and then the new), as the lock is free between their steps.

`RelinkedToNewest` adds `Relinked`: once the old code has been overwritten, or the
recompilation is about to do so, the function is `Settled`, that is, its newest
code is mapped and nobody is compiling it or going to; for as long as it stays
mapped no thread gets past the first look. An overwritten body jumps to another
one or to the newest, and what a recompilation will make jump is the code that
was newest before it.

**JIT memory manager** (`JITMemoryManagerProofs`). `HeadersAlwaysAgree`,
`NeighboursAlwaysMerged`, `FreeListAlwaysExact` and
`ClientsAlwaysHaveTheirMemory`, for slabs and requests of any size, any
alignment and any number of slabs, with no further assumption: up to and
including the first call of `allocateSpace` that gives less than it was asked
for or takes `Mem2`. What a heap must be like until then is `Good`, a
conjunction: its headers are well typed (`HasHeaders`, `Numbers`), it is divided
without gap or overlap (`Divided`), the tags are right, and behind each header
that says "the block before is free" there is such a block (`Tags`), free blocks
have no free neighbours (`Merged`), all but the guards are as large as the
smallest block (`Sized`, without which what is left over by a trim could not
hold a free block), the tiny block stands between its guards (`Guarded`), slabs
begin and end where they should (`Slabs`), and the ring has every free block
once (`Lists`). `FreeBlock` is proved in the parts the code does one after the
other: joining the block behind, then marking the block free or growing the one
before, then turning the ring; each keeps `Good`, because the block in question
counts as allocated until it is marked or has disappeared. For each operation a
lemma about headers (`...Fields`) is the only one that looks at the functions
themselves; all others argue from fields. `Owned` ties the blocks in use to
those who hold them; `Same` says that an operation leaves all blocks in use but
one alone. `Emitting` is what a trim in `endFunctionBody` relies on: the block
behind the current one stays allocated. What is left of all this when that one
call has been made is `Remains`, and the invariant is `JInv`: all of it, or
`Remains` in a state with no next step.

**DenseMap** (`DenseMapProofs`). `TrueCounts`, `EmptyBucketLeft`, `TrueAnswers`,
`TypeCorrect` and `DenseMapIsDictionary`, for any keys and any hash function.
The invariant: the load stays below the number of buckets, with the margin that
the two tests of `InsertIntoBucketImpl` leave (`Load`); what is in the old
buckets and not moved yet is not in the new ones (`Tables`); every bucket on the
path of a running search has another key or a tombstone in it, and a key is not
beyond the first empty bucket of its own path (`Searches`). The last is what an
erasure would break without tombstones. `MinBuckets > 2` is assumed, as with
fewer the tests leave no empty bucket. `SearchesEnd` bounds the loop of
`LookupBucketFor`: when sizes are powers of two (`SizesArePowersOfTwo`, of which
TLC makes sure on the instance) a search makes no more turns than there are
buckets (`SearchesAreShort`). The difference of two triangular numbers is half
the product of an odd and an even number, and an odd factor of a multiple of a
power of two can be left out (`OddFactor`, by the least number that makes the
rest a multiple); so the first turns come to different buckets
(`PathIsInjective`), hence to all of them (`PathVisitsAll`), and by
`EmptyBucketLeft` to an empty one. This is the part of `CallsReturn` that needs
no fairness; TLC has found `SearchesAreShort` true on the instance of
`dense_map` too.

**Assembler layout** (`AssemblerLayoutProofs`). `CurrentOffsets`, `WrittenFits`
and `TypeCorrect`, for every program, whatever branches can reach and however
differences are encoded. The invariant says where a scan is (`ScanPosition`),
that what an undisturbed pass has scanned fits with offsets that are up to date
(`ScannedFits`), hence everything at its end (`FinishedFits`). That the first
changed fragment of a scan is enough to remember is `OffsetsAreCurrent` with its
exception for the fragments behind it; it is inductive because lazily computed
offsets are never computed twice (`LaidOutStays`), and `ScannedFits` because
what a fragment needs depends on offsets that were asked for, and nothing else
(`FitStays`).

**Pass managers** (`PassManagerProofs`). Five theorems for any analyses, any
usages, and any number of passes, runs and functions.

`PassManagerTyped` is the type invariant. It needs `Nesting`: a function pass
manager is followed by its passes without a gap, and only the last one takes
more; and `Entries`: a map has one entry of an analysis, which names a pass of
its own manager. `NothingIsScheduledTwice` follows from what the maps remember
(`Remembered`): an analysis that was scheduled is found, or a pass since does
not preserve it.

`EveryResultIsReleased`: a last user comes after the pass it uses, in the same
manager (`Users`, where a function pass manager stands for its passes); in a run
`lastUses` has all of them, older ones perhaps besides (`Uses`); so a result is
held from the turn of its pass to that of its last user, and no longer
(`Awaited`, `Held`). The part about the maps, `Here`, is what makes `Users`
inductive: only passes of managers that still take passes get new users.

`RequiredResultsAreReady` is in two halves. The plan (`Mapped`, `Planned`): for
every pass and every analysis it requires there is one pass that it will use
(`Source`), it comes before, no pass between the two spoils it, and its last
user is late enough. The run (`Lives`): what has a user to come is held, for the
function at hand, and as long as no pass that has run since spoils it, it is up
to date; it is in its map besides, unless its analysis has been outlived, as
`freePass` erases an entry whichever pass made it. Both halves meet in
`Connected`: implementations that are kept from an earlier function or run are
still passes that the plan may have meant.

`ReliedOnIsAlive`: for every pass there is a set of passes, each kept until it
has run, with all that it requires and all that members of the set require
transitively (`ReliedOn`, `Backed`), so the closure under any number of steps is
in it. It is inductive because `setLastUser` gives a new user to that whole
closure, and hands on what any of it was the last to use.

Neither theorem has a hypothesis about what passes preserve or require: the
properties themselves except the analyses that the code cannot keep track of
(`Outlived`, `Renewed`), and say everything of the others, whatever else is in
the program. TLC has checked all parts of the invariants on the instance of
`pass_manager` before they were proved.

Where an argument goes by induction (along a list, along a chain of jumps), the
proofs take a smallest counterexample: `WFMin` of the library finds one in a set
of naturals. The library's induction theorems have an operator as a parameter,
which the provers cannot instantiate.

Checked but not proved:

* Liveness (`ShutdownTerminates`, `WaitEnds`, `StaleLockIsRemoved`, `LayoutEnds`,
  and `CallsReturn` of `ManagedStatic`, `JIT`, `DenseMap` and `PassManager`),
  which is outside the prover.

Every safety property that a passing run checks is the conclusion of a theorem.

## 6. Disagreements between code and documentation

Three runs end in a counterexample to what a comment or header says.

* `lock_one_owner`: `readLockFile` removes a lock file by name if it cannot read
  a living owner from it; by then the name may belong to a new owner. Two
  processes then own the lock, while `LockFileManager.h:24-26` relies on the
  file system to prevent just that. It needs no crash and no failure: in the
  trace the owner releases between the test for existence and the read, and a
  third process locks before the removal. (In `lock_file`, where calls may fail,
  a file that cannot be opened or read is removed although its owner lives; the
  owner counts as robbed.) The constructor's last clean-up
  (`LockFileManager.cpp:139-141`) removes a file "that nobody owns" in the same
  way, although an owner may have appeared since.
* `jit_free`: `freeMachineCodeForFunction` frees the body but keeps the stub,
  which later callers are given, so that the function is not "retranslated next
  time it is used" (`JITEmitter.cpp:1285`).
* `pass_stale`: a module analysis that a function pass does not preserve is gone
  from the maps when the next function is worked on; `initializeAnalysisImpl`
  then leaves the old implementation connected to a pass that requires it
  (`PassManager.cpp:1083`), although "All Required analyses should be available
  to the pass as it runs!" (`:1072`).

Others were met on the way and have no run of their own.

* Layout may go on for ever. A ULEB128 of a difference across an alignment may
  grow by the byte by which the padding then shrinks, so that it shrinks again:
  "Layout until everything fits" (`MCAssembler.cpp:591`) never does. Some of the
  programs `Padded` of `assembler_layout` do this; without its exception
  `LayoutEnds` is violated by them.
* `allocateSpace` takes the head of the free list without a look at its size
  (`JITMemoryManager.cpp:435`), although it is to "Allocate a memory block of
  the given size" (`:432`): a client may be given memory that reaches into the
  blocks behind. The head may be the tiny block, one of those that are "never
  deallocated or touched" (`:623`); when it has been handed out and is the last
  free one, the list is a client's memory.
* `addGlobalMapping(F, 0)` leaves the old reverse entry, so the mapping of a
  destroyed function is not removed altogether (`ExecutionEngine.h:282-284`).
  With `NullMappings = TRUE` in `MCGlobalMapping.cfg` TLC finds `ReverseIsInverse`
  violated. It also enters the function under address null in a reverse map in
  use, so that recompiling two functions trips "GlobalMapping already
  established!" (`ExecutionEngine.cpp:173`). `JIT` follows the build without
  assertions there; `GlobalMapping`'s `MayEnter` is the assertion.
* While the reverse map is not in use, nothing stops two globals from being given
  one address; when it is computed it has one of them, and when that is removed
  `getGlobalValueAtAddress` finds nothing at an address that still has a global.
  With `SharedAddresses = TRUE` TLC finds `ImplementsAddressBook` violated.
* Recompiling does not look whether another thread has compiled the function
  since its mapping was deleted (`JIT.cpp:787-790`). If one has, the function is
  compiled twice, the first of the two bodies is recorded nowhere, and what that
  thread was given stays as it is when the old body is made to jump. It is
  complete code of the modified function, but a later recompilation does not
  overwrite it. If two threads recompile one function, one of them may find null
  at `:793`.
* With lazy compilation off, `getPointerToFunctionOrStub` of a function not yet
  compiled returns a stub that jumps to null until somebody compiles something
  (`JITEmitter.cpp:1253-1255`); a program with `orStubs` that is not `lazily`
  compiled.
* Where a target asks for far stubs, a call to a function that has been compiled
  queues it again; the second compilation overwrites the record of the first
  body, which is never freed (`ExecutionEngine.h:312-313`).
* When `freePass` releases a pass it erases the map entry of its analysis, even
  if that is by now the entry of a newer pass (`PassManager.cpp:953`). A pass that
  preserves an analysis but not what it requires makes this happen (the
  repository has such passes: `TwoAddressInstructionPass.cpp:150-159`,
  `CodeGenPrepare.cpp:109-113`): the required one is computed a second time while
  the first is still used, then erased with it, and a pass that requires it is run
  without it (`PassManager.cpp:1072`). This is the exception `Outlived` of
  `RequiredAreReady`.
* In the same way an analysis that is preserved, while what it requires
  transitively is not, goes on with a result that is released (or was never told
  of its new user), because `setLastUser` finds the newer one in the maps. This
  is the exception `Renewed` of `AliveWhenUsed`.
* `setLastUser` hands a new user on to what was last used by the analysis, but not
  to what that relies on in turn (`PassManager.cpp:537-545`). An analysis that is
  required without "transitive" may so be held longer than one it transitively
  requires, although "the transitively required pass should be alive as long as
  the requiring pass is" (`docs/WritingAnLLVMPass.html:1193`). `IVUsers` and
  `CalculateSpillWeights` require others in this way. It does no harm: what is
  held then is used by nobody any more. So `AliveWhenUsed` does not take the
  sentence by its letter; it asks that what is in use is alive, with all that it
  requires transitively.
* The loop of `schedulePass` over required analyses (`PassManager.cpp:602`) does
  not end for a pass that requires a transformation of functions which spoils a
  module analysis and, behind it in the list, that analysis: scheduling the
  analysis pops the manager of the transformation, whose entry is gone, and
  scheduling that again spoils the analysis. Such a usage is kept out of the
  instance: with it the model, like the code, makes passes without end.
* A pass that requires two analyses of its level, one of which requires a module
  analysis, may end with "Unable to schedule pass": the second look
  (`PassManager.cpp:602-652`) is only taken if the pass itself requires one of
  another level.
* `DenseMap` doubles its buckets when tombstones fill them although a table of
  the same size would do (`DenseMap.h:423`), and `operator=` of a map to itself
  copies buckets it has just freed (`DenseMap.h:564-588`).

## 7. What is not modelled

Inside the modelled components:

* JIT: the emission of global variables, the global offset table, exception
  tables, block addresses, indirect symbols, materialization of functions from
  bitcode and several modules per engine; torn writes of stubs.
* JIT memory manager: the bump allocators of stubs and data, page permissions,
  poisoning, the memory of the GOT.
* Value handles: names and use lists in `Value.cpp`.
* Execution engine: everything but the mappings.
* `DenseMap`: copies, iterators, `SmallDenseMap`; the wrap-around of a size of 0
  (`AtLeast - 1`), which the code's `max` with 64 makes harmless.
* Pass managers: `FunctionPassManager` of clients, managers of loops, regions,
  basic blocks and call graphs, passes run on the fly, immutable passes,
  analysis groups, timing and printing, the registry.
* Assembler layout: the application of fixups, atoms, variable symbols, nops
  that have a smallest size, the writers. Origins are constants: one given by a
  difference of symbols of another section would keep its old size when that
  section changes, since `Invalidate` is told of one section only.

The other components of section 1: most are functions from programs to programs
(analyses, transformations, instruction selection, readers and writers,
targets, TableGen), where the state is the data and the control is a loop over
it; a model would be the program again. Some are drivers or I/O (tools,
bindings, streams). Those with control state of their own that fits a model are
in the plan.

## 8. Plan

Order of work so far: the abstract and shared parts first, then what uses them.
`ManagedStatic` (everything rests on it), `LockFileManager` (the only protocol
between processes), `ValueHandleLists` and `ValueHandles` (the callbacks that
all maps keyed by values need), `GlobalMaps` and `GlobalMapping` with
`AddressBook`, `JIT` as their client, `JITMemoryManager` and `DenseMap` below
it, `PassManager`, `AssemblerLayout`.

Next modules, most important first:

1. `CrashRecovery` and `Signals`: handlers interrupting updates of the lists of
   files and callbacks, cleanups and nested contexts.
2. `RegAllocGreedy`: stages and cascades, termination.
3. The COFFEE delay slot filler and branch selector.
4. `RuntimeDyld` (relocations waiting for symbols), `LinkModules` (deferred
   bodies), use lists.
5. The loop and call graph pass managers, whose passes change the very list of
   loops or components being worked on.

Next theorems: what the modules above promise. For those there are, bounds on
the number of steps of a call or a run (liveness stays with TLC, but that a
measure falls with each step can be proved).
