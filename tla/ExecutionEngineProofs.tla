------------------------- MODULE ExecutionEngineProofs -------------------------
(* Proofs about the execution engine. The JIT, for any program, any number of *)
(* threads and any (finite) memory: its tables agree, a function has one      *)
(* body, and returned code is complete. Then its global mappings, used by any *)
(* clients: the reverse map is the inverse, whenever it is computed.          *)
EXTENDS JIT, GlobalMapping, TLAPS, FiniteSetTheorems, WellFoundedInduction

(* What the theorems ask of the programs: clients ask for a stub only while  *)
(* the JIT compiles lazily, and no two functions have one external address.  *)
StubsAreLazy == \A p \in Programs : p.orStubs => p.lazily
ExternalsDiffer ==
  \A p \in Programs : \A f, g \in DOMAIN p.externalAddr :
    p.externalAddr[f] = p.externalAddr[g] /\ p.externalAddr[f] # Null => f = g

(* The function whose compilation has begun or begins again, and the work    *)
(* list as a set.                                                            *)
Starting == lock # NoThread /\ th[lock].pc = "start"
Queue == {pending[i] : i \in 1..Len(pending)}
NoCode(a) == mem[a].kind \in {"unused", "freed"}

(* The types of the variables, TypeOK's and those of the calls and jobs.     *)
Stages == {"idle", "check", "lock", "start", "emit", "patch", "orstub",
           "unmap", "recompile", "find", "relink"}
CallType == [pc : Stages, op : {"none", "get", "stub", "recompile"},
             f : Globals \cup {None}, at : Locations \cup (Locations \X Locations)]
JobType == [f : Globals \cup {None}, queued : BOOLEAN, todo : SUBSET Globals,
            calls : SUBSET (Globals \X Locations)]
MemType == [Memory -> [kind : Kinds, fn : Globals \cup {None},
                       calls : SUBSET (Globals \X Locations), done : BOOLEAN,
                       jump : Locations \cup {Resolver}]]
MapsType == [fwd : [Globals -> Locations \cup {Absent}],
             rev : [Locations -> Globals \cup {None}]]
Types ==
  /\ program \in Programs /\ maps \in MapsType
  /\ alive \subseteq DOMAIN Calls /\ callSites \subseteq Memory
  /\ mem \in MemType
  /\ emitted \in [Globals -> Memory \cup {Null}]
  /\ stubOf \in [Globals -> Memory \cup {Null}]
  /\ pending \in Seq(Globals) /\ lock \in Threads \cup {NoThread}
  /\ job \in JobType /\ th \in [Threads -> CallType]
  /\ given \subseteq Globals \X Locations
  /\ used \in [retries : Nat, recompiles : Nat, frees : Nat]

(* Code that a call keeps the address of: a body of its function, which is   *)
(* not the one that is being emitted.                                        *)
Holding(f, a) ==
  /\ a \in Memory /\ mem[a].kind = "body" /\ mem[a].fn = f
  /\ lock # NoThread /\ ~Starting => emitted[job.f] # a
Held(t) ==
  CASE th[t].pc = "patch" -> {th[t].at[2]}
    [] th[t].op = "recompile" /\ th[t].pc # "relink" -> {th[t].at}
    [] th[t].op = "recompile" /\ th[t].pc = "relink" -> {th[t].at[1], th[t].at[2]}
    [] OTHER -> {}

(* The call a thread is in is one of a function that exists. The callback of *)
(* a stub holds the stub, and then the code found too; recompiling holds the *)
(* old code, which is never the newest once the new has been begun, and then *)
(* the new code, which nobody else makes jump.                               *)
GetCall(t) ==
  /\ th[t].op = "get" /\ th[t].at = Null
  /\ \/ th[t].pc \in {"check", "lock", "start", "emit"}
     \/ th[t].pc = "orstub" /\ Lazily
StubCall(t) ==
  /\ th[t].op = "stub" /\ Lazily /\ th[t].f \notin External
  /\ stubOf[th[t].f] # Null
  /\ \/ /\ th[t].pc \in {"check", "lock", "start", "emit"}
        /\ th[t].at = stubOf[th[t].f]
     \/ /\ th[t].pc = "patch"
        /\ th[t].at = <<stubOf[th[t].f], th[t].at[2]>>
RecompileCall(t) ==
  /\ th[t].op = "recompile" /\ th[t].f \notin External
  /\ used.recompiles # 0
  /\ \/ th[t].pc \in {"unmap", "recompile"}
     \/ /\ th[t].pc \in {"start", "emit"}
        /\ emitted[th[t].f] = th[t].at =>
             th[t].pc = "start" /\ job.f = th[t].f /\ ~job.queued
     \/ /\ th[t].pc = "find" /\ emitted[th[t].f] # th[t].at
        /\ Lookup(maps, th[t].f) # Null
     \/ /\ th[t].pc = "relink" /\ th[t].at = <<th[t].at[1], th[t].at[2]>>
        /\ emitted[th[t].f] # th[t].at[1] /\ th[t].at[1] # th[t].at[2]
        /\ mem[th[t].at[2]].jump = Null
InCall(t) ==
  /\ th[t].f \in alive
  /\ GetCall(t) \/ StubCall(t) \/ RecompileCall(t)
  /\ \A a \in Held(t) : Holding(th[t].f, a)
Threading ==
  /\ \A t \in Threads : Holds(t) <=> lock = t
  /\ \A t \in Threads : th[t] = Idle \/ InCall(t)
  /\ \A t, u \in Threads : /\ th[t].op = "recompile" /\ th[u].op = "recompile"
                           /\ th[t].f = th[u].f
                           => t = u

(* What a thread that holds the lock is compiling, and has to compile.       *)
Session ==
  IF lock = NoThread THEN pending = <<>> /\ job = NoJob
  ELSE /\ job.f \in alive \ External
       /\ th[lock].f \notin External
       /\ ~job.queued => job.f = th[lock].f
       /\ Lazily => pending = <<>> /\ ~job.queued
       /\ job.queued => stubOf[job.f] # Null
       /\ Starting \/ (emitted[job.f] # Null /\ Lookup(maps, job.f) # Null)
       /\ \/ emitted[th[lock].f] # Null /\ Lookup(maps, th[lock].f) # Null
          \/ Starting /\ job.f = th[lock].f
       /\ Queue \subseteq alive \ External
       /\ \A f \in Queue : stubOf[f] # Null
       /\ ~Starting =>
            /\ job.todo \cup {c[1] : c \in job.calls} = Calls[job.f]

(* What the tables of the emitter and the resolver say of the memory, and    *)
(* that what a function that exists calls exists.                            *)
Tables ==
  /\ \A f \in alive : Calls[f] \subseteq alive
  /\ \A a \in Memory :
       /\ NoCode(a) <=> mem[a].fn = None
       /\ mem[a].jump = Resolver => Lazily /\ mem[a].fn \notin External
  /\ \A f \in Globals : emitted[f] # Null =>
       /\ f \in alive \ External
       /\ mem[emitted[f]].kind = "body" /\ mem[emitted[f]].fn = f
       /\ mem[emitted[f]].jump = Null
  /\ \A f \in Globals : stubOf[f] # Null =>
       /\ f \in alive
       /\ mem[stubOf[f]].kind = "stub" /\ mem[stubOf[f]].fn = f
  /\ \A s \in callSites :
       /\ mem[s].kind = "stub" /\ mem[s].fn \in alive
       /\ stubOf[mem[s].fn] = s

(* Where the global mappings lead: an external function to its address or    *)
(* its stub; another to its newest code, to its stub while it is waiting to  *)
(* be compiled, where they led before it is emitted (again), or to null when *)
(* it is about to be recompiled.                                             *)
Unmapped(f) == /\ Lookup(maps, f) = Null
               /\ \E t \in Threads : th[t].pc = "recompile" /\ th[t].f = f
Mapped ==
  /\ \A f \in Globals \ alive : maps.fwd[f] = Absent
  /\ \A f \in Globals :
       LET a == Lookup(maps, f) IN
       a # Null =>
         \/ f \in External /\ a = ExternalAddr[f]
         \/ f \in External /\ a = stubOf[f]
         \/ f \notin External /\ a \in Memory /\ mem[a].fn = f
         \/ a \in Memory /\ mem[a].kind = "freed" /\ Starting /\ f = job.f
  /\ \A f \in alive \ External :
       \/ Lookup(maps, f) = emitted[f]
       \/ f \in Queue /\ Lookup(maps, f) = stubOf[f]
       \/ Starting /\ f = job.f
       \/ Unmapped(f)

(* No address has two functions, and the reverse map, in use, has them all.  *)
InverseMaps ==
  used.recompiles = 0 =>
    /\ \A f, g \in Globals :
         maps.fwd[f] \in Addrs /\ maps.fwd[f] = maps.fwd[g] => f = g
    /\ ReverseInUse(maps) =>
         \A f \in Globals, a \in Addrs : maps.fwd[f] = a <=> maps.rev[a] = f

(* Without far stubs, and while nothing has been recompiled, a body is the   *)
(* newest of its function, and nothing is compiled twice.                    *)
Single ==
  ~FarStubs /\ used.recompiles = 0 =>
    /\ \A a \in Memory : Body(a) => emitted[mem[a].fn] = a
    /\ \A i, j \in 1..Len(pending) : pending[i] = pending[j] => i = j
    /\ \A f \in Queue : emitted[f] = Null
    /\ lock # NoThread => job.f \notin Queue
    /\ Starting => emitted[job.f] = Null

AInv == /\ Types /\ Threading /\ Session /\ Tables /\ Mapped /\ InverseMaps /\ Single
-----------------------------------------------------------------------------
(* What the assumptions say of the program that has been chosen. *)
LEMMA ProgramFacts ==
  ASSUME Types
  PROVE  /\ DOMAIN Calls \subseteq Globals /\ External \subseteq DOMAIN Calls
         /\ \A f \in DOMAIN Calls : Calls[f] \subseteq DOMAIN Calls
         /\ \A f \in External : ExternalAddr[f] \in Locations \ Memory
         /\ Memory \subseteq Addrs /\ Memory \subseteq Locations
         /\ Null \notin Addrs /\ Null \notin Memory /\ Null \in Locations
         /\ None \notin Globals /\ Absent \notin Locations
         /\ NoThread \notin Threads /\ Resolver \notin Locations
         /\ Resolver \notin Memory
         /\ alive \subseteq Globals
BY JITAssumption, GlobalMapsAssumption
   DEF Types, Calls, ExternalAddr, External, Locations

(* Looking a global up gives its address or null. *)
LEMMA LookupType ==
  ASSUME NEW M \in MapsType, NEW g \in Globals
  PROVE  /\ Lookup(M, g) \in Locations
         /\ Lookup(M, g) # Null => M.fwd[g] = Lookup(M, g)
         /\ M.fwd[g] \in Addrs => Lookup(M, g) = M.fwd[g]
BY GlobalMapsAssumption DEF MapsType, Lookup, Locations

(* No two globals have one address, and the reverse map, if in use, is the   *)
(* inverse of the map.                                                       *)
OneToOne(M) ==
  /\ \A f, g \in Globals : M.fwd[f] \in Addrs /\ M.fwd[f] = M.fwd[g] => f = g
  /\ ReverseInUse(M) =>
       \A f \in Globals, a \in Addrs : M.fwd[f] = a <=> M.rev[a] = f

(* What the operations on the global mappings do. *)
LEMMA EnterMaps ==
  ASSUME NEW M \in MapsType, NEW g \in Globals, NEW a \in Locations
  PROVE  /\ Enter(M, g, a) \in MapsType
         /\ Enter(M, g, a).fwd = [M.fwd EXCEPT ![g] = a]
         /\ Enter(M, g, a).rev =
              IF ReverseInUse(M) THEN [M.rev EXCEPT ![a] = g] ELSE M.rev
BY DEF Enter, MapsType, Locations

LEMMA EraseMaps ==
  ASSUME NEW M \in MapsType, NEW g \in Globals
  PROVE  /\ EraseReverse(M, g) \in MapsType
         /\ EraseReverse(M, g).fwd = M.fwd
         /\ EraseReverse(M, g).rev = [M.rev EXCEPT ![Lookup(M, g)] = None]
BY LookupType DEF EraseReverse, MapsType, Locations

LEMMA RemoveMaps ==
  ASSUME NEW M \in MapsType, NEW g \in Globals
  PROVE  /\ RemoveMapping(M, g) \in MapsType
         /\ RemoveMapping(M, g).fwd = [M.fwd EXCEPT ![g] = Absent]
         /\ RemoveMapping(M, g).rev = [M.rev EXCEPT ![Lookup(M, g)] = None]
<1> DEFINE E == EraseReverse(M, g)
<1>1. E \in MapsType /\ E.fwd = M.fwd
      /\ E.rev = [M.rev EXCEPT ![Lookup(M, g)] = None]
  BY EraseMaps
<1>2. RemoveMapping(M, g) = [E EXCEPT !.fwd = [E.fwd EXCEPT ![g] = Absent]]
  BY DEF RemoveMapping
<1> HIDE DEF E
<1> QED BY <1>1, <1>2 DEF MapsType

LEMMA UpdateMaps ==
  ASSUME NEW M \in MapsType, NEW g \in Globals, NEW a \in Addrs
  PROVE  /\ updateGlobalMapping(M, g, a) \in MapsType
         /\ updateGlobalMapping(M, g, a).fwd = [M.fwd EXCEPT ![g] = a]
<1> DEFINE E == IF Lookup(M, g) # Null THEN EraseReverse(M, g) ELSE M
<1>1. E \in MapsType /\ E.fwd = M.fwd BY EraseMaps
<1>2. a \in Locations /\ a # Null BY GlobalMapsAssumption DEF Locations
<1>3. updateGlobalMapping(M, g, a) = Enter(E, g, a)
  BY <1>2 DEF updateGlobalMapping, Withdrawn
<1> HIDE DEF E
<1>4. Enter(E, g, a) \in MapsType /\ Enter(E, g, a).fwd = [E.fwd EXCEPT ![g] = a]
  BY <1>1, <1>2, EnterMaps
<1> QED BY <1>1, <1>3, <1>4

LEMMA OnDeleteMaps ==
  ASSUME NEW M \in MapsType, NEW g \in Globals
  PROVE  /\ onDelete(M, g) \in MapsType
         /\ onDelete(M, g).fwd = [M.fwd EXCEPT ![g] = Absent]
<1>1. M.fwd[g] = Absent => M.fwd = [M.fwd EXCEPT ![g] = Absent]
  BY DEF MapsType
<1> QED BY <1>1, RemoveMaps DEF onDelete

LEMMA ComputeMaps ==
  ASSUME NEW M \in MapsType
  PROVE  ComputeReverse(M) \in MapsType /\ ComputeReverse(M).fwd = M.fwd
<1> DEFINE first(a) == IF \E g \in Globals : M.fwd[g] = a
                         THEN CHOOSE g \in Globals : M.fwd[g] = a ELSE None
           rev == [a \in Addrs \cup {Null} |-> first(a)]
<1>1. \A a : first(a) \in Globals \cup {None} OBVIOUS
<1>2. rev \in [Locations -> Globals \cup {None}] BY <1>1 DEF Locations
<1>3. ComputeReverse(M) = IF ReverseInUse(M) THEN M ELSE [M EXCEPT !.rev = rev]
  BY DEF ComputeReverse
<1> HIDE DEF rev
<1> QED BY <1>2, <1>3 DEF MapsType
-----------------------------------------------------------------------------
(* The operations on the global mappings keep the two maps inverse, as long  *)
(* as no address gets a second global.                                       *)
LEMMA RemoveOneToOne ==
  ASSUME NEW M \in MapsType, NEW g \in Globals, OneToOne(M)
  PROVE  OneToOne(RemoveMapping(M, g))
<1> DEFINE U == RemoveMapping(M, g)
<1>1. U \in MapsType /\ U.fwd = [M.fwd EXCEPT ![g] = Absent]
      /\ U.rev = [M.rev EXCEPT ![Lookup(M, g)] = None]
  BY RemoveMaps
<1> HIDE DEF U
<1>2. Lookup(M, g) \in Locations BY LookupType
<1>3. ReverseInUse(U) => ReverseInUse(M)
  BY <1>1, <1>2 DEF ReverseInUse, MapsType, Locations
<1>4. \A f, h \in Globals : U.fwd[f] \in Addrs /\ U.fwd[f] = U.fwd[h] => f = h
  BY <1>1, GlobalMapsAssumption DEF OneToOne, MapsType
<1>5. ASSUME ReverseInUse(M), NEW f \in Globals, NEW a \in Addrs
      PROVE  U.fwd[f] = a <=> U.rev[a] = f
  <2>1. M.fwd[f] = a <=> M.rev[a] = f BY <1>5 DEF OneToOne
  <2>2. CASE a = Lookup(M, g)
    <3>1. M.fwd[g] = a /\ U.rev[a] = None
      BY <1>1, <1>2, <2>2, GlobalMapsAssumption DEF Lookup, MapsType
    <3> QED BY <1>1, <3>1, GlobalMapsAssumption DEF OneToOne, MapsType
  <2>3. CASE a # Lookup(M, g)
    <3>1. U.rev[a] = M.rev[a] BY <1>1, <2>3 DEF MapsType, Locations
    <3>2. M.fwd[g] # a BY <2>3, LookupType
    <3> QED BY <1>1, <2>1, <3>1, <3>2, GlobalMapsAssumption DEF MapsType
  <2> QED BY <2>2, <2>3
<1> QED BY <1>3, <1>4, <1>5 DEF OneToOne, U

LEMMA EnterOneToOne ==
  ASSUME NEW M \in MapsType, NEW g \in Globals, NEW a \in Locations,
         OneToOne(M), Lookup(M, g) = Null,
         a # Null => \A h \in Globals \ {g} : M.fwd[h] # a
  PROVE  OneToOne(Enter(M, g, a))
<1> DEFINE U == Enter(M, g, a)
<1>1. /\ U.fwd = [M.fwd EXCEPT ![g] = a]
      /\ U.rev = IF ReverseInUse(M) THEN [M.rev EXCEPT ![a] = g] ELSE M.rev
  BY EnterMaps
<1> HIDE DEF U
<1>2. ReverseInUse(U) => ReverseInUse(M) BY <1>1 DEF ReverseInUse
<1>3. M.fwd[g] \notin Addrs BY LookupType, GlobalMapsAssumption
<1>4. \A f, h \in Globals : U.fwd[f] \in Addrs /\ U.fwd[f] = U.fwd[h] => f = h
  BY <1>1, GlobalMapsAssumption DEF OneToOne, MapsType, Locations
<1>5. ASSUME ReverseInUse(M), NEW f \in Globals, NEW b \in Addrs
      PROVE  U.fwd[f] = b <=> U.rev[b] = f
  <2>1. M.fwd[f] = b <=> M.rev[b] = f BY <1>5 DEF OneToOne
  <2>2. CASE b = a
    <3>1. U.rev[b] = g BY <1>1, <1>5, <2>2 DEF MapsType
    <3> QED BY <1>1, <2>2, <3>1, GlobalMapsAssumption DEF MapsType
  <2>3. CASE b # a
    <3>1. U.rev[b] = M.rev[b] BY <1>1, <1>5, <2>3 DEF MapsType, Locations
    <3> QED BY <1>1, <1>3, <2>1, <2>3, <3>1 DEF MapsType
  <2> QED BY <2>2, <2>3
<1> QED BY <1>2, <1>4, <1>5 DEF OneToOne, U

LEMMA UpdateOneToOne ==
  ASSUME NEW M \in MapsType, NEW g \in Globals, NEW a \in Locations,
         OneToOne(M), a # Null => \A h \in Globals \ {g} : M.fwd[h] # a
  PROVE  OneToOne(updateGlobalMapping(M, g, a))
<1>1. CASE a = Null BY <1>1, RemoveOneToOne DEF updateGlobalMapping
<1>2. CASE a # Null /\ Lookup(M, g) = Null
  <2>1. updateGlobalMapping(M, g, a) = Enter(M, g, a)
    BY <1>2 DEF updateGlobalMapping, Withdrawn
  <2> QED BY <1>2, <2>1, EnterOneToOne
<1>3. CASE a # Null /\ Lookup(M, g) # Null
  <2> DEFINE R == RemoveMapping(M, g)
             E == EraseReverse(M, g)
  <2>1. /\ R \in MapsType /\ R.fwd = [M.fwd EXCEPT ![g] = Absent]
        /\ R.rev = [M.rev EXCEPT ![Lookup(M, g)] = None]
    BY RemoveMaps
  <2>2. E \in MapsType /\ E.fwd = M.fwd
        /\ E.rev = [M.rev EXCEPT ![Lookup(M, g)] = None]
    BY EraseMaps
  <2>3. OneToOne(R) BY RemoveOneToOne
  <2> HIDE DEF R, E
  <2>4. Lookup(R, g) = Null BY <2>1 DEF Lookup, MapsType
  <2>5. \A h \in Globals \ {g} : R.fwd[h] # a BY <1>3, <2>1 DEF MapsType
  <2>6. OneToOne(Enter(R, g, a)) BY <2>1, <2>3, <2>4, <2>5, EnterOneToOne
  <2>7. Enter(R, g, a) = Enter(E, g, a)
    BY <2>1, <2>2 DEF Enter, ReverseInUse, MapsType
  <2>8. updateGlobalMapping(M, g, a) = Enter(E, g, a)
    BY <1>3 DEF updateGlobalMapping, Withdrawn, E
  <2> QED BY <2>6, <2>7, <2>8
<1> QED BY <1>1, <1>2, <1>3

LEMMA OnDeleteOneToOne ==
  ASSUME NEW M \in MapsType, NEW g \in Globals, OneToOne(M)
  PROVE  OneToOne(onDelete(M, g))
BY RemoveOneToOne DEF onDelete

LEMMA ComputeOneToOne ==
  ASSUME NEW M \in MapsType, OneToOne(M)
  PROVE  OneToOne(ComputeReverse(M))
<1> DEFINE first(a) == IF \E g \in Globals : M.fwd[g] = a
                         THEN CHOOSE g \in Globals : M.fwd[g] = a ELSE None
           rev == [a \in Addrs \cup {Null} |-> first(a)]
           U == [M EXCEPT !.rev = rev]
<1>1. CASE ReverseInUse(M) BY <1>1 DEF ComputeReverse
<1>2. CASE ~ReverseInUse(M)
  <2>1. \A a \in Addrs, f \in Globals : M.fwd[f] = a <=> first(a) = f
    <3> SUFFICES ASSUME NEW a \in Addrs, NEW f \in Globals
                 PROVE  M.fwd[f] = a <=> first(a) = f
      OBVIOUS
    <3>1. (\E g \in Globals : M.fwd[g] = a) =>
            first(a) \in Globals /\ M.fwd[first(a)] = a
      OBVIOUS
    <3>2. ~(\E g \in Globals : M.fwd[g] = a) => first(a) = None OBVIOUS
    <3> HIDE DEF first
    <3> QED BY <3>1, <3>2, GlobalMapsAssumption DEF OneToOne
  <2>2. ComputeReverse(M) = U BY <1>2 DEF ComputeReverse
  <2>3. \A a \in Addrs : rev[a] = first(a) OBVIOUS
  <2> HIDE DEF first, rev
  <2>4. U.fwd = M.fwd /\ U.rev = rev BY DEF MapsType
  <2> HIDE DEF U
  <2> QED BY <2>1, <2>2, <2>3, <2>4 DEF OneToOne
<1> QED BY <1>1, <1>2
-----------------------------------------------------------------------------
(* Operators that a step that keeps their arguments does not change. *)
LEMMA ProgramSame ==
  ASSUME UNCHANGED program
  PROVE  /\ Calls' = Calls /\ External' = External /\ Lazily' = Lazily
         /\ FarStubs' = FarStubs /\ ExternalAddr' = ExternalAddr
BY DEF Calls, External, ExternalAddr, Lazily, FarStubs

(* How calls proceed. *)
LEMMA IdleFields ==
  /\ Idle \in CallType
  /\ Idle.pc = "idle" /\ Idle.op = "none" /\ Idle.f = None /\ Idle.at = Null
BY DEF Idle, CallType, Stages, Locations

(* Goto(t, pc) changes nothing but where t is. *)
LEMMA GotoStep ==
  ASSUME Types, NEW t \in Threads, NEW pc \in {"lock", "start", "emit", "recompile", "find"},
         Goto(t, pc)
  PROVE  /\ th' \in [Threads -> CallType]
         /\ \A u \in Threads \ {t} : th'[u] = th[u]
         /\ th'[t].pc = pc /\ th'[t].op = th[t].op
         /\ th'[t].f = th[t].f /\ th'[t].at = th[t].at
<1> DEFINE d == [th[t] EXCEPT !.pc = pc]
<1>1. th[t] \in CallType BY DEF Types
<1>2. d \in CallType /\ d.pc = pc /\ d.op = th[t].op /\ d.f = th[t].f
      /\ d.at = th[t].at
  BY <1>1 DEF CallType, Stages
<1>3. th' = [th EXCEPT ![t] = d] BY DEF Goto
<1> HIDE DEF d
<1> QED BY <1>2, <1>3 DEF Types

(* A call ends, or is continued by the callback of a stub. *)
LEMMA ReturnStep ==
  ASSUME Types, NEW t \in Threads, NEW a \in Locations, Return(t, a),
         th[t].f \in Globals, th[t].op = "stub" => th[t].at \in Locations
  PROVE  /\ th' \in [Threads -> CallType] /\ given' \subseteq Globals \X Locations
         /\ \A u \in Threads \ {t} : th'[u] = th[u]
         /\ th[t].op = "stub" =>
              /\ th'[t].pc = "patch" /\ th'[t].op = "stub"
              /\ th'[t].f = th[t].f /\ th'[t].at = <<th[t].at, a>>
              /\ given' = given
         /\ th[t].op # "stub" =>
              th'[t] = Idle /\ given' = given \cup {<<th[t].f, a>>}
<1> DEFINE d == [th[t] EXCEPT !.pc = "patch", !.at = <<th[t].at, a>>]
<1>1. th[t] \in CallType BY DEF Types
<1>2. CASE th[t].op = "stub"
  <2>1. d \in CallType /\ d.pc = "patch" /\ d.op = th[t].op /\ d.f = th[t].f
        /\ d.at = <<th[t].at, a>>
    BY <1>1, <1>2 DEF CallType, Stages
  <2>2. th' = [th EXCEPT ![t] = d] /\ given' = given
    BY <1>2 DEF Return, Types
  <2> HIDE DEF d
  <2> QED BY <1>2, <2>1, <2>2 DEF Types
<1>3. CASE th[t].op # "stub"
  <2>1. th' = [th EXCEPT ![t] = Idle] /\ given' = given \cup {<<th[t].f, a>>}
    BY <1>3 DEF Return
  <2> QED BY <1>3, <2>1, IdleFields DEF Types
<1> QED BY <1>2, <1>3

(* What the call of another thread needs of a step. *)
Kept(u) ==
  /\ th[u].f \in alive'
  /\ th[u].op = "stub" => stubOf'[th[u].f] = stubOf[th[u].f]
  /\ \A a \in Held(u) : Holding(th[u].f, a) => Holding(th[u].f, a)'
  /\ th[u].op = "recompile" =>
       /\ used'.recompiles # 0
       /\ th[u].pc \in {"start", "emit"} =>
            /\ job'.f = job.f /\ job'.queued = job.queued
            /\ emitted'[th[u].f] = emitted[th[u].f]
       /\ th[u].pc \in {"find", "relink"} =>
            \/ emitted'[th[u].f] = emitted[th[u].f]
            \/ emitted'[th[u].f] \notin Held(u)
       /\ th[u].pc = "find" /\ Lookup(maps, th[u].f) # Null =>
            Lookup(maps', th[u].f) # Null
       /\ th[u].pc = "relink" => mem'[th[u].at[2]].jump = mem[th[u].at[2]].jump

LEMMA OtherInCall ==
  ASSUME UNCHANGED program, NEW u \in Threads, InCall(u), th'[u] = th[u], Kept(u)
  PROVE  InCall(u)'
<1>1. External' = External /\ Lazily' = Lazily
  BY DEF External, ExternalAddr, Lazily
<1>2. Held(u)' = Held(u) BY DEF Held
<1>3. \A a \in Held(u) : Holding(th[u].f, a)' BY DEF InCall, Kept
<1>4. th'[u].f \in alive' BY DEF Kept
<1>5. CASE GetCall(u) BY <1>1, <1>2, <1>3, <1>4, <1>5 DEF InCall, GetCall
<1>6. CASE StubCall(u)
  BY <1>1, <1>2, <1>3, <1>4, <1>6 DEF InCall, StubCall, Kept
<1>7. CASE RecompileCall(u)
  <2>1. th[u].op = "recompile" /\ th[u].pc # "patch" BY <1>7 DEF RecompileCall
  <2>2. th[u].pc = "find" => Held(u) = {th[u].at} BY <2>1 DEF Held
  <2>3. th[u].pc = "relink" => Held(u) = {th[u].at[1], th[u].at[2]}
    BY <2>1 DEF Held
  <2>4. RecompileCall(u)'
    BY <1>1, <1>7, <2>1, <2>2, <2>3 DEF RecompileCall, Kept
  <2> QED BY <1>2, <1>3, <1>4, <2>4 DEF InCall
<1> QED BY <1>5, <1>6, <1>7 DEF InCall

(* A step of thread t keeps the calls of all threads in order. *)
LEMMA ThreadStep ==
  ASSUME Types, Threading, UNCHANGED program, NEW t \in Threads,
         \A u \in Threads \ {t} : th'[u] = th[u],
         lock \in {NoThread, t} \/ lock' = lock, lock' \in {lock, t, NoThread},
         Holds(t)' <=> lock' = t,
         \A u \in Threads \ {t} : th[u] # Idle => Kept(u),
         th'[t] = Idle \/ InCall(t)',
         th'[t].op = "recompile" =>
           \/ th[t].op = "recompile" /\ th[t].f = th'[t].f
           \/ ~Recompiled(th'[t].f)
  PROVE  Threading'
<1>1. ASSUME NEW u \in Threads \ {t} PROVE Holds(u)' <=> lock' = u
  BY <1>1, ProgramFacts DEF Threading, Holds
<1>2. ASSUME NEW u \in Threads \ {t}, th[u] # Idle PROVE InCall(u)'
  <2>1. InCall(u) BY <1>2 DEF Threading
  <2> QED BY <1>2, <2>1, OtherInCall
<1>3. ASSUME NEW u \in Threads, NEW v \in Threads, th'[u].op = "recompile",
             th'[v].op = "recompile", th'[u].f = th'[v].f
      PROVE  u = v
  BY <1>3 DEF Threading, Recompiled
<1> QED BY <1>1, <1>2, <1>3 DEF Threading

(* And so does a step of no thread. *)
LEMMA NoThreadStep ==
  ASSUME Threading, UNCHANGED <<program, th, lock>>,
         \A u \in Threads : th[u] # Idle => Kept(u)
  PROVE  Threading'
<1>1. ASSUME NEW u \in Threads PROVE Holds(u)' <=> lock' = u
  BY <1>1 DEF Threading, Holds
<1>2. ASSUME NEW u \in Threads, th[u] # Idle PROVE InCall(u)'
  <2>1. InCall(u) BY <1>2 DEF Threading
  <2> QED BY <1>2, <2>1, OtherInCall
<1> QED BY <1>1, <1>2 DEF Threading

(* A step that leaves the emitter and its tables alone, and unmaps and makes *)
(* jump only the function that its thread recompiles, keeps the calls of     *)
(* other threads.                                                            *)
LEMMA OthersKept ==
  ASSUME AInv, UNCHANGED <<alive, emitted, stubOf, lock, job>>,
         used' = used \/ used'.recompiles # 0,
         NEW t \in Threads, lock # t, \A u \in Threads \ {t} : th'[u] = th[u],
         \A b \in Memory : mem'[b].kind = mem[b].kind /\ mem'[b].fn = mem[b].fn,
         \A b \in Memory :
           \/ mem'[b].jump = mem[b].jump \/ mem[b].kind # "body"
           \/ th[t].op = "recompile" /\ mem[b].fn = th[t].f,
         \A f \in Globals :
           \/ Lookup(maps', f) = Lookup(maps, f) \/ Lookup(maps', f) # Null
           \/ th[t].op = "recompile" /\ f = th[t].f,
         NEW u \in Threads \ {t}, th[u] # Idle
  PROVE  Kept(u)
<1>1. InCall(u) /\ th[u].f \in Globals
  BY ProgramFacts DEF AInv, Threading, InCall
<1>2. Starting' <=> Starting BY DEF AInv, Types, Starting
<1>3. ASSUME NEW a \in Held(u), Holding(th[u].f, a) PROVE Holding(th[u].f, a)'
  BY <1>2, <1>3 DEF Holding
<1>4. ASSUME th[u].op = "recompile", th[t].op = "recompile" PROVE th[u].f # th[t].f
  BY <1>4 DEF AInv, Threading
<1>5. ASSUME th[u].op = "recompile", th[u].pc = "relink"
      PROVE  mem'[th[u].at[2]].jump = mem[th[u].at[2]].jump
  <2>1. Held(u) = {th[u].at[1], th[u].at[2]} BY <1>5 DEF Held
  <2>2. Holding(th[u].f, th[u].at[2]) BY <1>1, <2>1 DEF InCall
  <2> QED BY <1>4, <1>5, <2>2 DEF Holding
<1>6. th[u].f \in alive' BY <1>1 DEF InCall
<1>7. th[u].op = "recompile" => used'.recompiles # 0
  BY <1>1 DEF InCall, GetCall, StubCall, RecompileCall
<1>8. ASSUME th[u].op = "recompile", th[u].pc = "find", Lookup(maps, th[u].f) # Null
      PROVE  Lookup(maps', th[u].f) # Null
  BY <1>1, <1>4, <1>8
<1> QED BY <1>3, <1>5, <1>6, <1>7, <1>8 DEF Kept

-----------------------------------------------------------------------------
(* At the start there is nothing. *)
LEMMA InitAInv == Init => AInv
<1> SUFFICES ASSUME Init PROVE AInv OBVIOUS
<1> USE DEF Init
<1>1. Types
  <2>1. maps \in MapsType BY DEF MapsType, Empty, Locations
  <2>2. mem \in MemType BY DEF MemType, Code, Kinds, Locations
  <2>3. job \in JobType BY DEF JobType, NoJob
  <2>4. th \in [Threads -> CallType] BY IdleFields
  <2>5. used \in [retries : Nat, recompiles : Nat, frees : Nat] OBVIOUS
  <2> QED BY <2>1, <2>2, <2>3, <2>4, <2>5 DEF Types, Calls
<1>2. \A a \in Memory : mem[a].kind = "unused" /\ mem[a].fn = None
                        /\ mem[a].jump = Null
  BY DEF Code
<1>3. \A t \in Threads : /\ th[t] = Idle /\ th[t].pc = "idle" /\ lock # t
                           /\ th[t].op = "none"
  BY IdleFields, JITAssumption
<1>4. Threading BY <1>3 DEF Threading, Holds
<1>5. Session BY DEF Session
<1>6. Tables
  <2>1. \A f \in alive : Calls[f] \subseteq alive
    BY <1>1, ProgramFacts DEF Calls
  <2>2. \A f \in Globals : emitted[f] = Null /\ stubOf[f] = Null OBVIOUS
  <2>3. Null # Resolver BY JITAssumption DEF Locations
  <2> QED BY <1>2, <2>1, <2>2, <2>3 DEF Tables, NoCode
<1>7. /\ \A f \in Globals : maps.fwd[f] = Absent /\ Lookup(maps, f) = Null
      /\ ~ReverseInUse(maps)
  BY DEF Empty, Lookup, ReverseInUse
<1>8. Mapped /\ InverseMaps
  BY <1>1, <1>7, ProgramFacts, GlobalMapsAssumption
     DEF Mapped, InverseMaps
<1>9. Single
  <2>1. pending = <<>> /\ Len(pending) = 0 /\ Queue = {} BY DEF Queue
  <2>2. ~Starting BY DEF Starting
  <2>3. \A a \in Memory : ~Body(a) BY <1>2 DEF Body
  <2> QED BY <2>1, <2>2, <2>3 DEF Single
<1> QED BY <1>1, <1>4, <1>5, <1>6, <1>8, <1>9 DEF AInv

(* A step that only moves a thread that does not compile. *)
LEMMA CallOnly ==
  ASSUME AInv, UNCHANGED <<program, maps, alive, code, lock, job>>,
         used' \in [retries : Nat, recompiles : Nat, frees : Nat],
         used' = used \/ used'.recompiles # 0,
         NEW t \in Threads, th' \in [Threads -> CallType],
         given' \subseteq Globals \X Locations,
         \A u \in Threads \ {t} : th'[u] = th[u],
         lock # t, th'[t].pc \notin {"start", "emit"},
         th[t].pc # "recompile",
         th'[t] = Idle \/ InCall(t)',
         \/ th'[t].op # "recompile" \/ ~Recompiled(th'[t].f)
         \/ th[t].op = "recompile" /\ th[t].f = th'[t].f
  PROVE  AInv'
<1> USE DEF code
<1>1. Types' BY DEF AInv, Types, Calls
<1>2. ASSUME NEW u \in Threads \ {t}, th[u] # Idle PROVE Kept(u)
  BY <1>2, OthersKept
<1>3. Holds(t)' <=> lock' = t BY DEF Holds
<1>4. Threading' BY <1>1, <1>2, <1>3, ThreadStep DEF AInv
<1>5. /\ lock # NoThread => th'[lock] = th[lock]
      /\ Starting' <=> Starting
  BY DEF AInv, Types, Starting
<1>6. /\ Calls' = Calls /\ External' = External /\ Lazily' = Lazily
      /\ FarStubs' = FarStubs /\ ExternalAddr' = ExternalAddr
      /\ Queue' = Queue
  BY DEF Calls, External, ExternalAddr, Lazily, FarStubs, Queue
<1>7. Session' BY <1>5, <1>6 DEF AInv, Session
<1>8. Tables' BY <1>6 DEF AInv, Tables, NoCode
<1>9. Mapped'
  <2>1. \A f : Unmapped(f) => Unmapped(f)' BY DEF Unmapped
  <2> QED BY <1>5, <1>6, <2>1 DEF AInv, Mapped
<1>10. InverseMaps' BY DEF AInv, InverseMaps
<1>11. Single' BY <1>5, <1>6 DEF AInv, Single, Body
<1> QED BY <1>1, <1>4, <1>7, <1>8, <1>9, <1>10, <1>11 DEF AInv

-----------------------------------------------------------------------------
(* While the lock is free nothing waits to be compiled, and every mapping is *)
(* that of the newest code, if the function is mapped.                       *)
LEMMA FreeFacts ==
  ASSUME AInv, LockFree
  PROVE  /\ pending = <<>> /\ Queue = {} /\ ~Starting
         /\ \A f \in alive \ External :
              Lookup(maps, f) = emitted[f] \/ Unmapped(f)
         /\ \A f \in alive \ External :
              Lookup(maps, f) # Null => Lookup(maps, f) = emitted[f]
         /\ \A t \in Threads : lock # t
BY ProgramFacts DEF AInv, Session, LockFree, Queue, Starting, Mapped, Unmapped

(* What a call that is under way knows. *)
LEMMA CallFacts ==
  ASSUME AInv, NEW t \in Threads, th[t].pc # "idle"
  PROVE  /\ InCall(t) /\ th[t].f \in alive /\ th[t].f \in Globals
         /\ th[t].op = "stub" /\ th[t].pc # "patch" => th[t].at \in Locations
         /\ Holds(t) <=> lock = t
<1>1. InCall(t) BY IdleFields DEF AInv, Threading
<1>2. alive \subseteq Globals /\ Memory \subseteq Locations
  BY ProgramFacts DEF AInv
<1>3. stubOf \in [Globals -> Memory \cup {Null}] BY DEF AInv, Types
<1>4. ASSUME th[t].op = "stub", th[t].pc # "patch" PROVE th[t].at \in Locations
  <2>1. th[t].at = stubOf[th[t].f]
    BY <1>1, <1>4 DEF InCall, GetCall, StubCall, RecompileCall
  <2> QED BY <1>1, <1>2, <1>3, <2>1 DEF InCall, Locations
<1> QED BY <1>1, <1>2, <1>4 DEF InCall, AInv, Threading

LEMMA GetStep ==
  ASSUME AInv, UNCHANGED program, NEW t \in Threads, NEW f \in Globals,
         getPointerToFunction(t, f)
  PROVE  AInv'
<1> DEFINE c == [pc |-> "check", op |-> "get", f |-> f, at |-> Null]
<1>1. c \in CallType /\ c.pc = "check" /\ c.op = "get" /\ c.f = f /\ c.at = Null
  BY DEF CallType, Stages, Locations
<1>2. /\ th[t] = Idle /\ th' = [th EXCEPT ![t] = c]
      /\ f \in alive /\ UNCHANGED <<maps, alive, code, lock, job, given, used>>
  BY DEF getPointerToFunction
<1> HIDE DEF c
<1>3. th' \in [Threads -> CallType] /\ th'[t] = c
      /\ \A u \in Threads \ {t} : th'[u] = th[u]
  BY <1>1, <1>2 DEF AInv, Types
<1>4. lock # t /\ th[t].pc # "recompile" /\ th'[t].op # "recompile"
  BY <1>1, <1>2, <1>3, IdleFields DEF AInv, Threading, Holds
<1>5. InCall(t)'
  <2>1. Held(t)' = {} BY <1>1, <1>3 DEF Held
  <2> QED BY <1>1, <1>2, <1>3, <2>1 DEF InCall, GetCall
<1>6. given' \subseteq Globals \X Locations
      /\ used' \in [retries : Nat, recompiles : Nat, frees : Nat]
  BY <1>2 DEF AInv, Types
<1> QED BY <1>1, <1>2, <1>3, <1>4, <1>5, <1>6, CallOnly

(* A call that finds its function in the map while the lock is free. *)
LEMMA FoundStep ==
  ASSUME AInv, UNCHANGED <<program, maps, alive, code, lock, job, used>>,
         NEW t \in Threads, th[t].pc \in {"check", "lock"}, LockFree,
         Lookup(maps, th[t].f) # Null, Return(t, Lookup(maps, th[t].f))
  PROVE  AInv'
<1> DEFINE a == Lookup(maps, th[t].f)
<1>1. InCall(t) /\ th[t].f \in alive /\ th[t].f \in Globals
      /\ (th[t].op = "stub" => th[t].at \in Locations)
  BY CallFacts
<1>2. a \in Locations BY <1>1, LookupType DEF AInv, Types
<1>3. /\ th' \in [Threads -> CallType] /\ given' \subseteq Globals \X Locations
      /\ \A u \in Threads \ {t} : th'[u] = th[u]
      /\ th[t].op = "stub" =>
           /\ th'[t].pc = "patch" /\ th'[t].op = "stub"
           /\ th'[t].f = th[t].f /\ th'[t].at = <<th[t].at, a>>
      /\ th[t].op # "stub" => th'[t] = Idle
  BY <1>1, <1>2, ReturnStep DEF AInv
<1>4. ASSUME th[t].op = "stub" PROVE InCall(t)'
  <2>1. th[t].at = stubOf[th[t].f] /\ stubOf[th[t].f] # Null
        /\ th[t].f \notin External /\ Lazily
    BY <1>1, <1>4 DEF InCall, GetCall, StubCall, RecompileCall
  <2>2. a = emitted[th[t].f] BY <1>1, <2>1, FreeFacts
  <2>3. External' = External /\ Lazily' = Lazily
    BY DEF External, ExternalAddr, Lazily
  <2>4. emitted' = emitted /\ stubOf' = stubOf /\ alive' = alive
        /\ lock' = NoThread /\ mem' = mem
    BY DEF code, LockFree
  <2> HIDE DEF a
  <2>5. emitted[th[t].f] # Null BY <2>2 DEF a
  <2>6. a \in Memory /\ mem[a].kind = "body" /\ mem[a].fn = th[t].f
    BY <1>1, <2>2, <2>5 DEF AInv, Tables, Types
  <2>7. th'[t].at[2] = a BY <1>3, <1>4
  <2>8. Held(t)' = {a} BY <1>3, <1>4, <2>7 DEF Held
  <2>9. \A b : b = a => Holding(th[t].f, b)'
    BY <1>3, <1>4, <2>4, <2>6 DEF Holding
  <2> QED
    BY <1>1, <1>3, <1>4, <2>1, <2>3, <2>4, <2>7, <2>8, <2>9 DEF InCall, StubCall
<1>5. th'[t] = Idle \/ InCall(t)' BY <1>3, <1>4
<1>6. th'[t].pc \notin {"start", "emit"} /\ th'[t].op # "recompile"
  BY <1>3, IdleFields
<1>7. lock # t /\ used' \in [retries : Nat, recompiles : Nat, frees : Nat]
  BY FreeFacts DEF AInv, Types
<1> QED BY <1>3, <1>5, <1>6, <1>7, CallOnly

LEMMA CheckMapStep ==
  ASSUME AInv, UNCHANGED program, NEW t \in Threads, CheckMap(t)
  PROVE  AInv'
<1>1. CASE Lookup(maps, th[t].f) # Null
  BY <1>1, FoundStep DEF CheckMap
<1>2. CASE Lookup(maps, th[t].f) = Null
  <2>1. Goto(t, "lock") /\ given' = given BY <1>2 DEF CheckMap
  <2>2. /\ th' \in [Threads -> CallType]
        /\ \A u \in Threads \ {t} : th'[u] = th[u]
        /\ th'[t].pc = "lock" /\ th'[t].op = th[t].op
        /\ th'[t].f = th[t].f /\ th'[t].at = th[t].at
    BY <2>1, GotoStep DEF AInv
  <2>3. /\ InCall(t) /\ th[t].pc = "check"
        /\ UNCHANGED <<maps, alive, code, lock, job, used>>
    BY CallFacts DEF CheckMap
  <2>4. th[t].op # "recompile" /\ (GetCall(t) \/ StubCall(t))
    BY <2>3 DEF InCall, GetCall, StubCall, RecompileCall
  <2>5. InCall(t)'
    <3>1. Held(t)' = {} BY <2>2, <2>4 DEF Held
    <3>2. th'[t].f \in alive' BY <2>2, <2>3 DEF InCall
    <3> QED
      BY <2>2, <2>3, <2>4, <3>1, <3>2, ProgramSame
         DEF InCall, GetCall, StubCall, code
  <2>6. lock # t BY FreeFacts DEF CheckMap
  <2>7. given' \subseteq Globals \X Locations
        /\ used' \in [retries : Nat, recompiles : Nat, frees : Nat]
    BY <2>1, <2>3 DEF AInv, Types
  <2> QED BY <2>2, <2>3, <2>4, <2>5, <2>6, <2>7, CallOnly
<1> QED BY <1>1, <1>2

LEMMA CallStubStep ==
  ASSUME AInv, UNCHANGED program, NEW t \in Threads, NEW s \in Memory,
         CallStub(t, s)
  PROVE  AInv'
<1> DEFINE f == mem[s].fn
           c == [pc |-> "check", op |-> "stub", f |-> f, at |-> s]
<1>1. f \in alive /\ stubOf[f] = s /\ mem[s].kind = "stub"
  BY DEF CallStub, AInv, Tables
<1>2. f \in Globals /\ s \in Locations /\ s # Null
  BY <1>1, ProgramFacts DEF AInv
<1>3. f \notin External
  BY DEF CallStub, AInv, Tables
<1>4. c \in CallType /\ c.pc = "check" /\ c.op = "stub" /\ c.f = f /\ c.at = s
  BY <1>2 DEF CallType, Stages
<1>5. th[t] = Idle /\ th' = [th EXCEPT ![t] = c] BY DEF CallStub
<1>6. Lazily /\ LockFree
      /\ UNCHANGED <<maps, alive, code, lock, job, given, used>>
  BY DEF CallStub
<1> HIDE DEF c, f
<1>7. th' \in [Threads -> CallType] /\ th'[t] = c
      /\ \A u \in Threads \ {t} : th'[u] = th[u]
  BY <1>4, <1>5 DEF AInv, Types
<1>8. lock # t /\ th[t].pc # "recompile" BY <1>5, <1>6, IdleFields, FreeFacts
<1>9. InCall(t)'
  <2>1. Held(t)' = {} BY <1>4, <1>7 DEF Held
  <2> QED
    BY <1>1, <1>2, <1>3, <1>4, <1>6, <1>7, <2>1, ProgramSame
       DEF InCall, StubCall, code
<1>10. given' \subseteq Globals \X Locations
       /\ used' \in [retries : Nat, recompiles : Nat, frees : Nat]
  BY <1>6 DEF AInv, Types
<1> QED BY <1>4, <1>6, <1>7, <1>8, <1>9, <1>10, CallOnly

LEMMA OrStubStep ==
  ASSUME AInv, UNCHANGED program, StubsAreLazy,
         NEW t \in Threads, NEW f \in Globals, getPointerToFunctionOrStub(t, f)
  PROVE  AInv'
<1> DEFINE c == [pc |-> "orstub", op |-> "get", f |-> f, at |-> Null]
<1>1. c \in CallType /\ c.pc = "orstub" /\ c.op = "get" /\ c.f = f /\ c.at = Null
  BY DEF CallType, Stages, Locations
<1>2. /\ th[t] = Idle /\ f \in alive /\ LockFree
      /\ UNCHANGED <<maps, alive, code, lock, job, used>>
      /\ \/ th' = th /\ given' = given \cup {<<f, Lookup(maps, f)>>}
         \/ th' = [th EXCEPT ![t] = c] /\ given' = given
  BY DEF getPointerToFunctionOrStub
<1> HIDE DEF c
<1>3. lock # t /\ th[t].op # "recompile" /\ th[t].pc = "idle"
  BY <1>2, IdleFields, FreeFacts
<1>4. given' \subseteq Globals \X Locations
      /\ used' \in [retries : Nat, recompiles : Nat, frees : Nat]
  BY <1>2, LookupType DEF AInv, Types
<1>5. CASE th' = th
  BY <1>2, <1>3, <1>4, <1>5, CallOnly DEF AInv, Types
<1>6. CASE th' = [th EXCEPT ![t] = c]
  <2>1. th' \in [Threads -> CallType] /\ th'[t] = c
        /\ \A u \in Threads \ {t} : th'[u] = th[u]
    BY <1>1, <1>6 DEF AInv, Types
  <2>2. Lazily'
    BY DEF getPointerToFunctionOrStub, StubsAreLazy, AInv, Types, Lazily
  <2>3. InCall(t)'
    <3>1. Held(t)' = {} BY <1>1, <2>1 DEF Held
    <3> QED BY <1>1, <1>2, <2>1, <2>2, <3>1 DEF InCall, GetCall
  <2> QED BY <1>1, <1>2, <1>3, <1>4, <2>1, <2>3, CallOnly
<1> QED BY <1>2, <1>5, <1>6

-----------------------------------------------------------------------------
(* An external function that is not mapped yet is mapped to its own address. *)
LEMMA ResolveFacts ==
  ASSUME Types, Mapped, InverseMaps, ExternalsDiffer,
         NEW g \in External, NEW R, R = Resolve(g)
  PROVE  /\ R \in MapsType
         /\ \A h \in Globals \ {g} : R.fwd[h] = maps.fwd[h]
                                     /\ Lookup(R, h) = Lookup(maps, h)
         /\ Lookup(maps, g) # Null => R = maps
         /\ Lookup(maps, g) = Null => Lookup(R, g) = ExternalAddr[g]
         /\ used.recompiles = 0 => OneToOne(R)
<1>1. g \in Globals /\ ExternalAddr[g] \in Locations \ Memory
      /\ maps \in MapsType
  BY ProgramFacts DEF Types
<1>2. CASE Lookup(maps, g) # Null
  <2>1. R = maps BY <1>2 DEF Resolve
  <2> QED BY <1>1, <1>2, <2>1 DEF InverseMaps, OneToOne
<1>3. CASE Lookup(maps, g) = Null
  <2>1. R = Enter(maps, g, ExternalAddr[g])
    BY <1>3 DEF Resolve, addGlobalMapping
  <2>2. R \in MapsType /\ R.fwd = [maps.fwd EXCEPT ![g] = ExternalAddr[g]]
    <3> DEFINE a == ExternalAddr[g]
    <3>1. a \in Locations /\ R = Enter(maps, g, a) BY <1>1, <2>1
    <3> HIDE DEF a
    <3>2. /\ Enter(maps, g, a) \in MapsType
          /\ Enter(maps, g, a).fwd = [maps.fwd EXCEPT ![g] = a]
      BY <1>1, <3>1, EnterMaps
    <3>3. R \in MapsType /\ R.fwd = [maps.fwd EXCEPT ![g] = a]
      BY <3>1, <3>2
    <3> QED BY <3>3 DEF a
  <2>3. /\ R.fwd[g] = ExternalAddr[g] /\ ExternalAddr[g] # Absent
        /\ \A h \in Globals \ {g} : R.fwd[h] = maps.fwd[h]
    BY <1>1, <2>2, ProgramFacts DEF MapsType
  <2>4. ASSUME used.recompiles = 0 PROVE OneToOne(R)
    <3>1. OneToOne(maps) BY <2>4 DEF InverseMaps, OneToOne
    <3>2. ASSUME NEW h \in Globals \ {g}, maps.fwd[h] = ExternalAddr[g],
                 ExternalAddr[g] # Null
          PROVE  FALSE
      <4>1. Lookup(maps, h) = ExternalAddr[g]
        BY <2>3, <3>2 DEF Lookup
      <4>2. ExternalAddr[g] \notin Memory BY <1>1
      <4>3. stubOf[h] \in Memory \cup {Null} BY DEF Types
      <4>4. h \in External /\ ExternalAddr[h] = ExternalAddr[g]
        BY <3>2, <4>1, <4>2, <4>3 DEF Mapped
      <4> QED
        BY <3>2, <4>4 DEF ExternalsDiffer, Types, External, ExternalAddr
    <3> QED BY <1>1, <1>3, <2>1, <3>1, <3>2, EnterOneToOne
  <2> QED BY <1>3, <2>2, <2>3, <2>4 DEF Lookup
<1> QED BY <1>2, <1>3

LEMMA ResolveMapped ==
  ASSUME Types, Mapped, InverseMaps, ExternalsDiffer,
         NEW g \in External, g \in alive, maps' = Resolve(g),
         UNCHANGED <<program, alive, mem, emitted, stubOf, used>>,
         ~Starting, ~Starting', Queue' = Queue,
         \A u \in Threads : th[u].pc = "recompile" => th'[u] = th[u]
  PROVE  Mapped' /\ InverseMaps' /\ maps' \in MapsType
<1>1. /\ maps' \in MapsType
      /\ \A h \in Globals \ {g} : maps'.fwd[h] = maps.fwd[h]
                                  /\ Lookup(maps', h) = Lookup(maps, h)
      /\ Lookup(maps, g) # Null => maps' = maps
      /\ Lookup(maps, g) = Null => Lookup(maps', g) = ExternalAddr[g]
      /\ used.recompiles = 0 => OneToOne(maps')
  BY ResolveFacts
<1>2. g \in Globals BY ProgramFacts
<1>3. Mapped'
  <2>1. \A h \in Globals \ alive : maps'.fwd[h] = Absent
    BY <1>1, <1>2 DEF Mapped
  <2>2. ASSUME NEW f \in Globals, Lookup(maps', f) # Null
        PROVE  \/ f \in External /\ Lookup(maps', f) = ExternalAddr[f]
               \/ f \in External /\ Lookup(maps', f) = stubOf[f]
               \/ /\ f \notin External /\ Lookup(maps', f) \in Memory
                  /\ mem[Lookup(maps', f)].fn = f
    BY <1>1, <2>2 DEF Mapped
  <2>3. ASSUME NEW f \in alive \ External
        PROVE  \/ Lookup(maps', f) = emitted[f]
               \/ f \in Queue /\ Lookup(maps', f) = stubOf[f]
               \/ Unmapped(f)'
    <3>1. f \in Globals \ {g} BY <2>3, ProgramFacts
    <3>2. Lookup(maps', f) = Lookup(maps, f) BY <1>1, <3>1
    <3>3. Unmapped(f) => Unmapped(f)' BY <3>2 DEF Unmapped
    <3> QED BY <2>3, <3>2, <3>3 DEF Mapped
  <2> QED BY <2>1, <2>2, <2>3, ProgramSame DEF Mapped
<1>4. InverseMaps' BY <1>1 DEF InverseMaps, OneToOne
<1> QED BY <1>1, <1>3, <1>4

(* Asking for the global at an address. *)
LEMMA AskStep ==
  ASSUME AInv, UNCHANGED program, Ask
  PROVE  AInv'
<1>1. /\ LockFree /\ maps' = ComputeReverse(maps)
      /\ UNCHANGED <<alive, mem, emitted, stubOf, callSites, pending, lock, job,
                     th, given, used>>
  BY DEF Ask, code
<1>2. maps' \in MapsType /\ maps'.fwd = maps.fwd
  BY <1>1, ComputeMaps DEF AInv, Types
<1>3. Types' BY <1>1, <1>2 DEF AInv, Types, Calls
<1>4. /\ Starting' = Starting /\ Queue' = Queue
      /\ \A f : Lookup(maps', f) = Lookup(maps, f)
  BY <1>1, <1>2 DEF Starting, Queue, Lookup
<1>5. Mapped'
  <2>1. \A f : Unmapped(f)' <=> Unmapped(f) BY <1>1, <1>4 DEF Unmapped
  <2> QED BY <1>1, <1>2, <1>4, <2>1, ProgramSame DEF AInv, Mapped
<1>6. InverseMaps'
  <2> SUFFICES ASSUME used.recompiles = 0 PROVE OneToOne(maps')
    BY <1>1 DEF InverseMaps, OneToOne
  <2>1. OneToOne(maps) BY DEF AInv, InverseMaps, OneToOne
  <2> QED BY <1>1, <2>1, ComputeOneToOne DEF AInv, Types
<1>7. Session' /\ Tables'
  BY <1>1, <1>4, ProgramSame DEF AInv, Session, Tables, NoCode
<1>8. Threading'
  <2>1. ASSUME NEW u \in Threads, th[u] # Idle PROVE Kept(u)
    <3>1. InCall(u) BY <2>1 DEF AInv, Threading
    <3>2. \A a \in Held(u) : Holding(th[u].f, a) => Holding(th[u].f, a)'
      BY <1>1, <1>4 DEF Holding
    <3> QED
      BY <1>1, <1>4, <3>1, <3>2
         DEF Kept, InCall, GetCall, StubCall, RecompileCall
  <2> QED BY <1>1, <2>1, NoThreadStep DEF AInv
<1>9. Single'
  BY <1>1, <1>4, ProgramSame DEF AInv, Single, Body
<1> QED BY <1>3, <1>5, <1>6, <1>7, <1>8, <1>9 DEF AInv

(* The second look at the map: found, external, or to be compiled. *)
LEMMA LockAndCheckStep ==
  ASSUME AInv, UNCHANGED program, ExternalsDiffer,
         NEW t \in Threads, LockAndCheck(t)
  PROVE  AInv'
<1> DEFINE f == th[t].f
<1>1. /\ th[t].pc = "lock" /\ LockFree /\ lock = NoThread
      /\ UNCHANGED <<alive, mem, emitted, stubOf, callSites, pending, used>>
  BY DEF LockAndCheck, code, LockFree
<1>2. /\ InCall(t) /\ f \in alive /\ f \in Globals /\ lock # t
      /\ th[t].op = "stub" => th[t].at \in Locations
      /\ th[t] # Idle /\ th[t].op # "recompile" /\ (GetCall(t) \/ StubCall(t))
  BY <1>1, CallFacts, FreeFacts, IdleFields
     DEF InCall, GetCall, StubCall, RecompileCall
<1>3. /\ pending = <<>> /\ Queue = {} /\ ~Starting /\ Queue' = {}
  BY <1>1, FreeFacts DEF Queue
<1>4. ASSUME NEW u \in Threads, u # t, th[u] # Idle, th'[u] = th[u],
             Starting' \/ lock' = NoThread,
             \A g \in Globals :
               Lookup(maps, g) # Null => Lookup(maps', g) # Null
      PROVE  Kept(u)
  <2>1. InCall(u) /\ th[u].f \in Globals /\ th[u].f \in alive'
    BY <1>1, <1>4, ProgramFacts DEF AInv, Threading, InCall
  <2>2. th[u].pc \notin {"start", "emit"}
    BY <1>1, <1>4, FreeFacts DEF AInv, Threading, Holds
  <2>3. \A a \in Held(u) : Holding(th[u].f, a) => Holding(th[u].f, a)'
    BY <1>1, <1>4 DEF Holding
  <2>4. th[u].op = "recompile" => used.recompiles # 0
    BY <2>1 DEF InCall, GetCall, StubCall, RecompileCall
  <2> QED BY <1>1, <1>4, <2>1, <2>2, <2>3, <2>4 DEF Kept
<1>12. \A u \in Threads : th[u].pc = "recompile" => u # t /\ used.recompiles # 0
  BY <1>1, CallFacts DEF InCall, GetCall, StubCall, RecompileCall
<1>5. CASE Lookup(maps, f) # Null
  BY <1>1, <1>5, FoundStep DEF LockAndCheck, LockFree
<1>6. CASE Lookup(maps, f) = Null /\ f \in External
  <2>1. /\ maps' = addGlobalMapping(maps, f, ExternalAddr[f])
        /\ Return(t, ExternalAddr[f]) /\ lock' = lock /\ job' = job
    BY <1>6 DEF LockAndCheck
  <2>2. maps' = Resolve(f) BY <1>6, <2>1 DEF Resolve
  <2>3. th[t].op # "stub" BY <1>2, <1>6 DEF GetCall, StubCall
  <2>4. ExternalAddr[f] \in Locations BY <1>6, ProgramFacts DEF AInv
  <2>5. /\ th' \in [Threads -> CallType] /\ given' \subseteq Globals \X Locations
        /\ \A u \in Threads \ {t} : th'[u] = th[u]
        /\ th'[t] = Idle
    BY <1>2, <2>1, <2>3, <2>4, ReturnStep DEF AInv
  <2> HIDE DEF f
  <2>6. ~Starting' /\ lock' = NoThread BY <1>1, <2>1 DEF Starting
  <2>7. Mapped' /\ InverseMaps' /\ maps' \in MapsType
    <3>1. Types /\ Mapped /\ InverseMaps BY DEF AInv
    <3> QED BY <1>1, <1>2, <1>3, <1>6, <1>12, <2>2, <2>5, <2>6, <3>1, ResolveMapped
  <2>8. Types' BY <1>1, <2>1, <2>5, <2>7 DEF AInv, Types, Calls
  <2>9. Threading'
    <3>1. Holds(t)' <=> lock' = t
      BY <1>1, <1>2, <2>1, <2>5, IdleFields DEF Holds
    <3>2. \A g \in Globals : Lookup(maps, g) # Null => Lookup(maps', g) # Null
      <4>1. Types /\ Mapped /\ InverseMaps BY DEF AInv
      <4> QED BY <1>6, <2>2, <4>1, ResolveFacts
    <3> QED
      BY <1>1, <1>2, <1>4, <2>1, <2>5, <2>6, <3>1, <3>2, ThreadStep, IdleFields
         DEF AInv
  <2>10. Session' /\ Tables'
    BY <1>1, <2>1, <2>6, ProgramSame DEF AInv, Session, Tables, NoCode
  <2>11. Single'
    BY <1>1, <1>3, <2>1, <2>6, ProgramSame DEF AInv, Single, Body
  <2> QED BY <2>7, <2>8, <2>9, <2>10, <2>11 DEF AInv
<1>7. CASE Lookup(maps, f) = Null /\ f \notin External
  <2>1. /\ maps' = maps /\ given' = given /\ lock' = t
        /\ job' = Job(f, FALSE) /\ Goto(t, "start")
    BY <1>7 DEF LockAndCheck
  <2>2. job' \in JobType /\ job'.f = f /\ job'.queued = FALSE
    BY <1>2, <2>1 DEF Job, NoJob, JobType
  <2>3. /\ th' \in [Threads -> CallType]
        /\ \A u \in Threads \ {t} : th'[u] = th[u]
        /\ th'[t].pc = "start" /\ th'[t].op = th[t].op
        /\ th'[t].f = f /\ th'[t].at = th[t].at
    BY <2>1, GotoStep DEF AInv
  <2>4. emitted[f] = Null \/ used.recompiles # 0
    BY <1>1, <1>2, <1>7, <1>12, FreeFacts DEF Unmapped
  <2> HIDE DEF f
  <2>5. t # NoThread BY ProgramFacts DEF AInv
  <2>6. Starting' BY <2>1, <2>3, <2>5 DEF Starting
  <2>7. Types' BY <1>1, <2>1, <2>2, <2>3 DEF AInv, Types, Calls
  <2>8. Threading'
    <3>0. Held(t)' = {} BY <1>2, <2>3 DEF Held
    <3>1. InCall(t)'
      BY <1>1, <1>2, <2>3, <3>0, ProgramSame DEF InCall, GetCall, StubCall, f
    <3>2. Holds(t)' <=> lock' = t BY <2>1, <2>3 DEF Holds
    <3> QED
      BY <1>1, <1>2, <1>4, <2>1, <2>3, <2>6, <3>1, <3>2, ThreadStep DEF AInv
  <2>9. Session'
    BY <1>1, <1>2, <1>3, <1>7, <2>1, <2>2, <2>3, <2>5, <2>6, ProgramSame
       DEF AInv, Session, f
  <2>10. Tables' BY <1>1, ProgramSame DEF AInv, Tables, NoCode
  <2>11. Mapped'
    <3>1. \A g : Unmapped(g) => Unmapped(g)'
      BY <1>12, <2>1, <2>3 DEF Unmapped
    <3> QED BY <1>1, <1>3, <2>1, <3>1, ProgramSame DEF AInv, Mapped
  <2>12. InverseMaps' BY <1>1, <2>1 DEF AInv, InverseMaps
  <2>13. Single'
    <3>1. Single BY DEF AInv
    <3>2. Starting' => emitted'[job'.f] = Null \/ used.recompiles # 0
      BY <1>1, <2>2, <2>4
    <3> QED BY <1>1, <1>3, <3>1, <3>2, ProgramSame DEF Single, Body
  <2> QED BY <2>7, <2>8, <2>9, <2>10, <2>11, <2>12, <2>13 DEF AInv
<1> QED BY <1>5, <1>6, <1>7

-----------------------------------------------------------------------------
(* Rewriting a jump changes nothing else. *)
Rewritten(a, j) == mem' = [mem EXCEPT ![a].jump = j]
LEMMA JumpFacts ==
  ASSUME mem \in MemType, NEW a \in Memory, NEW j \in Locations \cup {Resolver},
         Rewritten(a, j)
  PROVE  /\ mem' \in MemType
         /\ \A b \in Memory :
              /\ mem'[b].kind = mem[b].kind /\ mem'[b].fn = mem[b].fn
              /\ mem'[b].calls = mem[b].calls /\ mem'[b].done = mem[b].done
              /\ b # a => mem'[b].jump = mem[b].jump
         /\ mem'[a].jump = j
BY DEF MemType, Rewritten

(* A step that rewrites the jump of a stub, or of the code that has been     *)
(* replaced, and ends the call of the thread.                                *)
LEMMA JumpOnly ==
  ASSUME AInv, UNCHANGED <<program, maps, alive, emitted, stubOf, callSites,
                           pending, lock, job, used>>,
         NEW t \in Threads, th'[t] = Idle, th' \in [Threads -> CallType],
         given' \subseteq Globals \X Locations,
         \A u \in Threads \ {t} : th'[u] = th[u],
         th[t].pc \in {"patch", "relink"}, lock # t,
         NEW a \in Memory, NEW j \in Memory,
         Rewritten(a, j),
         \A f \in Globals : emitted[f] # a,
         \/ mem[a].kind # "body"
         \/ th[t].op = "recompile" /\ mem[a].fn = th[t].f
  PROVE  AInv'
<1> USE ProgramSame
<1>0. mem \in MemType /\ a \in Memory /\ j \in Locations /\ j # Resolver
      /\ j # Null /\ Memory \subseteq Addrs
  BY ProgramFacts DEF AInv, Types
<1>1. /\ mem' \in MemType
      /\ \A b \in Memory :
           /\ mem'[b].kind = mem[b].kind /\ mem'[b].fn = mem[b].fn
           /\ b # a => mem'[b].jump = mem[b].jump
      /\ mem'[a].jump = j
  BY <1>0, JumpFacts
<1>2. Types' BY <1>1 DEF AInv, Types, Calls
<1>3. Threading'
  <2>1. ASSUME NEW u \in Threads \ {t}, th[u] # Idle PROVE Kept(u)
    BY <1>1, <2>1, OthersKept
  <2>2. Holds(t)' <=> lock' = t BY IdleFields DEF Holds
  <2> QED BY <1>2, <2>1, <2>2, ThreadStep, IdleFields DEF AInv
<1>4. /\ Starting' <=> Starting
      /\ Queue' = Queue
  <2>1. lock # NoThread => th'[lock] = th[lock] BY DEF AInv, Types
  <2> QED BY <2>1 DEF Starting, Queue
<1>5. Session'
  <2>1. lock # NoThread => th'[lock] = th[lock] BY DEF AInv, Types
  <2> QED BY <1>4, <2>1 DEF AInv, Session
<1>6. Tables'
  <2>1. Tables /\ Types BY DEF AInv
  <2>2. \A b \in Memory : /\ NoCode(b)' <=> NoCode(b)
                          /\ mem'[b].jump = Resolver => mem[b].jump = Resolver
    BY <1>0, <1>1 DEF NoCode
  <2>3. \A f \in Globals : emitted[f] # Null =>
                             emitted[f] \in Memory /\ emitted[f] # a
    BY <2>1 DEF Types
  <2>4. \A f \in Globals : stubOf[f] # Null => stubOf[f] \in Memory
    BY <2>1 DEF Types
  <2>5. callSites \subseteq Memory BY <2>1 DEF Types
  <2> QED BY <1>1, <2>1, <2>2, <2>3, <2>4, <2>5 DEF Tables
<1>7. Mapped'
  <2>1. \A f : Lookup(maps', f) = Lookup(maps, f) OBVIOUS
  <2>2. \A f : Unmapped(f) => Unmapped(f)' BY <2>1 DEF Unmapped
  <2> QED BY <1>1, <1>4, <2>1, <2>2 DEF AInv, Mapped
<1>8. InverseMaps' BY DEF AInv, InverseMaps
<1>9. Single'
  <2>1. \A b \in Memory : Body(b)' => Body(b) /\ b # a
    BY <1>0, <1>1 DEF Body
  <2> QED BY <1>1, <1>4, <2>1 DEF AInv, Single
<1> QED BY <1>2, <1>3, <1>5, <1>6, <1>7, <1>8, <1>9 DEF AInv

LEMMA PatchStep ==
  ASSUME AInv, UNCHANGED program, NEW t \in Threads, Patch(t)
  PROVE  AInv'
<1> DEFINE s == stubOf[th[t].f]
           a == th[t].at[2]
<1>1. /\ th[t].pc = "patch" /\ InCall(t) /\ th[t].f \in Globals /\ lock # t
  BY CallFacts DEF Patch, AInv, Threading, Holds
<1>2. th[t].at = <<s, a>> /\ s # Null /\ th[t].op = "stub"
  BY <1>1 DEF InCall, GetCall, StubCall, RecompileCall
<1>3. a \in Held(t) BY <1>1, <1>2 DEF Held
<1>4. s \in Memory /\ a \in Memory
  BY <1>1, <1>2, <1>3 DEF AInv, Types, InCall, Holding
<1>5. mem[s].kind = "stub" /\ \A f \in Globals : emitted[f] # s
  BY <1>1, <1>2, <1>4, ProgramFacts DEF AInv, Tables
<1>6. th[t].at[1] = s /\ th[t].at[2] = a BY <1>2
<1>7. /\ mem' = [mem EXCEPT ![s].jump = a] /\ th' = [th EXCEPT ![t] = Idle]
      /\ UNCHANGED <<maps, alive, emitted, stubOf, callSites, pending, lock, job,
                     given, used>>
  BY <1>6 DEF Patch
<1> HIDE DEF s, a
<1>8. th' \in [Threads -> CallType] /\ th'[t] = Idle
      /\ \A u \in Threads \ {t} : th'[u] = th[u]
  BY <1>7, IdleFields DEF AInv, Types
<1>9. given' \subseteq Globals \X Locations BY <1>7 DEF AInv, Types
<1>10. /\ Rewritten(s, a) /\ th[t].pc \in {"patch", "relink"}
       /\ mem[s].kind # "body"
  BY <1>1, <1>5, <1>7 DEF Rewritten
<1>11. /\ UNCHANGED <<program, maps, alive, emitted, stubOf, callSites, pending,
                      lock, job, used>>
       /\ lock # t /\ s \in Memory /\ a \in Memory
       /\ \A f \in Globals : emitted[f] # s
  BY <1>1, <1>4, <1>5, <1>7
<1> QED BY <1>8, <1>9, <1>10, <1>11, JumpOnly

(* A thread that relinks has its old code and its new code, and the old is   *)
(* not the newest.                                                           *)
LEMMA RelinkFacts ==
  ASSUME AInv, NEW t \in Threads, th[t].pc = "relink"
  PROVE  /\ InCall(t) /\ th[t].op = "recompile" /\ th[t].f \in alive \ External
         /\ th[t].f \in Globals /\ lock # t
         /\ Holding(th[t].f, th[t].at[1]) /\ Holding(th[t].f, th[t].at[2])
         /\ th[t].at[1] # th[t].at[2] /\ mem[th[t].at[2]].jump = Null
         /\ \A f \in Globals : emitted[f] # th[t].at[1]
<1>1. InCall(t) /\ th[t].f \in Globals /\ lock # t BY CallFacts DEF Holds
<1>2. /\ th[t].op = "recompile" /\ th[t].f \notin External
      /\ emitted[th[t].f] # th[t].at[1] /\ th[t].at[1] # th[t].at[2]
      /\ mem[th[t].at[2]].jump = Null
  BY <1>1 DEF InCall, GetCall, StubCall, RecompileCall
<1>3. Held(t) = {th[t].at[1], th[t].at[2]} BY <1>2 DEF Held
<1>4. Holding(th[t].f, th[t].at[1]) /\ Holding(th[t].f, th[t].at[2])
  BY <1>1, <1>3 DEF InCall
<1>5. th[t].at[1] # Null /\ mem[th[t].at[1]].fn = th[t].f
  BY <1>4, ProgramFacts DEF AInv, Holding
<1>6. ASSUME NEW f \in Globals, emitted[f] = th[t].at[1] PROVE FALSE
  <2>1. mem[emitted[f]].fn = f BY <1>5, <1>6 DEF AInv, Tables
  <2> QED BY <1>2, <1>5, <1>6, <2>1
<1> QED BY <1>1, <1>2, <1>4, <1>6 DEF InCall

LEMMA RelinkStep ==
  ASSUME AInv, UNCHANGED program, NEW t \in Threads, Relink(t)
  PROVE  AInv'
<1> DEFINE o == th[t].at[1]
           a == th[t].at[2]
<1>1. th[t].pc = "relink" BY DEF Relink
<1>2. /\ th[t].op = "recompile" /\ th[t].f \in Globals /\ lock # t
      /\ o \in Memory /\ a \in Memory
      /\ mem[o].fn = th[t].f /\ \A f \in Globals : emitted[f] # o
  BY <1>1, RelinkFacts DEF Holding
<1>3. /\ mem' = [mem EXCEPT ![o].jump = a] /\ Return(t, a)
      /\ UNCHANGED <<maps, alive, emitted, stubOf, callSites, pending, lock, job,
                     used>>
  BY DEF Relink
<1>4. a \in Locations BY <1>2, ProgramFacts DEF AInv
<1> HIDE DEF o, a
<1>5. /\ th' \in [Threads -> CallType] /\ given' \subseteq Globals \X Locations
      /\ \A u \in Threads \ {t} : th'[u] = th[u]
      /\ th'[t] = Idle
  BY <1>2, <1>3, <1>4, ReturnStep DEF AInv
<1> QED BY <1>1, <1>2, <1>3, <1>5, JumpOnly DEF Rewritten

-----------------------------------------------------------------------------
(* Recompiling begins: the thread notes the old code. *)
LEMMA RecompileStep ==
  ASSUME AInv, UNCHANGED program, NEW t \in Threads, NEW f \in Globals,
         recompileAndRelinkFunction(t, f)
  PROVE  AInv'
<1> DEFINE o == Lookup(maps, f)
           c == [pc |-> "unmap", op |-> "recompile", f |-> f, at |-> o]
<1>1. /\ LockFree /\ th[t] = Idle /\ f \in alive \ External /\ o # Null
      /\ ~Recompiled(f) /\ th' = [th EXCEPT ![t] = c]
      /\ used' = [used EXCEPT !.recompiles = @ + 1]
      /\ UNCHANGED <<maps, alive, code, lock, job, given>>
  BY DEF recompileAndRelinkFunction
<1>2. o = emitted[f] BY <1>1, FreeFacts
<1>3. o \in Memory /\ mem[o].kind = "body" /\ mem[o].fn = f /\ o \in Locations
  BY <1>1, <1>2, ProgramFacts DEF AInv, Types, Tables
<1>4. c \in CallType /\ c.pc = "unmap" /\ c.op = "recompile" /\ c.f = f
      /\ c.at = o
  BY <1>3 DEF CallType, Stages
<1> HIDE DEF c, o
<1>5. th' \in [Threads -> CallType] /\ th'[t] = c
      /\ \A u \in Threads \ {t} : th'[u] = th[u]
  BY <1>1, <1>4 DEF AInv, Types
<1>6. /\ used' \in [retries : Nat, recompiles : Nat, frees : Nat]
      /\ used'.recompiles # 0
  BY <1>1 DEF AInv, Types
<1>7. lock # t /\ th[t].pc # "recompile" /\ given' \subseteq Globals \X Locations
  BY <1>1, FreeFacts, IdleFields DEF AInv, Types
<1>8. InCall(t)'
  <2>1. Held(t)' = {o} BY <1>4, <1>5 DEF Held
  <2>2. \A b : b = o => Holding(th[t].f, b)'
    BY <1>1, <1>3, <1>4, <1>5 DEF Holding, LockFree, code
  <2> QED
    BY <1>1, <1>4, <1>5, <1>6, <2>1, <2>2, ProgramSame DEF InCall, RecompileCall
<1> QED BY <1>1, <1>4, <1>5, <1>6, <1>7, <1>8, CallOnly

(* The old mapping is deleted. *)
LEMMA DeleteMappingStep ==
  ASSUME AInv, UNCHANGED program, NEW t \in Threads, DeleteMapping(t)
  PROVE  AInv'
<1> USE ProgramSame
<1> DEFINE f == th[t].f
<1>1. /\ LockFree /\ lock = NoThread /\ th[t].pc = "unmap"
      /\ maps' = Enter(maps, f, Null) /\ Goto(t, "recompile")
      /\ UNCHANGED <<alive, mem, emitted, stubOf, callSites, pending, lock, job,
                     given, used>>
  BY DEF DeleteMapping, addGlobalMapping, code, LockFree
<1>2. /\ InCall(t) /\ f \in Globals /\ lock # t
      /\ th[t].op = "recompile" /\ f \in alive \ External
      /\ used.recompiles # 0 /\ th[t] # Idle
  BY <1>1, CallFacts, FreeFacts, IdleFields
     DEF InCall, GetCall, StubCall, RecompileCall
<1>3. /\ th' \in [Threads -> CallType]
      /\ \A u \in Threads \ {t} : th'[u] = th[u]
      /\ th'[t].pc = "recompile" /\ th'[t].op = th[t].op
      /\ th'[t].f = f /\ th'[t].at = th[t].at
  BY <1>1, GotoStep DEF AInv
<1>4. pending = <<>> /\ Queue = {} /\ Queue' = {} /\ ~Starting /\ ~Starting'
  BY <1>1, FreeFacts DEF Queue, Starting
<1> HIDE DEF f
<1>5. /\ maps' \in MapsType /\ maps'.fwd[f] = Null
      /\ \A g \in Globals \ {f} : maps'.fwd[g] = maps.fwd[g]
  <2>1. Null \in Locations /\ maps \in MapsType
    BY ProgramFacts DEF AInv, Types
  <2>2. /\ Enter(maps, f, Null) \in MapsType
        /\ Enter(maps, f, Null).fwd = [maps.fwd EXCEPT ![f] = Null]
    BY <1>2, <2>1, EnterMaps
  <2> QED BY <1>1, <1>2, <2>1, <2>2 DEF MapsType
<1>6. /\ Lookup(maps', f) = Null
      /\ \A g \in Globals \ {f} : Lookup(maps', g) = Lookup(maps, g)
  BY <1>5 DEF Lookup
<1>7. Types' BY <1>1, <1>3, <1>5 DEF AInv, Types, Calls
<1>8. Threading'
  <2>1. InCall(t)'
    <3>1. Held(t) = {th[t].at} /\ Held(t)' = {th[t].at}
      BY <1>1, <1>2, <1>3 DEF Held
    <3>2. \A b : b = th[t].at => Holding(th[t].f, b)'
      BY <1>1, <1>2, <1>3, <3>1 DEF Holding, InCall, f
    <3> QED
      BY <1>1, <1>2, <1>3, <3>1, <3>2 DEF InCall, RecompileCall, f
  <2>2. Holds(t)' <=> lock' = t BY <1>1, <1>2, <1>3 DEF Holds
  <2>3. ASSUME NEW u \in Threads \ {t}, th[u] # Idle PROVE Kept(u)
    BY <1>1, <1>2, <1>3, <1>6, <2>3, OthersKept DEF f
  <2> QED
    BY <1>1, <1>2, <1>3, <1>7, <2>1, <2>2, <2>3, ThreadStep DEF AInv, f
<1>9. Session' /\ Tables'
  BY <1>1, <1>4 DEF AInv, Session, Tables, NoCode
<1>10. Mapped'
  <2>1. Mapped BY DEF AInv
  <2>2. \A g \in Globals \ alive' : maps'.fwd[g] = Absent
    BY <1>1, <1>2, <1>5, <2>1 DEF Mapped
  <2>3. ASSUME NEW g \in Globals, Lookup(maps', g) # Null
        PROVE  \/ g \in External /\ Lookup(maps', g) = ExternalAddr[g]
               \/ g \in External /\ Lookup(maps', g) = stubOf[g]
               \/ /\ g \notin External /\ Lookup(maps', g) \in Memory
                  /\ mem[Lookup(maps', g)].fn = g
    <3>1. Lookup(maps', g) = Lookup(maps, g) BY <1>6, <2>3
    <3> QED BY <1>4, <2>1, <2>3, <3>1 DEF Mapped
  <2>4. \A g : g = f => Unmapped(g)' BY <1>3, <1>6 DEF Unmapped
  <2>5. \A g \in Globals \ {f} : Unmapped(g) => Unmapped(g)'
    BY <1>1, <1>3, <1>6 DEF Unmapped
  <2>6. ASSUME NEW g \in alive \ External
        PROVE  Lookup(maps', g) = emitted[g] \/ Unmapped(g)'
    BY <1>1, <1>6, <2>4, <2>5, <2>6, FreeFacts, ProgramFacts DEF AInv
  <2> QED BY <1>1, <2>2, <2>3, <2>6 DEF Mapped
<1>11. InverseMaps' /\ Single' BY <1>1, <1>2 DEF InverseMaps, Single
<1> QED BY <1>7, <1>8, <1>9, <1>10, <1>11 DEF AInv

(* The function is compiled again, whatever the map says of it meanwhile.    *)
LEMMA RunJITStep ==
  ASSUME AInv, UNCHANGED program, NEW t \in Threads, runJITOnFunction(t)
  PROVE  AInv'
<1> USE ProgramSame
<1> DEFINE f == th[t].f
<1>1. /\ LockFree /\ lock = NoThread /\ th[t].pc = "recompile"
      /\ lock' = t /\ job' = Job(f, FALSE) /\ Goto(t, "start")
      /\ UNCHANGED <<maps, alive, mem, emitted, stubOf, callSites, pending,
                     given, used>>
  BY DEF runJITOnFunction, code, LockFree
<1>2. /\ InCall(t) /\ f \in Globals /\ lock # t
      /\ th[t].op = "recompile" /\ f \in alive \ External
      /\ used.recompiles # 0 /\ th[t] # Idle
  BY <1>1, CallFacts, FreeFacts, IdleFields
     DEF InCall, GetCall, StubCall, RecompileCall
<1>3. /\ th' \in [Threads -> CallType]
      /\ \A u \in Threads \ {t} : th'[u] = th[u]
      /\ th'[t].pc = "start" /\ th'[t].op = th[t].op
      /\ th'[t].f = f /\ th'[t].at = th[t].at
  BY <1>1, GotoStep DEF AInv
<1>4. job' \in JobType /\ job'.f = f /\ job'.queued = FALSE
  BY <1>1, <1>2 DEF Job, NoJob, JobType
<1>5. t # NoThread /\ Starting'
  BY <1>1, <1>3, ProgramFacts DEF AInv, Starting
<1>6. pending = <<>> /\ Queue = {} /\ Queue' = {} /\ ~Starting
  BY <1>1, FreeFacts DEF Queue, Starting
<1> HIDE DEF f
<1>7. Types' BY <1>1, <1>3, <1>4 DEF AInv, Types, Calls
<1>8. Threading'
  <2>1. InCall(t)'
    <3>1. Held(t) = {th[t].at} /\ Held(t)' = {th[t].at}
      BY <1>1, <1>2, <1>3 DEF Held
    <3>2. \A b : b = th[t].at => Holding(th[t].f, b)'
      BY <1>1, <1>2, <1>3, <1>5, <3>1 DEF Holding, InCall, f
    <3> QED
      BY <1>1, <1>2, <1>3, <1>4, <3>1, <3>2 DEF InCall, RecompileCall, f
  <2>2. Holds(t)' <=> lock' = t BY <1>1, <1>3 DEF Holds
  <2>3. ASSUME NEW u \in Threads \ {t}, th[u] # Idle PROVE Kept(u)
    <3>1. InCall(u) /\ th[u].f \in alive'
      BY <1>1, <2>3 DEF AInv, Threading, InCall
    <3>2. th[u].pc \notin {"start", "emit"}
      BY <1>1, <2>3, FreeFacts DEF AInv, Threading, Holds
    <3>3. \A a \in Held(u) : Holding(th[u].f, a) => Holding(th[u].f, a)'
      BY <1>1, <1>3, <1>5 DEF Holding
    <3> QED BY <1>1, <1>2, <3>1, <3>2, <3>3 DEF Kept
  <2> QED
    BY <1>1, <1>2, <1>3, <1>7, <2>1, <2>2, <2>3, ThreadStep DEF AInv, f
<1>9. Session'
  BY <1>1, <1>2, <1>3, <1>4, <1>5, <1>6 DEF AInv, Session, f
<1>10. Tables' BY <1>1 DEF AInv, Tables, NoCode
<1>11. Mapped'
  <2>1. \A g \in Globals \ {f} : Unmapped(g) => Unmapped(g)'
    BY <1>1, <1>3 DEF Unmapped, f
  <2>2. \A g \in alive \ External :
          Lookup(maps, g) = emitted[g] \/ g = f \/ Unmapped(g)'
    BY <1>1, <2>1, FreeFacts, ProgramFacts DEF AInv
  <2> QED BY <1>1, <1>4, <1>5, <1>6, <2>2 DEF AInv, Mapped
<1>12. InverseMaps' /\ Single' BY <1>1, <1>2 DEF InverseMaps, Single
<1> QED BY <1>7, <1>8, <1>9, <1>10, <1>11, <1>12 DEF AInv

(* The address of the new code is looked up. *)
LEMMA FindNewCodeStep ==
  ASSUME AInv, UNCHANGED program, NEW t \in Threads, FindNewCode(t)
  PROVE  AInv'
<1> DEFINE f == th[t].f
           o == th[t].at
           a == Lookup(maps, f)
           c == [th[t] EXCEPT !.pc = "relink", !.at = <<o, a>>]
<1>1. /\ LockFree /\ th[t].pc = "find"
      /\ UNCHANGED <<maps, alive, code, lock, job, given, used>>
  BY DEF FindNewCode
<1>2. /\ InCall(t) /\ f \in Globals /\ lock # t
      /\ th[t].op = "recompile" /\ f \in alive \ External
      /\ used.recompiles # 0 /\ a # Null /\ emitted[f] # o
  BY <1>1, CallFacts, FreeFacts DEF InCall, GetCall, StubCall, RecompileCall
<1>3. Held(t) = {o} BY <1>1, <1>2 DEF Held
<1>4. Holding(f, o) /\ o \in Locations
  BY <1>2, <1>3, ProgramFacts DEF AInv, InCall, Holding
<1>5. a = emitted[f] BY <1>1, <1>2, FreeFacts
<1>6. a \in Memory /\ a \in Locations /\ mem[a].kind = "body" /\ mem[a].fn = f
      /\ mem[a].jump = Null
  BY <1>2, <1>5, ProgramFacts DEF AInv, Types, Tables
<1>7. th[t] \in CallType BY DEF AInv, Types
<1> HIDE DEF o, a
<1>8. c \in CallType /\ c.pc = "relink" /\ c.op = "recompile" /\ c.f = f
      /\ c.at = <<o, a>>
  BY <1>2, <1>4, <1>6, <1>7 DEF CallType, Stages
<1>9. th' = [th EXCEPT ![t] = c] BY DEF FindNewCode, a, o
<1> HIDE DEF c
<1>10. th' \in [Threads -> CallType] /\ th'[t] = c
       /\ \A u \in Threads \ {t} : th'[u] = th[u]
  BY <1>8, <1>9 DEF AInv, Types
<1>11. InCall(t)'
  <2>1. th'[t].at[1] = o /\ th'[t].at[2] = a BY <1>8, <1>10
  <2>2. Held(t)' = {o, a} BY <1>8, <1>10, <2>1 DEF Held
  <2>3. \A b : b \in {o, a} => Holding(f, b)'
    BY <1>1, <1>4, <1>6, <1>8, <1>10 DEF Holding, LockFree, code
  <2>4. RecompileCall(t)'
    BY <1>1, <1>2, <1>5, <1>6, <1>8, <1>10, <2>1, ProgramSame
       DEF RecompileCall, code
  <2> QED BY <1>1, <1>2, <1>8, <1>10, <2>2, <2>3, <2>4 DEF InCall
<1>12. given' \subseteq Globals \X Locations
       /\ used' \in [retries : Nat, recompiles : Nat, frees : Nat]
  BY <1>1 DEF AInv, Types
<1> QED BY <1>1, <1>2, <1>8, <1>10, <1>11, <1>12, CallOnly

(* Giving the code of a function back. *)
LEMMA DeallocFacts ==
  ASSUME Types, Tables, NEW f \in Globals, deallocateMemForFunction(f)
  PROVE  /\ mem' \in MemType /\ emitted' \in [Globals -> Memory \cup {Null}]
         /\ emitted'[f] = Null
         /\ \A g \in Globals \ {f} : emitted'[g] = emitted[g]
         /\ \A b \in Memory : b # emitted[f] => mem'[b] = mem[b]
         /\ \A b \in Memory : mem[b].fn # f => mem'[b] = mem[b]
         /\ \A b \in Memory : mem[b].kind = "stub" => mem'[b] = mem[b]
         /\ emitted[f] # Null => /\ mem'[emitted[f]].kind = "freed"
                                 /\ mem'[emitted[f]].fn = None
                                 /\ mem'[emitted[f]].jump = Null
<1> DEFINE n == Code("freed", None)
<1>1. /\ n.kind = "freed" /\ n.fn = None /\ n.jump = Null
      /\ n \in [kind : Kinds, fn : Globals \cup {None},
                calls : SUBSET (Globals \X Locations), done : BOOLEAN,
                jump : Locations \cup {Resolver}]
  BY DEF Code, Kinds, Locations
<1>2. /\ emitted' = [emitted EXCEPT ![f] = Null]
      /\ emitted[f] = Null => mem' = mem
      /\ emitted[f] # Null => mem' = [mem EXCEPT ![emitted[f]] = n]
  BY DEF deallocateMemForFunction
<1>3. /\ mem \in MemType /\ emitted \in [Globals -> Memory \cup {Null}]
      /\ Null \notin Memory
  BY ProgramFacts DEF Types
<1>4. emitted[f] # Null =>
        emitted[f] \in Memory /\ mem[emitted[f]].fn = f
        /\ mem[emitted[f]].kind = "body"
  BY <1>3 DEF Tables
<1> HIDE DEF n
<1>5. CASE emitted[f] = Null
  BY <1>2, <1>3, <1>5
<1>6. CASE emitted[f] # Null
  BY <1>1, <1>2, <1>3, <1>4, <1>6 DEF MemType
<1> QED BY <1>5, <1>6

(* Nothing of a function is left when a client frees its code. *)
LEMMA FreeStep ==
  ASSUME AInv, UNCHANGED program, NEW f \in Globals,
         freeMachineCodeForFunction(f)
  PROVE  AInv'
<1> USE ProgramSame
<1>1. /\ LockFree /\ \A u \in Threads : th[u] = Idle
      /\ f \in alive /\ emitted[f] # Null
      /\ maps' = updateGlobalMapping(maps, f, Null)
      /\ deallocateMemForFunction(f)
      /\ used' = [used EXCEPT !.frees = @ + 1]
      /\ given' = {p \in given : p[1] # f}
      /\ UNCHANGED <<alive, stubOf, callSites, pending, lock, job, th>>
  BY DEF freeMachineCodeForFunction, Alone
<1>2. Types /\ Tables /\ Mapped BY DEF AInv
<1>3. /\ mem' \in MemType /\ emitted' \in [Globals -> Memory \cup {Null}]
      /\ emitted'[f] = Null
      /\ \A g \in Globals \ {f} : emitted'[g] = emitted[g]
      /\ \A b \in Memory : b # emitted[f] => mem'[b] = mem[b]
      /\ \A b \in Memory : mem[b].fn # f => mem'[b] = mem[b]
      /\ \A b \in Memory : mem[b].kind = "stub" => mem'[b] = mem[b]
      /\ mem'[emitted[f]].kind = "freed"
      /\ mem'[emitted[f]].fn = None /\ mem'[emitted[f]].jump = Null
  BY <1>1, <1>2, DeallocFacts
<1>4. /\ maps' \in MapsType /\ maps'.fwd[f] = Absent
      /\ \A g \in Globals \ {f} : maps'.fwd[g] = maps.fwd[g]
  <2>1. /\ Null \in Locations /\ maps \in MapsType
    BY ProgramFacts DEF AInv, Types
  <2>2. /\ updateGlobalMapping(maps, f, Null) \in MapsType
        /\ updateGlobalMapping(maps, f, Null).fwd = [maps.fwd EXCEPT ![f] = Absent]
    BY <2>1, RemoveMaps DEF updateGlobalMapping
  <2> QED BY <1>1, <2>1, <2>2 DEF MapsType
<1>5. /\ Lookup(maps', f) = Null
      /\ \A g \in Globals \ {f} : Lookup(maps', g) = Lookup(maps, g)
  BY <1>4 DEF Lookup
<1>6. /\ used' \in [retries : Nat, recompiles : Nat, frees : Nat]
      /\ used'.recompiles = used.recompiles
  BY <1>1, <1>2 DEF Types
<1>7. Queue = {} /\ Queue' = {} /\ ~Starting /\ ~Starting'
  BY <1>1, FreeFacts DEF Starting, Queue
<1>8. Types' BY <1>1, <1>2, <1>3, <1>4, <1>6 DEF Types, Calls
<1>9. Threading' BY <1>1, IdleFields, NoThreadStep DEF AInv
<1>10. Session' BY <1>1, FreeFacts DEF AInv, Session, LockFree
<1>11. /\ f \in alive \ External /\ emitted[f] \in Memory
       /\ mem[emitted[f]].fn = f /\ mem[emitted[f]].kind = "body"
  BY <1>1, <1>2, ProgramFacts DEF Types, Tables
<1>12. Tables'
  <2>1. \A b \in Memory : b = emitted[f] \/ mem'[b] = mem[b] BY <1>3
  <2>2. ASSUME NEW b \in Memory
        PROVE  /\ (NoCode(b))' <=> mem'[b].fn = None
               /\ mem'[b].jump = Resolver => Lazily /\ mem'[b].fn \notin External
    BY <1>2, <1>3, <2>1, ProgramFacts DEF Tables, NoCode
  <2>3. ASSUME NEW g \in Globals, emitted'[g] # Null
        PROVE  /\ g \in alive \ External
               /\ mem'[emitted'[g]].kind = "body" /\ mem'[emitted'[g]].fn = g
               /\ mem'[emitted'[g]].jump = Null
    <3>1. g # f /\ emitted'[g] = emitted[g] BY <1>3, <2>3
    <3>2. emitted[g] \in Memory BY <1>2, <2>3, <3>1 DEF Types
    <3>3. mem'[emitted[g]] = mem[emitted[g]]
      BY <1>2, <1>3, <2>3, <3>1, <3>2 DEF Tables
    <3> QED BY <1>2, <2>3, <3>1, <3>3 DEF Tables
  <2>4. \A g \in Globals : stubOf[g] # Null =>
          stubOf[g] \in Memory /\ mem'[stubOf[g]] = mem[stubOf[g]]
    BY <1>2, <1>3 DEF Types, Tables
  <2>5. \A s \in callSites : s \in Memory /\ mem'[s] = mem[s]
    BY <1>2, <1>3 DEF Types, Tables
  <2> QED BY <1>1, <1>2, <2>2, <2>3, <2>4, <2>5 DEF Tables
<1>13. Mapped'
  <2>1. ASSUME NEW g \in Globals, Lookup(maps', g) # Null
        PROVE  \/ g \in External /\ Lookup(maps', g) = ExternalAddr[g]
               \/ g \in External /\ Lookup(maps', g) = stubOf[g]
               \/ /\ g \notin External /\ Lookup(maps', g) \in Memory
                  /\ mem'[Lookup(maps', g)].fn = g
    <3>1. g # f /\ Lookup(maps', g) = Lookup(maps, g) BY <1>5, <2>1
    <3> QED BY <1>2, <1>3, <1>7, <2>1, <3>1 DEF Mapped
  <2>2. \A g \in alive \ External : Lookup(maps', g) = emitted'[g]
    BY <1>1, <1>3, <1>5, FreeFacts, ProgramFacts, IdleFields DEF AInv, Unmapped
  <2> QED BY <1>1, <1>2, <1>4, <2>1, <2>2 DEF Mapped
<1>14. InverseMaps'
  <2> SUFFICES ASSUME used.recompiles = 0 PROVE OneToOne(maps')
    BY <1>6 DEF InverseMaps, OneToOne
  <2>1. OneToOne(maps) BY DEF AInv, InverseMaps, OneToOne
  <2> QED BY <1>1, <1>2, <2>1, UpdateOneToOne DEF Types, Locations
<1>15. Single'
  <2>1. \A b \in Memory : Body(b)' => Body(b) /\ b # emitted[f] /\ mem'[b] = mem[b]
    BY <1>3, <1>11 DEF Body
  <2>3. ASSUME NEW b \in Memory, ~FarStubs, used.recompiles = 0, Body(b)'
        PROVE  emitted'[mem'[b].fn] = b
    <3>1. emitted[mem[b].fn] = b /\ b # emitted[f] /\ mem'[b] = mem[b]
      BY <2>1, <2>3 DEF AInv, Single
    <3>2. mem[b].fn # f BY <3>1
    <3>3. mem[b].fn \in Globals
      <4>1. ~NoCode(b) BY <2>1, <2>3 DEF Body, NoCode
      <4>2. mem[b].fn \in Globals \cup {None} BY <1>2 DEF Types, MemType
      <4> QED BY <1>2, <4>1, <4>2 DEF Tables
    <3> QED BY <1>3, <3>1, <3>2, <3>3
  <2> QED BY <1>1, <1>6, <1>7, <2>3 DEF AInv, Single, LockFree
<1> QED BY <1>8, <1>9, <1>10, <1>12, <1>13, <1>14, <1>15 DEF AInv

(* Nothing refers to a function that has been deleted. *)
LEMMA DeleteStep ==
  ASSUME AInv, UNCHANGED program, NEW f \in Globals, DeleteFunction(f)
  PROVE  AInv'
<1> USE ProgramSame
<1>1. /\ LockFree /\ f \in alive
      /\ \A t \in Threads : th[t].f # f
      /\ \A g \in alive \ {f} : f \notin Calls[g]
      /\ alive' = alive \ {f} /\ given' = {p \in given : p[1] # f}
      /\ maps' = onDelete(maps, f)
      /\ deallocateMemForFunction(f)
      /\ stubOf' = [stubOf EXCEPT ![f] = Null]
      /\ callSites' = {s \in callSites : mem[s].fn # f}
      /\ UNCHANGED <<pending, lock, job, th, used>>
  BY DEF DeleteFunction, CallSitesWithout
<1>2. Types /\ Tables /\ Mapped BY DEF AInv
<1>3. /\ mem' \in MemType /\ emitted' \in [Globals -> Memory \cup {Null}]
      /\ emitted'[f] = Null
      /\ \A g \in Globals \ {f} : emitted'[g] = emitted[g]
      /\ \A b \in Memory : b # emitted[f] => mem'[b] = mem[b]
      /\ \A b \in Memory : mem[b].fn # f => mem'[b] = mem[b]
      /\ \A b \in Memory : mem[b].kind = "stub" => mem'[b] = mem[b]
      /\ emitted[f] # Null => /\ mem'[emitted[f]].kind = "freed"
                              /\ mem'[emitted[f]].fn = None
                              /\ mem'[emitted[f]].jump = Null
  BY <1>1, <1>2, DeallocFacts
<1>4. /\ maps' \in MapsType /\ maps'.fwd[f] = Absent
      /\ \A g \in Globals \ {f} : maps'.fwd[g] = maps.fwd[g]
  <2>1. maps \in MapsType BY DEF AInv, Types
  <2>2. /\ onDelete(maps, f) \in MapsType
        /\ onDelete(maps, f).fwd = [maps.fwd EXCEPT ![f] = Absent]
    BY <2>1, OnDeleteMaps
  <2> QED BY <1>1, <2>1, <2>2 DEF MapsType
<1>5. /\ Lookup(maps', f) = Null
      /\ \A g \in Globals \ {f} : Lookup(maps', g) = Lookup(maps, g)
  BY <1>4 DEF Lookup
<1>6. /\ stubOf' \in [Globals -> Memory \cup {Null}] /\ stubOf'[f] = Null
      /\ \A g \in Globals \ {f} : stubOf'[g] = stubOf[g]
  BY <1>1, <1>2 DEF Types
<1>7. Queue = {} /\ Queue' = {} /\ ~Starting /\ ~Starting'
  BY <1>1, FreeFacts DEF Starting, Queue
<1>8. Types' BY <1>1, <1>2, <1>3, <1>4, <1>6 DEF Types, Calls
<1>9. Threading'
  <2>1. ASSUME NEW u \in Threads, th[u] # Idle PROVE Kept(u)
    <3>1. InCall(u) /\ th[u].f \in alive /\ th[u].f # f
      BY <1>1, <2>1 DEF AInv, Threading, InCall
    <3>2. th[u].f \in Globals \ {f} BY <3>1, ProgramFacts DEF AInv
    <3>3. \A a \in Held(u) : Holding(th[u].f, a) => Holding(th[u].f, a)'
      BY <1>1, <1>3, <3>1 DEF Holding, LockFree
    <3>4. th[u].pc = "relink" /\ th[u].op = "recompile" =>
            mem'[th[u].at[2]] = mem[th[u].at[2]]
      BY <1>3, <3>1, RelinkFacts DEF Holding
    <3>5. emitted'[th[u].f] = emitted[th[u].f] BY <1>3, <3>2
    <3>6. stubOf'[th[u].f] = stubOf[th[u].f] BY <1>6, <3>2
    <3>7. Lookup(maps', th[u].f) = Lookup(maps, th[u].f) BY <1>5, <3>2
    <3>8. th[u].op = "recompile" => used.recompiles # 0
      BY <3>1 DEF InCall, GetCall, StubCall, RecompileCall
    <3> QED
      BY <1>1, <3>1, <3>2, <3>3, <3>4, <3>5, <3>6, <3>7, <3>8 DEF Kept
  <2> QED BY <1>1, <2>1, NoThreadStep DEF AInv
<1>10. Session' BY <1>1, FreeFacts DEF AInv, Session, LockFree
<1>11. emitted[f] # Null => /\ f \in alive \ External /\ emitted[f] \in Memory
                            /\ mem[emitted[f]].fn = f
                            /\ mem[emitted[f]].kind = "body"
  BY <1>1, <1>2, ProgramFacts DEF Types, Tables
<1>12. Tables'
  <2>0. \A g \in alive' : Calls[g] \subseteq alive'
    BY <1>1, <1>2 DEF Tables
  <2>1. \A b \in Memory : b = emitted[f] \/ mem'[b] = mem[b] BY <1>3
  <2>2. ASSUME NEW b \in Memory
        PROVE  /\ (NoCode(b))' <=> mem'[b].fn = None
               /\ mem'[b].jump = Resolver => Lazily /\ mem'[b].fn \notin External
    BY <1>2, <1>3, <2>1, ProgramFacts DEF Tables, NoCode
  <2>3. ASSUME NEW g \in Globals, emitted'[g] # Null
        PROVE  /\ g \in alive' \ External
               /\ mem'[emitted'[g]].kind = "body" /\ mem'[emitted'[g]].fn = g
               /\ mem'[emitted'[g]].jump = Null
    <3>1. g # f /\ emitted'[g] = emitted[g] BY <1>3, <2>3
    <3>2. emitted[g] \in Memory BY <1>2, <2>3, <3>1 DEF Types
    <3>3. mem'[emitted[g]] = mem[emitted[g]]
      BY <1>2, <1>3, <2>3, <3>1, <3>2 DEF Tables
    <3> QED BY <1>1, <1>2, <2>3, <3>1, <3>3 DEF Tables
  <2>4. ASSUME NEW g \in Globals, stubOf'[g] # Null
        PROVE  /\ g \in alive'
               /\ mem'[stubOf'[g]].kind = "stub" /\ mem'[stubOf'[g]].fn = g
    <3>1. g # f /\ stubOf'[g] = stubOf[g] BY <1>6, <2>4
    <3> QED BY <1>1, <1>2, <1>3, <2>4, <3>1 DEF Types, Tables
  <2>5. ASSUME NEW s \in callSites'
        PROVE  /\ mem'[s].kind = "stub" /\ mem'[s].fn \in alive'
               /\ stubOf'[mem'[s].fn] = s
    <3>1. s \in callSites /\ s \in Memory /\ mem[s].fn # f
      BY <1>1, <1>2, <2>5 DEF Types
    <3>2. mem'[s] = mem[s] BY <1>3, <3>1
    <3>3. mem[s].fn \in alive /\ mem[s].kind = "stub" /\ stubOf[mem[s].fn] = s
      BY <1>2, <3>1 DEF Tables
    <3>4. mem[s].fn \in Globals \ {f} BY <3>1, <3>3, ProgramFacts DEF AInv
    <3> QED BY <1>1, <1>6, <3>1, <3>2, <3>3, <3>4
  <2> QED BY <2>0, <2>2, <2>3, <2>4, <2>5 DEF Tables
<1>13. Mapped'
  <2>1. ASSUME NEW g \in Globals, Lookup(maps', g) # Null
        PROVE  \/ g \in External /\ Lookup(maps', g) = ExternalAddr[g]
               \/ g \in External /\ Lookup(maps', g) = stubOf'[g]
               \/ /\ g \notin External /\ Lookup(maps', g) \in Memory
                  /\ mem'[Lookup(maps', g)].fn = g
    <3>1. g # f /\ Lookup(maps', g) = Lookup(maps, g) BY <1>5, <2>1
    <3> QED BY <1>2, <1>3, <1>6, <1>7, <2>1, <3>1 DEF Mapped
  <2>2. ASSUME NEW g \in alive' \ External
        PROVE  Lookup(maps', g) = emitted'[g] \/ Unmapped(g)'
    <3>1. g \in alive \ External /\ g \in Globals \ {f}
      BY <1>1, <2>2, ProgramFacts DEF AInv
    <3>2. Unmapped(g) => Unmapped(g)' BY <1>1, <1>5, <3>1 DEF Unmapped
    <3> QED BY <1>1, <1>3, <1>5, <3>1, <3>2, FreeFacts
  <2>3. \A g \in Globals \ alive' : maps'.fwd[g] = Absent
    BY <1>1, <1>2, <1>4 DEF Mapped
  <2> QED BY <2>1, <2>2, <2>3 DEF Mapped
<1>14. InverseMaps'
  <2> SUFFICES ASSUME used.recompiles = 0 PROVE OneToOne(maps')
    BY <1>1 DEF InverseMaps, OneToOne
  <2>1. OneToOne(maps) BY DEF AInv, InverseMaps, OneToOne
  <2> QED BY <1>1, <1>2, <2>1, OnDeleteOneToOne DEF Types
<1>15. Single'
  <2>1. ASSUME NEW b \in Memory, Body(b)'
        PROVE  Body(b) /\ b # emitted[f] /\ mem'[b] = mem[b]
    <3>1. b # Null BY <1>2, ProgramFacts
    <3>2. b # emitted[f] BY <1>3, <2>1, <3>1 DEF Body
    <3> QED BY <1>3, <2>1, <3>2 DEF Body
  <2>3. ASSUME NEW b \in Memory, ~FarStubs, used.recompiles = 0, Body(b)'
        PROVE  emitted'[mem'[b].fn] = b
    <3>1. emitted[mem[b].fn] = b /\ b # emitted[f] /\ mem'[b] = mem[b]
      BY <2>1, <2>3 DEF AInv, Single
    <3>2. mem[b].fn # f BY <3>1
    <3>3. mem[b].fn \in Globals
      <4>1. ~NoCode(b) BY <2>1, <2>3 DEF Body, NoCode
      <4>2. mem[b].fn \in Globals \cup {None} BY <1>2 DEF Types, MemType
      <4> QED BY <1>2, <4>1, <4>2 DEF Tables
    <3> QED BY <1>3, <3>1, <3>2, <3>3
  <2> QED BY <1>1, <1>7, <2>3 DEF AInv, Single, LockFree
<1> QED BY <1>8, <1>9, <1>10, <1>12, <1>13, <1>14, <1>15 DEF AInv

-----------------------------------------------------------------------------
(* The work list as a set. *)
LEMMA QueueAppend ==
  ASSUME pending \in Seq(Globals), NEW g \in Globals,
         pending' = Append(pending, g)
  PROVE  /\ pending' \in Seq(Globals) /\ Queue' = Queue \cup {g}
         /\ Len(pending') = Len(pending) + 1 /\ pending'[Len(pending) + 1] = g
         /\ \A i \in 1..Len(pending) : pending'[i] = pending[i]
<1>1. /\ pending' \in Seq(Globals)
      /\ Len(pending') = Len(pending) + 1 /\ pending'[Len(pending) + 1] = g
      /\ \A i \in 1..Len(pending) : pending'[i] = pending[i]
  OBVIOUS
<1>2. Len(pending) \in Nat OBVIOUS
<1>3. Queue' = Queue \cup {g} BY <1>1, <1>2 DEF Queue
<1> QED BY <1>1, <1>3

LEMMA QueuePop ==
  ASSUME pending \in Seq(Globals), pending # <<>>,
         pending' = SubSeq(pending, 1, Len(pending) - 1)
  PROVE  /\ pending' \in Seq(Globals) /\ pending[Len(pending)] \in Globals
         /\ Queue = Queue' \cup {pending[Len(pending)]}
         /\ Len(pending') = Len(pending) - 1 /\ Len(pending) \in Nat \ {0}
         /\ \A i \in 1..(Len(pending) - 1) : pending'[i] = pending[i]
<1> DEFINE n == Len(pending)
<1>0. n \in Nat \ {0} OBVIOUS
<1> HIDE DEF n
<1>1. /\ pending' \in Seq(Globals) /\ pending[Len(pending)] \in Globals
      /\ Len(pending') = Len(pending) - 1 /\ Len(pending) \in Nat \ {0}
      /\ \A i \in 1..(Len(pending) - 1) : pending'[i] = pending[i]
  <2>1. pending' = SubSeq(pending, 1, n - 1) /\ pending \in [1..n -> Globals]
    BY DEF n
  <2>2. pending' = [i \in 1..(n - 1) |-> pending[i]] BY <1>0, <2>1
  <2>a. \A i \in 1..(n - 1) : pending[i] \in Globals BY <1>0, <2>1
  <2>3. pending' \in [1..(n - 1) -> Globals] BY <2>2, <2>a, Zenon
  <2>4. pending' \in Seq(Globals) /\ Len(pending') = n - 1
    BY <1>0, <2>2, <2>3
  <2> QED BY <1>0, <2>1, <2>2, <2>4 DEF n
<1>2. Queue = Queue' \cup {pending[Len(pending)]} BY <1>1 DEF Queue
<1> QED BY <1>1, <1>2

(* Resolving a relocation. *)
LEMMA RelocateFacts ==
  ASSUME job \in JobType, NEW g \in job.todo, NEW a \in Locations, Relocate(g, a)
  PROVE  /\ job' \in JobType /\ job'.f = job.f /\ job'.queued = job.queued
         /\ job'.calls = job.calls \cup {<<g, a>>} /\ job'.todo = job.todo \ {g}
         /\ job'.todo \cup {c[1] : c \in job'.calls}
              = job.todo \cup {c[1] : c \in job.calls}
<1>1. g \in Globals BY DEF JobType
<1> DEFINE todo == job.todo \ {g}
           calls == job.calls \cup {<<g, a>>}
<1>2. /\ job' \in JobType /\ job'.f = job.f /\ job'.queued = job.queued
      /\ job'.calls = job.calls \cup {<<g, a>>} /\ job'.todo = job.todo \ {g}
  <2>1. todo \in SUBSET Globals /\ calls \in SUBSET (Globals \X Locations)
    BY <1>1 DEF JobType
  <2>2. job' = [job EXCEPT !.todo = todo, !.calls = calls] BY DEF Relocate
  <2> HIDE DEF todo, calls
  <2>3. /\ job' \in JobType /\ job'.f = job.f /\ job'.queued = job.queued
        /\ job'.calls = calls /\ job'.todo = todo
    BY <2>1, <2>2 DEF JobType
  <2> QED BY <2>3 DEF todo, calls
<1>3. {c[1] : c \in calls} = {c[1] : c \in job.calls} \cup {g}
  <2>1. <<g, a>>[1] = g /\ <<g, a>> \in calls OBVIOUS
  <2>2. \A c \in calls : c \in job.calls \/ c = <<g, a>> OBVIOUS
  <2>3. job.calls \subseteq calls OBVIOUS
  <2> HIDE DEF calls
  <2> QED BY <2>1, <2>2, <2>3
<1> QED BY <1>2, <1>3

(* A step of the compilation that moves no thread. *)
LEMMA SameCalls ==
  ASSUME AInv, UNCHANGED <<program, th, lock, alive, emitted, used>>,
         job'.f = job.f, job'.queued = job.queued,
         \A f \in Globals : stubOf[f] # Null => stubOf'[f] = stubOf[f],
         \A f \in Globals : Lookup(maps, f) # Null => Lookup(maps', f) # Null,
         \A b \in Memory : mem[b].kind = "body" =>
           /\ mem'[b].kind = "body" /\ mem'[b].fn = mem[b].fn
           /\ mem'[b].jump = mem[b].jump
  PROVE  Threading'
<1>1. ASSUME NEW u \in Threads, th[u] # Idle PROVE Kept(u)
  <2>1. InCall(u) /\ th[u].f \in Globals
    BY <1>1, ProgramFacts DEF AInv, Threading, InCall
  <2>2. Starting' <=> Starting BY DEF Starting
  <2>3. \A a : Holding(th[u].f, a) => Holding(th[u].f, a)'
    BY <2>2 DEF Holding
  <2>4. th[u].op = "stub" => stubOf'[th[u].f] = stubOf[th[u].f]
    BY <2>1 DEF InCall, GetCall, StubCall, RecompileCall
  <2>5. th[u].op = "recompile" => used.recompiles # 0
    BY <2>1 DEF InCall, GetCall, StubCall, RecompileCall
  <2>6. th[u].pc = "relink" => mem'[th[u].at[2]].jump = mem[th[u].at[2]].jump
    BY <2>1, RelinkFacts DEF Holding
  <2> QED BY <2>1, <2>3, <2>4, <2>5, <2>6 DEF Kept, InCall
<1> QED BY <1>1, NoThreadStep DEF AInv

(* What the compiling thread knows of its job. *)
LEMMA JobFacts ==
  ASSUME AInv, NEW t \in Threads, th[t].pc \in {"start", "emit"}
  PROVE  /\ lock = t /\ t # NoThread /\ InCall(t) /\ th[t].op # "none"
         /\ Starting <=> th[t].pc = "start"
         /\ job.f \in alive \ External /\ job.f \in Globals
         /\ th[t].f \in alive \ External /\ th[t].f \in Globals
<1>1. lock = t /\ t # NoThread /\ InCall(t)
  BY CallFacts, ProgramFacts DEF Holds, AInv, Threading
<1>2. Starting <=> th[t].pc = "start" BY <1>1 DEF Starting
<1>3. /\ job.f \in alive \ External /\ job.f \in Globals
      /\ th[t].f \in alive \ External /\ th[t].f \in Globals
  BY <1>1, ProgramFacts DEF AInv, Session, InCall
<1>4. th[t].op # "none"
  BY <1>1 DEF InCall, GetCall, StubCall, RecompileCall
<1> QED BY <1>1, <1>2, <1>3, <1>4

(* Resolving a relocation without a new stub. *)
LEMMA EmitDirectCallStep ==
  ASSUME AInv, UNCHANGED program, ExternalsDiffer,
         NEW t \in Threads, NEW g \in Globals, EmitDirectCall(t, g)
  PROVE  AInv'
<1> USE ProgramSame
<1>1. /\ th[t].pc = "emit" /\ g \in job.todo
      /\ UNCHANGED <<alive, mem, emitted, stubOf, callSites, pending, lock, th,
                     given, used>>
  BY DEF EmitDirectCall, code
<1>2. lock = t /\ t # NoThread /\ ~Starting /\ job.f \in alive
  BY <1>1, JobFacts
<1>3. g \in alive /\ job \in JobType
  BY <1>1, <1>2 DEF AInv, Session, Tables, Types
<1>4. \E a \in Locations :
        /\ Relocate(g, a)
        /\ maps' = maps \/ (g \in External /\ maps' = Resolve(g))
  <2>1. CASE stubOf[g] # Null /\ Relocate(g, stubOf[g]) /\ UNCHANGED maps
    BY <2>1, ProgramFacts DEF AInv, Types
  <2>2. CASE Relocate(g, Lookup(maps, g)) /\ UNCHANGED maps
    BY <2>2, LookupType DEF AInv, Types
  <2>3. CASE g \in External /\ maps' = Resolve(g) /\ Relocate(g, ExternalAddr[g])
    BY <2>3, ProgramFacts DEF AInv
  <2> QED BY <2>1, <2>2, <2>3 DEF EmitDirectCall
<1>5. /\ job' \in JobType /\ job'.f = job.f /\ job'.queued = job.queued
      /\ job'.todo \cup {c[1] : c \in job'.calls}
           = job.todo \cup {c[1] : c \in job.calls}
  BY <1>1, <1>3, <1>4, RelocateFacts
<1>6. Queue' = Queue /\ ~Starting' BY <1>1, <1>2 DEF Queue, Starting
<1>7. maps' \in MapsType /\ Mapped' /\ InverseMaps'
  <2>1. Types /\ Mapped /\ InverseMaps BY DEF AInv
  <2>2. CASE maps' = maps
    <3>1. \A f : Unmapped(f)' <=> Unmapped(f) BY <1>1, <2>2 DEF Unmapped
    <3> QED BY <1>1, <1>2, <1>6, <2>1, <2>2, <3>1 DEF Types, Mapped, InverseMaps
  <2>3. CASE g \in External /\ maps' = Resolve(g)
    BY <1>1, <1>2, <1>3, <1>6, <2>1, <2>3, ResolveMapped
  <2> QED BY <1>4, <2>2, <2>3
<1>8. Types' BY <1>1, <1>5, <1>7 DEF AInv, Types, Calls
<1>13. \A f \in Globals : Lookup(maps, f) # Null => Lookup(maps', f) # Null
  <2>1. Types /\ Mapped /\ InverseMaps BY DEF AInv
  <2>2. g \in External /\ maps' = Resolve(g) =>
          \A f \in Globals : Lookup(maps, f) # Null => Lookup(maps', f) # Null
    BY <2>1, ResolveFacts
  <2> QED BY <1>4, <2>2
<1>9. Threading' BY <1>1, <1>5, <1>13, SameCalls
<1>10. Session'
  <2>1. /\ Lookup(maps, th[t].f) # Null => Lookup(maps', th[t].f) # Null
        /\ Lookup(maps, job.f) # Null => Lookup(maps', job.f) # Null
    BY <1>1, <1>13, JobFacts
  <2> QED BY <1>1, <1>2, <1>5, <1>6, <2>1 DEF AInv, Session
<1>11. Tables' BY <1>1 DEF AInv, Tables, NoCode
<1>12. Single' BY <1>1, <1>5, <1>6 DEF AInv, Single, Body
<1> QED BY <1>7, <1>8, <1>9, <1>10, <1>11, <1>12 DEF AInv

-----------------------------------------------------------------------------
(* What emitting a stub does to the tables. *)
StubJump(g) == IF g \in External THEN ExternalAddr[g]
               ELSE IF Lazily THEN Resolver ELSE Null
StubEmitted(g, s) ==
  /\ NoCode(s) /\ stubOf[g] = Null /\ emitted' = emitted
  /\ mem' \in MemType
  /\ \A b \in Memory \ {s} : mem'[b] = mem[b]
  /\ mem'[s].kind = "stub" /\ mem'[s].fn = g /\ mem'[s].calls = {}
  /\ mem'[s].done = FALSE
  /\ mem'[s].jump = StubJump(g)
  /\ g \in External => StubJump(g) # Null
  /\ stubOf' \in [Globals -> Memory \cup {Null}] /\ stubOf'[g] = s
  /\ \A h \in Globals \ {g} : stubOf'[h] = stubOf[h]
  /\ callSites \subseteq callSites' /\ callSites' \subseteq callSites \cup {s}
  /\ Lazily => s \in callSites'
  /\ maps' \in MapsType
  /\ \A h \in Globals \ {g} : maps'.fwd[h] = maps.fwd[h]
                              /\ Lookup(maps', h) = Lookup(maps, h)
  /\ IF StubJump(g) = Resolver THEN maps' = maps ELSE Lookup(maps', g) = s
  /\ used.recompiles = 0 => OneToOne(maps')

LEMMA EmitStubFacts ==
  ASSUME Types, Tables, Mapped, InverseMaps, ExternalsDiffer, ~Starting,
         NEW g \in alive, NEW s \in Memory, EmitStub(g, s)
  PROVE  StubEmitted(g, s)
<1> DEFINE R == Resolve(g)
           actual == IF g \in External THEN Lookup(R, g)
                     ELSE IF Lazily THEN Resolver ELSE Null
           n == [Code("stub", g) EXCEPT !.jump = actual]
           M == IF g \in External THEN R ELSE maps
<1>1. /\ stubOf[g] = Null /\ NoCode(s) /\ (g \in External => actual # Null)
      /\ mem' = [mem EXCEPT ![s] = n] /\ stubOf' = [stubOf EXCEPT ![g] = s]
      /\ maps' = IF actual = Resolver THEN maps ELSE updateGlobalMapping(M, g, s)
      /\ callSites' = AddCallSite(s) /\ emitted' = emitted
  BY DEF EmitStub, MayAllocate, NoCode
<1>2. /\ g \in Globals /\ s \in Locations /\ s # Null /\ Null \in Locations
      /\ Resolver \notin Locations /\ maps \in MapsType
      /\ stubOf \in [Globals -> Memory \cup {Null}] /\ mem \in MemType
      /\ Null \notin Memory /\ None \notin Globals /\ s \in Addrs
  BY ProgramFacts DEF Types
<1>3. ASSUME g \in External
      PROVE  /\ R \in MapsType
             /\ \A h \in Globals \ {g} : R.fwd[h] = maps.fwd[h]
                                         /\ Lookup(R, h) = Lookup(maps, h)
             /\ used.recompiles = 0 => OneToOne(R)
             /\ Lookup(R, g) = ExternalAddr[g]
  <2>1. /\ R \in MapsType
        /\ \A h \in Globals \ {g} : R.fwd[h] = maps.fwd[h]
                                    /\ Lookup(R, h) = Lookup(maps, h)
        /\ Lookup(maps, g) # Null => R = maps
        /\ Lookup(maps, g) = Null => Lookup(R, g) = ExternalAddr[g]
        /\ used.recompiles = 0 => OneToOne(R)
    BY <1>3, ResolveFacts
  <2>2. Lookup(maps, g) # Null => Lookup(maps, g) = ExternalAddr[g]
    BY <1>1, <1>2, <1>3 DEF Mapped
  <2> QED BY <2>1, <2>2
<1>4. actual = StubJump(g) /\ actual \in Locations \cup {Resolver}
      /\ (g \in External => actual \in Locations)
  <2>1. g \in External => ExternalAddr[g] \in Locations BY ProgramFacts
  <2> HIDE DEF R
  <2> QED BY <1>2, <1>3, <2>1 DEF StubJump, R
<1> HIDE DEF R, actual
<1>5. /\ n \in [kind : Kinds, fn : Globals \cup {None},
                calls : SUBSET (Globals \X Locations), done : BOOLEAN,
                jump : Locations \cup {Resolver}]
      /\ n.kind = "stub" /\ n.fn = g /\ n.calls = {} /\ n.done = FALSE
      /\ n.jump = actual
  BY <1>2, <1>4 DEF Code, Kinds
<1> HIDE DEF n
<1>6. /\ mem' \in MemType /\ mem'[s] = n
      /\ \A b \in Memory \ {s} : mem'[b] = mem[b]
  BY <1>1, <1>2, <1>5 DEF MemType
<1>7. /\ stubOf' \in [Globals -> Memory \cup {Null}] /\ stubOf'[g] = s
      /\ \A h \in Globals \ {g} : stubOf'[h] = stubOf[h]
  BY <1>1, <1>2
<1>8. /\ callSites \subseteq callSites' /\ callSites' \subseteq callSites \cup {s}
      /\ Lazily => s \in callSites'
  BY <1>1 DEF AddCallSite
<1>9. /\ M \in MapsType
      /\ \A h \in Globals \ {g} : M.fwd[h] = maps.fwd[h]
                                  /\ Lookup(M, h) = Lookup(maps, h)
      /\ used.recompiles = 0 => OneToOne(M)
  BY <1>2, <1>3 DEF InverseMaps, OneToOne
<1> HIDE DEF M
<1>10. \A h \in Globals \ {g} : M.fwd[h] # s
  <2> SUFFICES ASSUME NEW h \in Globals \ {g}, M.fwd[h] = s PROVE FALSE
    OBVIOUS
  <2>1. Lookup(maps, h) = s BY <1>2, <1>9, LookupType
  <2>2. mem[s].fn = None BY <1>1 DEF Tables
  <2>3. mem[s].kind # "stub" BY <1>1 DEF NoCode
  <2>4. h \in External => ExternalAddr[h] \notin Memory BY ProgramFacts
  <2>5. \/ h \in External /\ s = ExternalAddr[h]
        \/ h \in External /\ s = stubOf[h]
        \/ mem[s].fn = h
    BY <1>2, <2>1 DEF Mapped
  <2> QED BY <1>2, <2>2, <2>3, <2>4, <2>5 DEF Tables
<1>11. /\ maps' \in MapsType
       /\ \A h \in Globals \ {g} : maps'.fwd[h] = maps.fwd[h]
       /\ IF actual = Resolver THEN maps' = maps ELSE Lookup(maps', g) = s
       /\ used.recompiles = 0 => OneToOne(maps')
  <2>1. CASE actual = Resolver
    BY <1>1, <1>2, <2>1 DEF InverseMaps, OneToOne
  <2>2. CASE actual # Resolver
    <3> DEFINE U == updateGlobalMapping(M, g, s)
    <3>1. U \in MapsType /\ U.fwd = [M.fwd EXCEPT ![g] = s]
      BY <1>2, <1>9, UpdateMaps
    <3>2. used.recompiles = 0 => OneToOne(U)
      BY <1>2, <1>9, <1>10, UpdateOneToOne
    <3>3. maps' = U BY <1>1, <2>2
    <3> HIDE DEF U
    <3>4. U.fwd[g] = s /\ \A h \in Globals \ {g} : U.fwd[h] = M.fwd[h]
      BY <1>2, <1>9, <3>1 DEF MapsType
    <3>5. Lookup(U, g) = s
      BY <1>2, <3>1, <3>4, LookupType
    <3> QED BY <1>9, <2>2, <3>1, <3>2, <3>3, <3>4, <3>5
  <2> QED BY <2>1, <2>2
<1>12. \A h \in Globals \ {g} : Lookup(maps', h) = Lookup(maps, h)
  BY <1>11 DEF Lookup
<1> QED
  BY <1>1, <1>4, <1>5, <1>6, <1>7, <1>8, <1>11, <1>12 DEF StubEmitted

(* A new stub keeps the tables and the mappings in order. *)
LEMMA StubTables ==
  ASSUME Types, Tables, Mapped, UNCHANGED <<program, alive, used>>,
         ~Starting, ~Starting',
         NEW g \in alive, NEW s \in Memory, StubEmitted(g, s),
         Queue \subseteq Queue', \A f \in Queue : stubOf[f] # Null,
         g \in External \/ Lazily \/ g \in Queue',
         \A u \in Threads : th[u].pc = "recompile" => th'[u] = th[u]
  PROVE  Tables' /\ Mapped' /\ InverseMaps'
<1> USE ProgramSame
<1>1. /\ g \in Globals /\ Null \notin Memory /\ Resolver \notin Locations
      /\ s # Null /\ None \notin Globals /\ Null # Resolver
  BY ProgramFacts
<1>2. /\ NoCode(s) /\ stubOf[g] = Null /\ emitted' = emitted
      /\ \A b \in Memory \ {s} : mem'[b] = mem[b]
      /\ mem'[s].kind = "stub" /\ mem'[s].fn = g
      /\ mem'[s].jump = StubJump(g)
      /\ stubOf'[g] = s /\ \A h \in Globals \ {g} : stubOf'[h] = stubOf[h]
      /\ callSites' \subseteq callSites \cup {s}
      /\ \A h \in Globals \ {g} : maps'.fwd[h] = maps.fwd[h]
                                  /\ Lookup(maps', h) = Lookup(maps, h)
      /\ IF StubJump(g) = Resolver THEN maps' = maps ELSE Lookup(maps', g) = s
      /\ used.recompiles = 0 => OneToOne(maps')
  BY DEF StubEmitted
<1>3. /\ emitted \in [Globals -> Memory \cup {Null}]
      /\ stubOf \in [Globals -> Memory \cup {Null}] /\ callSites \subseteq Memory
  BY DEF Types
<1>4. /\ \A h \in Globals : emitted[h] # s /\ stubOf[h] # s
      /\ s \notin callSites
  BY <1>1, <1>2 DEF Tables, NoCode
<1>5. StubJump(g) = Resolver => Lazily /\ g \notin External
  <2>1. g \in External => ExternalAddr[g] \in Locations BY ProgramFacts
  <2> QED BY <1>1, <2>1 DEF StubJump
<1>6. Tables'
  <2>1. ASSUME NEW b \in Memory
        PROVE  /\ (NoCode(b))' <=> mem'[b].fn = None
               /\ mem'[b].jump = Resolver => Lazily /\ mem'[b].fn \notin External
    <3>1. CASE b = s BY <1>1, <1>2, <1>5, <3>1 DEF NoCode
    <3>2. CASE b # s BY <1>2, <3>2 DEF Tables, NoCode
    <3> QED BY <3>1, <3>2
  <2>2. \A h \in Globals : emitted[h] # Null =>
          mem'[emitted[h]] = mem[emitted[h]]
    BY <1>2, <1>3, <1>4
  <2>3. \A h \in Globals : h # g /\ stubOf[h] # Null =>
          mem'[stubOf[h]] = mem[stubOf[h]]
    BY <1>2, <1>3, <1>4
  <2>4. ASSUME NEW h \in Globals, stubOf'[h] # Null
        PROVE  /\ h \in alive
               /\ mem'[stubOf'[h]].kind = "stub" /\ mem'[stubOf'[h]].fn = h
    <3>1. CASE h = g BY <1>2, <3>1
    <3>2. CASE h # g BY <1>2, <2>3, <2>4, <3>2 DEF Tables
    <3> QED BY <3>1, <3>2
  <2>5. ASSUME NEW c \in callSites'
        PROVE  /\ mem'[c].kind = "stub" /\ mem'[c].fn \in alive
               /\ stubOf'[mem'[c].fn] = c
    <3>1. CASE c = s BY <1>2, <3>1
    <3>2. CASE c # s
      <4>1. c \in callSites /\ c \in Memory BY <1>2, <1>3, <3>2
      <4>2. mem'[c] = mem[c] BY <1>2, <3>2, <4>1
      <4>3. mem[c].fn \in alive /\ stubOf[mem[c].fn] = c /\ mem[c].kind = "stub"
        BY <4>1 DEF Tables
      <4>4. mem[c].fn # g /\ mem[c].fn \in Globals
        BY <1>1, <1>2, <4>1, <4>3, ProgramFacts
      <4> QED BY <1>2, <4>2, <4>3, <4>4
    <3> QED BY <3>1, <3>2
  <2> QED BY <1>2, <2>1, <2>2, <2>4, <2>5 DEF Tables
<1>7. Mapped'
  <2>1. ASSUME NEW h \in Globals \ {g}, Lookup(maps', h) # Null
        PROVE  \/ h \in External /\ Lookup(maps', h) = ExternalAddr[h]
               \/ h \in External /\ Lookup(maps', h) = stubOf'[h]
               \/ /\ h \notin External /\ Lookup(maps', h) \in Memory
                  /\ mem'[Lookup(maps', h)].fn = h
    <3> DEFINE a == Lookup(maps, h)
    <3>1. Lookup(maps', h) = a /\ a # Null /\ stubOf'[h] = stubOf[h]
      BY <1>2, <2>1
    <3> HIDE DEF a
    <3>2. \/ h \in External /\ a = ExternalAddr[h]
          \/ h \in External /\ a = stubOf[h]
          \/ h \notin External /\ a \in Memory /\ mem[a].fn = h
      BY <3>1 DEF Mapped, a
    <3>3. mem[s].fn = None BY <1>2 DEF Tables
    <3>4. h # None BY <1>1
    <3> QED BY <1>2, <3>1, <3>2, <3>3, <3>4
  <2>2. \/ Lookup(maps', g) = s
        \/ maps' = maps /\ g \notin External /\ Lazily
    BY <1>2, <1>5
  <2>3. ASSUME Lookup(maps', g) # Null
        PROVE  \/ g \in External /\ Lookup(maps', g) = stubOf'[g]
               \/ /\ g \notin External /\ Lookup(maps', g) \in Memory
                  /\ mem'[Lookup(maps', g)].fn = g
    <3>1. CASE Lookup(maps', g) = s BY <1>2, <3>1
    <3>2. CASE maps' = maps /\ g \notin External
      <4>1. Lookup(maps, g) \in Memory /\ mem[Lookup(maps, g)].fn = g
        BY <1>1, <2>3, <3>2 DEF Mapped
      <4>2. Lookup(maps, g) # s BY <1>1, <1>2, <4>1 DEF Tables
      <4> QED BY <1>2, <3>2, <4>1, <4>2
    <3> QED BY <2>2, <3>1, <3>2
  <2>4. ASSUME NEW h \in alive \ External
        PROVE  \/ Lookup(maps', h) = emitted[h]
               \/ h \in Queue' /\ Lookup(maps', h) = stubOf'[h]
               \/ Unmapped(h)'
    <3>0. h \in Globals BY ProgramFacts
    <3>1. CASE h # g
      <4>1. Unmapped(h) => Unmapped(h)' BY <1>2, <3>0, <3>1 DEF Unmapped
      <4> QED BY <1>2, <2>4, <3>0, <3>1, <4>1 DEF Mapped
    <3>2. CASE h = g /\ maps' = maps
      <4>1. h \notin Queue BY <1>2, <3>2
      <4>2. Unmapped(h) => Unmapped(h)' BY <3>2 DEF Unmapped
      <4> QED BY <1>2, <2>4, <3>2, <4>1, <4>2 DEF Mapped
    <3>3. CASE h = g /\ Lookup(maps', g) = s /\ g \in Queue'
      BY <1>2, <3>3
    <3>4. g \notin External => maps' = maps \/ (Lookup(maps', g) = s /\ g \in Queue')
      BY <1>2 DEF StubJump
    <3> QED BY <2>4, <3>1, <3>2, <3>3, <3>4
  <2>5. \A h \in Globals \ alive : maps'.fwd[h] = Absent BY <1>2 DEF Mapped
  <2>6. \A h \in Globals : Lookup(maps', h) # Null =>
          \/ h \in External /\ Lookup(maps', h) = ExternalAddr[h]
          \/ h \in External /\ Lookup(maps', h) = stubOf'[h]
          \/ /\ h \notin External /\ Lookup(maps', h) \in Memory
             /\ mem'[Lookup(maps', h)].fn = h
    BY <2>1, <2>3
  <2>7. /\ External' = External /\ ExternalAddr' = ExternalAddr
        /\ alive' = alive /\ emitted' = emitted
    BY <1>2
  <2>8. \A h \in alive \ External :
          \/ Lookup(maps', h) = emitted[h]
          \/ h \in Queue' /\ Lookup(maps', h) = stubOf'[h]
          \/ Unmapped(h)'
    BY <2>4
  <2> QED BY <2>5, <2>6, <2>7, <2>8 DEF Mapped
<1>8. InverseMaps' BY <1>2 DEF InverseMaps, OneToOne
<1> QED BY <1>6, <1>7, <1>8

(* Nothing that was mapped is unmapped by it. *)
LEMMA StubKeepsMapped ==
  ASSUME NEW g \in Globals, NEW s \in Memory, s # Null, StubEmitted(g, s)
  PROVE  \A f \in Globals : Lookup(maps, f) # Null => Lookup(maps', f) # Null
BY DEF StubEmitted

(* Resolving a relocation with a new stub. *)
LEMMA EmitStubCallStep ==
  ASSUME AInv, UNCHANGED program, ExternalsDiffer,
         NEW t \in Threads, NEW g \in Globals, EmitStubCall(t, g)
  PROVE  AInv'
<1> USE ProgramSame
<1>1. PICK s \in Memory : getLazyFunctionStub(g, s) /\ Relocate(g, s)
  BY DEF EmitStubCall
<1>2. /\ th[t].pc = "emit" /\ g \in job.todo
      /\ FarStubs \/ (Lookup(maps, g) = Null /\ g \notin External)
      /\ UNCHANGED <<alive, lock, th, given, used>>
  BY DEF EmitStubCall
<1>3. /\ lock = t /\ t # NoThread /\ ~Starting /\ job.f \in alive
      /\ job.f \in Globals
  BY <1>2, JobFacts
<1>4. /\ g \in alive /\ job \in JobType /\ pending \in Seq(Globals)
      /\ s \in Locations /\ alive \subseteq Globals
  BY <1>2, <1>3, ProgramFacts DEF AInv, Session, Tables, Types
<1>5. StubEmitted(g, s)
  BY <1>1, <1>3, <1>4, EmitStubFacts DEF AInv, getLazyFunctionStub
<1>6. pending' = IF Lazily \/ g \in External THEN pending ELSE Append(pending, g)
  BY <1>1 DEF getLazyFunctionStub
<1>7. /\ job' \in JobType /\ job'.f = job.f /\ job'.queued = job.queued
      /\ job'.todo \cup {c[1] : c \in job'.calls}
           = job.todo \cup {c[1] : c \in job.calls}
  BY <1>1, <1>2, <1>4, RelocateFacts
<1>8. ~Starting' BY <1>2, <1>3 DEF Starting
<1>9. /\ pending' \in Seq(Globals) /\ Queue \subseteq Queue'
      /\ Queue' \subseteq Queue \cup {g}
      /\ g \in External \/ Lazily \/ g \in Queue'
      /\ Lazily => pending' = pending
      /\ g \in Queue' => g \in Queue \/ g \notin External
  <2>1. CASE Lazily \/ g \in External
    BY <1>4, <1>6, <2>1 DEF Queue
  <2>2. CASE ~(Lazily \/ g \in External)
    BY <1>4, <1>6, <2>2, QueueAppend
  <2> QED BY <2>1, <2>2
<1>10. /\ \A f \in Queue : stubOf[f] # Null
       /\ Queue \subseteq alive \ External
  BY <1>3 DEF AInv, Session
<1>11. Tables' /\ Mapped' /\ InverseMaps'
  <2>1. UNCHANGED <<program, alive, used>> BY <1>2
  <2>2. Types /\ Tables /\ Mapped BY DEF AInv
  <2>3. \A u \in Threads : th'[u] = th[u] BY <1>2
  <2> QED BY <1>3, <1>4, <1>5, <1>8, <1>9, <1>10, <2>1, <2>2, <2>3, StubTables
<1>12. /\ NoCode(s) /\ stubOf[g] = Null /\ emitted' = emitted
       /\ mem' \in MemType /\ stubOf' \in [Globals -> Memory \cup {Null}]
       /\ \A b \in Memory \ {s} : mem'[b] = mem[b]
       /\ mem'[s].kind = "stub"
       /\ stubOf'[g] = s /\ \A h \in Globals \ {g} : stubOf'[h] = stubOf[h]
       /\ callSites' \subseteq callSites \cup {s} /\ maps' \in MapsType
  BY <1>5 DEF StubEmitted
<1>13. s # Null BY ProgramFacts DEF AInv
<1>14. Types'
  BY <1>2, <1>7, <1>9, <1>12 DEF AInv, Types, Calls
<1>18. \A f \in Globals : Lookup(maps, f) # Null => Lookup(maps', f) # Null
  BY <1>4, <1>5, <1>13, StubKeepsMapped
<1>15. Threading'
  <2>1. \A b \in Memory : mem[b].kind = "body" => b # s
    BY <1>12 DEF NoCode
  <2> QED BY <1>2, <1>4, <1>7, <1>12, <1>18, <2>1, SameCalls
<1>16. Session'
  <2>1. \A f \in Globals : stubOf[f] # Null => stubOf'[f] # Null
    BY <1>12
  <2>2. \A f \in Queue' : stubOf'[f] # Null
    BY <1>4, <1>9, <1>10, <1>12, <1>13, <2>1
  <2> QED
    BY <1>2, <1>3, <1>4, <1>7, <1>8, <1>9, <1>10, <1>12, <1>18, <2>1, <2>2,
       JobFacts DEF AInv, Session
<1>17. Single'
  <2> SUFFICES ASSUME ~FarStubs, used.recompiles = 0 PROVE Single'
    BY <1>2 DEF Single
  <2>1. Lookup(maps, g) = Null /\ g \notin External /\ g \notin Queue
    BY <1>2, <1>10, <1>12
  <2>a. ~Unmapped(g)
    BY CallFacts DEF Unmapped, InCall, GetCall, StubCall, RecompileCall
  <2>2. emitted[g] = Null
    BY <1>3, <1>4, <2>1, <2>a DEF AInv, Mapped
  <2>3. job.f # g
    BY <1>3, <2>2 DEF AInv, Session
  <2>4. \A b \in Memory : (Body(b))' => Body(b) /\ mem'[b].fn = mem[b].fn
    BY <1>12 DEF Body
  <2>6. \A b \in Memory : (Body(b))' => emitted'[mem'[b].fn] = b
    BY <1>12, <2>4 DEF AInv, Single
  <2>7. \A i, j \in 1..Len(pending') : pending'[i] = pending'[j] => i = j
    <3>1. \A i, j \in 1..Len(pending) : pending[i] = pending[j] => i = j
      BY DEF AInv, Single
    <3>2. \A i \in 1..Len(pending) : pending[i] # g BY <2>1 DEF Queue
    <3>3. CASE pending' = pending BY <3>1, <3>3
    <3>4. CASE pending' = Append(pending, g)
      <4>1. /\ Len(pending') = Len(pending) + 1
            /\ pending'[Len(pending) + 1] = g
            /\ \A i \in 1..Len(pending) : pending'[i] = pending[i]
        BY <1>4, <3>4, QueueAppend
      <4>2. Len(pending) \in Nat BY <1>4
      <4> QED BY <3>1, <3>2, <4>1, <4>2
    <3> QED BY <1>6, <3>3, <3>4
  <2>8. \A f \in Queue' : emitted'[f] = Null
    BY <1>9, <1>12, <2>2 DEF AInv, Single
  <2>9. job'.f \notin Queue'
    BY <1>3, <1>7, <1>9, <2>3, ProgramFacts DEF AInv, Single
  <2> QED BY <1>8, <2>6, <2>7, <2>8, <2>9 DEF Single
<1> QED BY <1>11, <1>14, <1>15, <1>16, <1>17 DEF AInv

(* A client gets a stub, while the JIT compiles lazily, or null.             *)
LEMMA GetStubStep ==
  ASSUME AInv, UNCHANGED program, ExternalsDiffer, NEW t \in Threads, GetStub(t)
  PROVE  AInv'
<1> USE ProgramSame
<1> DEFINE g == th[t].f
<1>1. /\ th[t].pc = "orstub" /\ LockFree /\ InCall(t) /\ g \in alive
      /\ g \in Globals /\ th[t] # Idle
      /\ UNCHANGED <<alive, lock, job, used>>
  BY CallFacts, IdleFields DEF GetStub
<1>2. th[t].op = "get" /\ Lazily
  BY <1>1 DEF InCall, GetCall, StubCall, RecompileCall
<1>3. PICK s \in Locations :
        /\ \/ s \in Memory /\ stubOf[g] = s /\ UNCHANGED <<maps, code>>
           \/ s \in Memory /\ getLazyFunctionStub(g, s)
           \/ g \in External /\ maps' = Resolve(g) /\ UNCHANGED code
        /\ Return(t, s)
  <2>1. Memory \subseteq Locations /\ Null \in Locations
    BY ProgramFacts DEF AInv
  <2> QED BY <2>1 DEF GetStub
<1> HIDE DEF g
<1>4. s \in Memory => s # Null BY ProgramFacts DEF AInv
<1>5. /\ th' \in [Threads -> CallType] /\ given' \subseteq Globals \X Locations
      /\ \A u \in Threads \ {t} : th'[u] = th[u]
      /\ th'[t] = Idle
  BY <1>1, <1>2, <1>3, <1>4, ReturnStep DEF AInv, g
<1>6. /\ lock = NoThread /\ lock # t /\ ~Starting /\ pending = <<>> /\ Queue = {}
  BY <1>1, FreeFacts DEF LockFree
<1>7. CASE UNCHANGED <<maps, code>>
  <2>1. th'[t].pc = "idle" /\ th'[t].op # "recompile" BY <1>5, IdleFields
  <2>2. th[t].pc # "recompile"
        /\ used' \in [retries : Nat, recompiles : Nat, frees : Nat]
    BY <1>1 DEF AInv, Types
  <2> QED BY <1>1, <1>5, <1>6, <1>7, <2>1, <2>2, CallOnly
<1>9. \A u \in Threads : th[u].pc = "recompile" => th'[u] = th[u]
  BY <1>1, <1>5
<1>10. CASE g \in External /\ maps' = Resolve(g) /\ UNCHANGED code
  <2>1. UNCHANGED <<mem, emitted, stubOf, callSites, pending>>
    BY <1>10 DEF code
  <2>2. ~Starting' /\ Queue' = Queue BY <1>1, <1>6, <2>1 DEF Starting, Queue
  <2>3. Types /\ Mapped /\ InverseMaps BY DEF AInv
  <2>4. Mapped' /\ InverseMaps' /\ maps' \in MapsType
    BY <1>1, <1>6, <1>9, <1>10, <2>1, <2>2, <2>3, ResolveMapped
  <2>5. Types' BY <1>1, <1>5, <2>1, <2>4 DEF AInv, Types, Calls
  <2>6. \A f \in Globals : Lookup(maps, f) # Null => Lookup(maps', f) # Null
    BY <1>10, <2>3, ResolveFacts
  <2>7. Threading'
    <3>1. ASSUME NEW u \in Threads \ {t}, th[u] # Idle PROVE Kept(u)
      BY <1>1, <1>5, <1>6, <2>1, <2>6, <3>1, OthersKept
    <3>2. Holds(t)' <=> lock' = t BY <1>1, <1>5, <1>6, IdleFields DEF Holds
    <3> QED BY <1>1, <1>5, <2>5, <3>1, <3>2, ThreadStep, IdleFields DEF AInv
  <2>8. Session' /\ Tables'
    BY <1>1, <1>6, <2>1 DEF AInv, Session, Tables, NoCode
  <2>9. Single' BY <1>1, <1>6, <2>1, <2>2 DEF AInv, Single, Body
  <2> QED BY <2>4, <2>5, <2>7, <2>8, <2>9 DEF AInv
<1>8. CASE s \in Memory /\ getLazyFunctionStub(g, s)
  <2>1. pending' = pending /\ EmitStub(g, s)
    BY <1>2, <1>8 DEF getLazyFunctionStub
  <2>2. StubEmitted(g, s) BY <1>1, <1>6, <1>8, <2>1, EmitStubFacts DEF AInv
  <2>3. ~Starting' /\ Queue' = Queue BY <1>1, <1>6, <2>1 DEF Starting, Queue
  <2>4. Tables' /\ Mapped' /\ InverseMaps'
    <3>1. UNCHANGED <<program, alive, used>> BY <1>1
    <3>2. Types /\ Tables /\ Mapped BY DEF AInv
    <3> QED BY <1>1, <1>2, <1>6, <1>8, <1>9, <2>2, <2>3, <3>1, <3>2, StubTables
  <2>5. /\ NoCode(s) /\ stubOf[g] = Null /\ emitted' = emitted
        /\ mem' \in MemType /\ stubOf' \in [Globals -> Memory \cup {Null}]
        /\ \A b \in Memory \ {s} : mem'[b] = mem[b]
        /\ mem'[s].kind = "stub"
        /\ \A h \in Globals \ {g} : stubOf'[h] = stubOf[h]
        /\ callSites' \subseteq callSites \cup {s} /\ maps' \in MapsType
    BY <2>2 DEF StubEmitted
  <2>6. Types' BY <1>1, <1>5, <1>8, <2>1, <2>5 DEF AInv, Types, Calls
  <2>7. Threading'
    <3>1. ASSUME NEW u \in Threads \ {t}, th[u] # Idle PROVE Kept(u)
      <4>1. InCall(u) /\ th[u].f \in Globals /\ th[u].f \in alive
        BY <3>1, CallFacts, ProgramFacts DEF AInv, Threading, InCall
      <4>2. \A b \in Memory : mem[b].kind = "body" => mem'[b] = mem[b]
        BY <2>5 DEF NoCode
      <4>3. \A a : Holding(th[u].f, a) => Holding(th[u].f, a)'
        BY <1>1, <1>5, <1>6, <4>2 DEF Holding
      <4>4. th[u].op = "stub" => stubOf'[th[u].f] = stubOf[th[u].f]
        BY <2>5, <4>1 DEF InCall, GetCall, StubCall, RecompileCall
      <4>5. th[u].op = "recompile" => used.recompiles # 0
        BY <4>1 DEF InCall, GetCall, StubCall, RecompileCall
      <4>6. th[u].pc = "relink" => mem'[th[u].at[2]] = mem[th[u].at[2]]
        BY <4>2, RelinkFacts DEF Holding
      <4>7. Lookup(maps, th[u].f) # Null => Lookup(maps', th[u].f) # Null
        BY <1>1, <1>4, <1>8, <2>2, <4>1, StubKeepsMapped
      <4> QED
        BY <1>1, <1>6, <2>5, <4>1, <4>3, <4>4, <4>5, <4>6, <4>7 DEF Kept
    <3>2. Holds(t)' <=> lock' = t BY <1>1, <1>5, <1>6, IdleFields DEF Holds
    <3> QED BY <1>1, <1>5, <2>6, <3>1, <3>2, ThreadStep, IdleFields DEF AInv
  <2>8. Session' BY <1>1, <1>6, <2>1 DEF AInv, Session
  <2>9. Single'
    <3>1. \A b \in Memory : (Body(b))' => Body(b) /\ mem'[b].fn = mem[b].fn
      BY <2>5 DEF Body
    <3>2. ~FarStubs /\ used.recompiles = 0 => \A b \in Memory :
            (Body(b))' => emitted'[mem'[b].fn] = b
      BY <2>5, <3>1 DEF AInv, Single
    <3> QED BY <1>1, <1>6, <2>1, <2>3, <3>2 DEF AInv, Single
  <2> QED BY <2>4, <2>6, <2>7, <2>8, <2>9 DEF AInv
<1> QED BY <1>3, <1>7, <1>8, <1>10

(* The memory for the code of a function has been allocated. *)
BodyStarted(f, a) ==
  /\ NoCode(a) /\ UNCHANGED <<program, alive, stubOf, callSites, pending, lock,
                              given, used>>
  /\ mem' \in MemType
  /\ \A b \in Memory \ {a} : mem'[b] = mem[b]
  /\ mem'[a].kind = "body" /\ mem'[a].fn = f /\ mem'[a].calls = {}
  /\ mem'[a].done = FALSE /\ mem'[a].jump = Null
  /\ emitted' \in [Globals -> Memory \cup {Null}] /\ emitted'[f] = a
  /\ \A h \in Globals \ {f} : emitted'[h] = emitted[h]
  /\ maps' \in MapsType /\ Lookup(maps', f) = a
  /\ \A h \in Globals \ {f} : maps'.fwd[h] = maps.fwd[h]
                              /\ Lookup(maps', h) = Lookup(maps, h)
  /\ used.recompiles = 0 => OneToOne(maps')
  /\ job' \in JobType /\ job'.f = job.f /\ job'.queued = job.queued
  /\ job'.todo = Calls[f] /\ job'.calls = {}

LEMMA StartFacts ==
  ASSUME AInv, UNCHANGED program, NEW t \in Threads, StartFunction(t)
  PROVE  \E a \in Memory : BodyStarted(job.f, a)
<1> DEFINE f == job.f
<1>1. PICK a \in Memory :
        /\ MayAllocate(a)
        /\ mem' = [mem EXCEPT ![a] = Code("body", f)]
        /\ emitted' = [emitted EXCEPT ![f] = a]
        /\ maps' = updateGlobalMapping(maps, f, a)
  BY DEF StartFunction
<1>2. /\ job' = [job EXCEPT !.todo = Calls[f], !.calls = {}]
      /\ UNCHANGED <<program, alive, stubOf, callSites, pending, lock, given, used>>
      /\ th[t].pc = "start"
  BY DEF StartFunction
<1>3. f \in Globals /\ f \in alive BY <1>2, JobFacts
<1>4. /\ a \in Locations /\ a # Null /\ a \in Addrs /\ Null \in Locations
      /\ maps \in MapsType /\ mem \in MemType /\ job \in JobType
      /\ emitted \in [Globals -> Memory \cup {Null}] /\ None \notin Globals
  BY ProgramFacts DEF AInv, Types
<1>5. Calls[f] \subseteq Globals
  BY <1>3, ProgramFacts DEF AInv, Types
<1> DEFINE n == Code("body", f)
           U == updateGlobalMapping(maps, f, a)
<1>6. NoCode(a) BY <1>1 DEF MayAllocate, NoCode
<1>7. /\ n \in [kind : Kinds, fn : Globals \cup {None},
                calls : SUBSET (Globals \X Locations), done : BOOLEAN,
                jump : Locations \cup {Resolver}]
      /\ n.kind = "body" /\ n.fn = f /\ n.calls = {} /\ n.done = FALSE
      /\ n.jump = Null
  BY <1>3, <1>4 DEF Code, Kinds
<1>8. /\ job' \in JobType /\ job'.f = job.f /\ job'.queued = job.queued
      /\ job'.todo = Calls[f] /\ job'.calls = {}
  BY <1>2, <1>4, <1>5 DEF JobType
<1>9. \A h \in Globals \ {f} : maps.fwd[h] # a
  <2> SUFFICES ASSUME NEW h \in Globals \ {f}, maps.fwd[h] = a PROVE FALSE
    OBVIOUS
  <2>1. Lookup(maps, h) = a BY <1>4, LookupType
  <2>2. mem[a].fn = None BY <1>6 DEF AInv, Tables
  <2>3. mem[a].kind # "stub" BY <1>6 DEF NoCode
  <2>4. h \in External => ExternalAddr[h] \notin Memory BY ProgramFacts DEF AInv
  <2>5. \/ h \in External /\ a = ExternalAddr[h]
        \/ h \in External /\ a = stubOf[h]
        \/ mem[a].fn = h
    BY <1>4, <2>1 DEF AInv, Mapped
  <2> QED BY <1>4, <2>2, <2>3, <2>4, <2>5 DEF AInv, Tables
<1>10. U \in MapsType /\ U.fwd = [maps.fwd EXCEPT ![f] = a]
  <2>1. f \in Globals /\ a \in Addrs /\ maps \in MapsType BY <1>3, <1>4
  <2> HIDE DEF f
  <2> QED BY <2>1, UpdateMaps
<1>11. used.recompiles = 0 => OneToOne(U)
  <2>1. used.recompiles = 0 => OneToOne(maps) BY DEF AInv, InverseMaps, OneToOne
  <2> QED BY <1>3, <1>4, <1>9, <2>1, UpdateOneToOne
<1> HIDE DEF n, U, f
<1>12. /\ mem' \in MemType /\ mem'[a] = n
       /\ \A b \in Memory \ {a} : mem'[b] = mem[b]
  BY <1>1, <1>4, <1>7 DEF MemType, n
<1>13. /\ emitted' \in [Globals -> Memory \cup {Null}] /\ emitted'[f] = a
       /\ \A h \in Globals \ {f} : emitted'[h] = emitted[h]
  BY <1>1, <1>3, <1>4
<1>14. /\ U.fwd[f] = a
       /\ \A h \in Globals \ {f} : U.fwd[h] = maps.fwd[h]
  BY <1>3, <1>4, <1>10 DEF MapsType
<1>15. Lookup(U, f) = a BY <1>3, <1>4, <1>10, <1>14, LookupType
<1>16. \A h \in Globals \ {f} : Lookup(U, h) = Lookup(maps, h)
  BY <1>14 DEF Lookup
<1>17. maps' = U BY <1>1 DEF U
<1>18. BodyStarted(f, a)
  BY <1>2, <1>6, <1>7, <1>8, <1>10, <1>11, <1>12, <1>13, <1>14, <1>15, <1>16,
     <1>17 DEF BodyStarted
<1> QED BY <1>18 DEF f

LEMMA StartFunctionStep ==
  ASSUME AInv, UNCHANGED program, NEW t \in Threads, StartFunction(t)
  PROVE  AInv'
<1> USE ProgramSame
<1>1. PICK a \in Memory : BodyStarted(job.f, a) BY StartFacts
<1>2. th[t].pc = "start" /\ Goto(t, "emit") BY DEF StartFunction
<1>3. /\ lock = t /\ t # NoThread /\ InCall(t) /\ Starting
      /\ job.f \in alive \ External /\ job.f \in Globals
      /\ th[t].f \in alive \ External /\ th[t].f \in Globals
  BY <1>2, JobFacts
<1> DEFINE f == job.f
<1>4. /\ NoCode(a) /\ UNCHANGED <<alive, stubOf, callSites, pending, lock, given,
                                  used>>
      /\ mem' \in MemType
      /\ \A b \in Memory \ {a} : mem'[b] = mem[b]
      /\ mem'[a].kind = "body" /\ mem'[a].fn = f /\ mem'[a].jump = Null
      /\ emitted' \in [Globals -> Memory \cup {Null}] /\ emitted'[f] = a
      /\ \A h \in Globals \ {f} : emitted'[h] = emitted[h]
      /\ maps' \in MapsType /\ Lookup(maps', f) = a
      /\ \A h \in Globals \ {f} : maps'.fwd[h] = maps.fwd[h]
                                  /\ Lookup(maps', h) = Lookup(maps, h)
      /\ used.recompiles = 0 => OneToOne(maps')
      /\ job' \in JobType /\ job'.f = f /\ job'.queued = job.queued
      /\ job'.todo = Calls[f] /\ job'.calls = {}
  BY <1>1 DEF BodyStarted
<1> HIDE DEF f
<1>5. /\ th' \in [Threads -> CallType]
      /\ \A u \in Threads \ {t} : th'[u] = th[u]
      /\ th'[t].pc = "emit" /\ th'[t].op = th[t].op
      /\ th'[t].f = th[t].f /\ th'[t].at = th[t].at
  BY <1>2, GotoStep DEF AInv
<1>6. /\ a # Null /\ Null \notin Memory /\ None \notin Globals /\ a # Resolver
      /\ alive \subseteq Globals /\ f \in Globals /\ f \in alive \ External
      /\ Null # Resolver
  BY <1>3, ProgramFacts DEF AInv, f
<1>7. mem[a].fn = None /\ mem[a].kind \notin {"body", "stub"}
  BY <1>4 DEF AInv, Tables, NoCode
<1>8. Types' BY <1>4, <1>5 DEF AInv, Types, Calls
<1>9. ~Starting' /\ Queue' = Queue BY <1>3, <1>4, <1>5 DEF Starting, Queue
<1>17. ASSUME NEW h \in Globals, NEW b, Holding(h, b), emitted[h] # b \/ h = f
       PROVE  /\ b # a /\ mem'[b] = mem[b] /\ emitted'[h] # b
              /\ th'[t].f = h => Holding(th[t].f, b)'
              /\ \A u \in Threads \ {t} : th[u].f = h => Holding(th[u].f, b)'
  <2>1. b \in Memory /\ b # a BY <1>7, <1>17 DEF Holding
  <2>2. mem'[b] = mem[b] /\ emitted'[h] # b BY <1>4, <1>17, <2>1
  <2>3. mem'[b].kind = "body" /\ mem'[b].fn = h BY <1>17, <2>2 DEF Holding
  <2>4. emitted'[job'.f] # b BY <1>4, <2>1
  <2> QED BY <1>5, <2>1, <2>2, <2>3, <2>4 DEF Holding
<1>18. ASSUME NEW h \in Globals, NEW b, Holding(h, b)
       PROVE  /\ b # a /\ mem'[b] = mem[b]
              /\ th'[t].f = h => Holding(th[t].f, b)'
              /\ \A u \in Threads \ {t} : th[u].f = h => Holding(th[u].f, b)'
  <2>1. b \in Memory /\ b # a BY <1>7, <1>18 DEF Holding
  <2>2. mem'[b] = mem[b] BY <1>4, <2>1
  <2>3. mem'[b].kind = "body" /\ mem'[b].fn = h BY <1>18, <2>2 DEF Holding
  <2>4. emitted'[job'.f] # b BY <1>4, <2>1
  <2> QED BY <1>5, <2>1, <2>2, <2>3, <2>4 DEF Holding
<1>19. ASSUME NEW h \in Globals, Lookup(maps, h) # Null
       PROVE  Lookup(maps', h) # Null
  BY <1>4, <1>6, <1>19
<1>10. InCall(t)'
  <2>1. Held(t)' = Held(t) BY <1>2, <1>5 DEF Held
  <2>2. \A b \in Held(t) : Holding(th[t].f, b)'
    BY <1>3, <1>5, <1>18, <2>1 DEF InCall
  <2>3. CASE GetCall(t)
    BY <1>2, <1>3, <1>4, <1>5, <2>1, <2>2, <2>3 DEF InCall, GetCall
  <2>4. CASE StubCall(t)
    BY <1>2, <1>3, <1>4, <1>5, <2>1, <2>2, <2>4 DEF InCall, StubCall
  <2>5. CASE RecompileCall(t)
    <3>1. /\ th[t].op = "recompile"
          /\ emitted[th[t].f] = th[t].at => f = th[t].f
      BY <1>2, <2>5 DEF RecompileCall, f
    <3>2. Held(t) = {th[t].at} BY <1>2, <3>1 DEF Held
    <3>3. Holding(th[t].f, th[t].at) BY <1>3, <3>2 DEF InCall
    <3>4. emitted'[th[t].f] # th[t].at BY <1>3, <1>17, <3>1, <3>3
    <3>5. RecompileCall(t)'
      BY <1>2, <1>3, <1>4, <1>5, <2>5, <3>1, <3>4 DEF RecompileCall
    <3> QED BY <1>3, <1>4, <1>5, <2>1, <2>2, <3>5 DEF InCall
  <2> QED BY <1>3, <2>3, <2>4, <2>5 DEF InCall
<1>11. Threading'
  <2>1. ASSUME NEW u \in Threads \ {t}, th[u] # Idle PROVE Kept(u)
    <3>1. InCall(u) /\ th[u].f \in Globals /\ th[u].f \in alive
      BY <1>6, <2>1 DEF AInv, Threading, InCall
    <3>2. th[u].pc \notin {"start", "emit"}
      BY <1>3 DEF AInv, Threading, Holds
    <3>3. \A b \in Held(u) : Holding(th[u].f, b)' /\ mem'[b] = mem[b]
      BY <1>18, <3>1 DEF InCall
    <3>4. emitted'[th[u].f] = emitted[th[u].f] \/ emitted'[th[u].f] = a
      BY <1>4, <3>1
    <3>5. th[u].pc = "relink" => mem'[th[u].at[2]] = mem[th[u].at[2]]
      BY <1>18, <3>1, RelinkFacts
    <3>6. th[u].op = "recompile" => used.recompiles # 0
      BY <3>1 DEF InCall, GetCall, StubCall, RecompileCall
    <3>7. \A b \in Held(u) : b # a BY <1>18, <3>1 DEF InCall
    <3>8. \/ emitted'[th[u].f] = emitted[th[u].f]
          \/ emitted'[th[u].f] \notin Held(u)
      BY <3>4, <3>7
    <3>9. Lookup(maps, th[u].f) # Null => Lookup(maps', th[u].f) # Null
      BY <1>19, <3>1
    <3>10. \A b \in Held(u) : Holding(th[u].f, b)' BY <3>3
    <3>11. /\ alive' = alive /\ stubOf' = stubOf /\ used' = used BY <1>4
    <3> QED
      BY <3>1, <3>2, <3>5, <3>6, <3>8, <3>9, <3>10, <3>11 DEF Kept
  <2>2. Holds(t)' <=> lock' = t BY <1>3, <1>4, <1>5 DEF Holds
  <2> QED BY <1>3, <1>4, <1>5, <1>8, <1>10, <2>1, <2>2, ThreadStep DEF AInv
<1>12. Session'
  <2>1. job'.todo \cup {c[1] : c \in job'.calls} = Calls[job.f]
    BY <1>4 DEF f
  <2>2. emitted'[job.f] # Null BY <1>4, <1>6 DEF f
  <2>3. emitted'[th[t].f] # Null /\ Lookup(maps', th[t].f) # Null
    <3>1. \/ emitted[th[t].f] # Null /\ Lookup(maps, th[t].f) # Null
          \/ job.f = th[t].f
      BY <1>3 DEF AInv, Session
    <3> QED BY <1>3, <1>4, <1>6, <3>1 DEF f
  <2>4. job'.f = job.f /\ job'.queued = job.queued BY <1>4 DEF f
  <2>5. lock' = t /\ th'[t].f = th[t].f BY <1>3, <1>4, <1>5
  <2> QED
    BY <1>3, <1>4, <1>9, <2>1, <2>2, <2>3, <2>4, <2>5 DEF AInv, Session
<1>13. Tables'
  <2>1. Tables /\ Types BY DEF AInv
  <2>2. ASSUME NEW b \in Memory
        PROVE  /\ (NoCode(b))' <=> mem'[b].fn = None
               /\ mem'[b].jump = Resolver => Lazily /\ mem'[b].fn \notin External
    <3>1. CASE b = a BY <1>4, <1>6, <3>1 DEF NoCode
    <3>2. CASE b # a BY <1>4, <2>1, <3>2 DEF Tables, NoCode
    <3> QED BY <3>1, <3>2
  <2>3. ASSUME NEW h \in Globals, emitted'[h] # Null
        PROVE  /\ h \in alive \ External
               /\ mem'[emitted'[h]].kind = "body" /\ mem'[emitted'[h]].fn = h
               /\ mem'[emitted'[h]].jump = Null
    <3>1. CASE h = f BY <1>4, <1>6, <3>1
    <3>2. CASE h # f
      <4>1. emitted'[h] = emitted[h] /\ emitted[h] \in Memory
        BY <1>4, <2>1, <2>3, <3>2 DEF Types
      <4>2. /\ h \in alive \ External
            /\ mem[emitted[h]].kind = "body" /\ mem[emitted[h]].fn = h
            /\ mem[emitted[h]].jump = Null
        BY <2>1, <2>3, <4>1 DEF Tables
      <4>3. emitted[h] # a BY <1>7, <4>2
      <4> QED BY <1>4, <4>1, <4>2, <4>3
    <3> QED BY <3>1, <3>2
  <2>4. ASSUME NEW h \in Globals, stubOf[h] # Null
        PROVE  /\ h \in alive
               /\ mem'[stubOf[h]].kind = "stub" /\ mem'[stubOf[h]].fn = h
    <3>1. /\ stubOf[h] \in Memory /\ h \in alive
          /\ mem[stubOf[h]].kind = "stub" /\ mem[stubOf[h]].fn = h
      BY <2>1, <2>4 DEF Types, Tables
    <3> QED BY <1>4, <1>7, <3>1
  <2>5. ASSUME NEW c \in callSites
        PROVE  /\ mem'[c].kind = "stub" /\ mem'[c].fn \in alive
               /\ stubOf[mem'[c].fn] = c
    <3>1. /\ c \in Memory /\ mem[c].kind = "stub" /\ mem[c].fn \in alive
          /\ stubOf[mem[c].fn] = c
      BY <2>1 DEF Types, Tables
    <3> QED BY <1>4, <1>7, <3>1
  <2> QED BY <1>4, <2>1, <2>2, <2>3, <2>4, <2>5 DEF Tables
<1>14. Mapped'
  <2>1. Mapped BY DEF AInv
  <2>2. ASSUME NEW h \in Globals, Lookup(maps', h) # Null
        PROVE  \/ h \in External /\ Lookup(maps', h) = ExternalAddr[h]
               \/ h \in External /\ Lookup(maps', h) = stubOf[h]
               \/ /\ h \notin External /\ Lookup(maps', h) \in Memory
                  /\ mem'[Lookup(maps', h)].fn = h
    <3>1. CASE h = f BY <1>4, <1>6, <3>1
    <3>2. CASE h # f
      <4>1. Lookup(maps', h) = Lookup(maps, h) BY <1>4, <3>2
      <4>2. \/ h \in External /\ Lookup(maps, h) = ExternalAddr[h]
            \/ h \in External /\ Lookup(maps, h) = stubOf[h]
            \/ /\ h \notin External /\ Lookup(maps, h) \in Memory
               /\ mem[Lookup(maps, h)].fn = h
        BY <2>1, <2>2, <3>2, <4>1 DEF Mapped, f
      <4>3. h # None BY <1>6
      <4> QED BY <1>4, <1>7, <4>1, <4>2, <4>3
    <3> QED BY <3>1, <3>2
  <2>3. ASSUME NEW h \in alive \ External
        PROVE  \/ Lookup(maps', h) = emitted'[h]
               \/ h \in Queue /\ Lookup(maps', h) = stubOf[h]
               \/ Unmapped(h)'
    <3>1. CASE h = f BY <1>4, <3>1
    <3>2. CASE h # f
      <4>1. Unmapped(h) => Unmapped(h)'
        BY <1>2, <1>4, <1>5, <1>6, <2>3, <3>2 DEF Unmapped
      <4> QED BY <1>4, <1>6, <2>1, <2>3, <3>2, <4>1 DEF Mapped, f
    <3> QED BY <3>1, <3>2
  <2>4. \A h \in Globals \ alive : maps'.fwd[h] = Absent
    BY <1>4, <1>6, <2>1 DEF Mapped
  <2> QED BY <1>4, <1>9, <2>2, <2>3, <2>4 DEF Mapped
<1>15. InverseMaps' BY <1>4 DEF InverseMaps, OneToOne
<1>16. Single'
  <2> SUFFICES ASSUME ~FarStubs, used.recompiles = 0 PROVE Single'
    BY <1>4 DEF Single
  <2>1. Single BY DEF AInv
  <2>3. ASSUME NEW b \in Memory, (Body(b))' PROVE emitted'[mem'[b].fn] = b
    <3>1. CASE b = a BY <1>4, <3>1
    <3>2. CASE b # a
      <4>1. Body(b) /\ mem'[b].fn = mem[b].fn BY <1>4, <2>3, <3>2 DEF Body
      <4>2. emitted[mem[b].fn] = b BY <2>1, <4>1 DEF Single
      <4>3. mem[b].fn # f BY <1>3, <1>6, <2>1, <4>2 DEF Single, f
      <4>4. mem[b].fn \in Globals
        BY <4>1 DEF Body, AInv, Tables, Types, NoCode, MemType
      <4> QED BY <1>4, <4>1, <4>2, <4>3, <4>4
    <3> QED BY <3>1, <3>2
  <2>4. f \notin Queue /\ \A h \in Queue : emitted[h] = Null
    BY <1>3, <2>1 DEF Single, f
  <2>5. Queue \subseteq Globals BY <1>3, <1>6 DEF AInv, Session
  <2>6. \A h \in Queue' : emitted'[h] = Null BY <1>4, <1>9, <2>4, <2>5
  <2>7. job'.f \notin Queue' BY <1>4, <1>9, <2>4
  <2>8. \A i, j \in 1..Len(pending') : pending'[i] = pending'[j] => i = j
    BY <1>4, <2>1 DEF Single
  <2> QED BY <1>9, <2>3, <2>6, <2>7, <2>8 DEF Single
<1> QED BY <1>8, <1>11, <1>12, <1>13, <1>14, <1>15, <1>16 DEF AInv

(* Code that did not fit is emitted again. *)
LEMMA RetryStep ==
  ASSUME AInv, UNCHANGED program, NEW t \in Threads, Retry(t)
  PROVE  AInv'
<1> USE ProgramSame
<1> DEFINE f == job.f
           a == emitted[f]
           n == Code("freed", None)
<1>1. /\ th[t].pc = "emit" /\ Goto(t, "start")
      /\ mem' = [mem EXCEPT ![a] = n]
      /\ emitted' = [emitted EXCEPT ![f] = Null]
      /\ used' = [used EXCEPT !.retries = @ + 1]
      /\ UNCHANGED <<maps, alive, stubOf, callSites, pending, lock, job, given>>
  BY DEF Retry
<1>2. /\ lock = t /\ t # NoThread /\ InCall(t) /\ ~Starting
      /\ f \in alive \ External /\ f \in Globals
      /\ th[t].f \in alive \ External /\ th[t].f \in Globals
  BY <1>1, JobFacts
<1>3. /\ Null \notin Memory /\ None \notin Globals
      /\ alive \subseteq Globals /\ Null # Resolver /\ Null \in Locations
      /\ emitted \in [Globals -> Memory \cup {Null}] /\ mem \in MemType
      /\ stubOf \in [Globals -> Memory \cup {Null}] /\ callSites \subseteq Memory
  BY ProgramFacts DEF AInv, Types
<1>4. /\ a \in Memory /\ mem[a].kind = "body" /\ mem[a].fn = f
      /\ emitted[th[t].f] # Null
  BY <1>2, <1>3 DEF AInv, Session, Tables
<1>5. /\ n \in [kind : Kinds, fn : Globals \cup {None},
                calls : SUBSET (Globals \X Locations), done : BOOLEAN,
                jump : Locations \cup {Resolver}]
      /\ n.kind = "freed" /\ n.fn = None /\ n.jump = Null
  BY <1>3 DEF Code, Kinds
<1> HIDE DEF n, f
<1>6. /\ mem' \in MemType /\ mem'[a].kind = "freed" /\ mem'[a].fn = None
      /\ mem'[a].jump = Null
      /\ \A b \in Memory \ {a} : mem'[b] = mem[b]
  BY <1>1, <1>3, <1>4, <1>5 DEF MemType
<1>7. /\ emitted' \in [Globals -> Memory \cup {Null}] /\ emitted'[f] = Null
      /\ \A h \in Globals \ {f} : emitted'[h] = emitted[h]
  BY <1>1, <1>2, <1>3
<1>8. /\ th' \in [Threads -> CallType]
      /\ \A u \in Threads \ {t} : th'[u] = th[u]
      /\ th'[t].pc = "start" /\ th'[t].op = th[t].op
      /\ th'[t].f = th[t].f /\ th'[t].at = th[t].at
  BY <1>1, GotoStep DEF AInv
<1>9. /\ used' \in [retries : Nat, recompiles : Nat, frees : Nat]
      /\ used'.recompiles = used.recompiles
  <2>1. used \in [retries : Nat, recompiles : Nat, frees : Nat]
    BY DEF AInv, Types
  <2> QED BY <1>1, <2>1
<1>10. Types'
  BY <1>1, <1>6, <1>7, <1>8, <1>9 DEF AInv, Types, Calls
<1>11. Starting' /\ Queue' = Queue BY <1>1, <1>2, <1>8 DEF Starting, Queue
<1>12. \A h \in Globals : h # f => emitted[h] # a
  BY <1>2, <1>3, <1>4 DEF AInv, Tables
<1>20. ASSUME NEW h \in Globals, NEW b, Holding(h, b)
       PROVE  /\ b # a /\ b # Null /\ mem'[b] = mem[b]
              /\ th'[t].f = h => Holding(th[t].f, b)'
              /\ \A u \in Threads \ {t} : th[u].f = h => Holding(th[u].f, b)'
  <2>1. b \in Memory /\ b # a /\ b # Null
    BY <1>2, <1>3, <1>20 DEF Holding, f
  <2>2. mem'[b] = mem[b] BY <1>6, <2>1
  <2>3. mem'[b].kind = "body" /\ mem'[b].fn = h BY <1>20, <2>2 DEF Holding
  <2> QED BY <1>8, <1>11, <2>1, <2>2, <2>3 DEF Holding
<1>21. \A h \in Globals : emitted'[h] = emitted[h] \/ emitted'[h] = Null
  BY <1>7
<1>13. InCall(t)'
  <2>1. Held(t)' = Held(t) BY <1>1, <1>8 DEF Held
  <2>2. \A b \in Held(t) : Holding(th[t].f, b)'
    BY <1>2, <1>8, <1>20, <2>1 DEF InCall
  <2>3. CASE GetCall(t)
    BY <1>1, <1>2, <1>8, <2>1, <2>2, <2>3 DEF InCall, GetCall
  <2>4. CASE StubCall(t)
    BY <1>1, <1>2, <1>8, <2>1, <2>2, <2>4 DEF InCall, StubCall
  <2>5. CASE RecompileCall(t)
    <3>1. th[t].op = "recompile" /\ emitted[th[t].f] # th[t].at
      BY <1>1, <2>5 DEF RecompileCall
    <3>2. Held(t) = {th[t].at} BY <1>1, <3>1 DEF Held
    <3>3. Holding(th[t].f, th[t].at) BY <1>2, <3>2 DEF InCall
    <3>4. emitted'[th[t].f] # th[t].at BY <1>2, <1>20, <1>21, <3>1, <3>3
    <3>5. RecompileCall(t)'
      BY <1>1, <1>2, <1>8, <1>9, <2>5, <3>1, <3>4 DEF RecompileCall
    <3> QED BY <1>1, <1>2, <1>8, <2>1, <2>2, <3>5 DEF InCall
  <2> QED BY <1>2, <2>3, <2>4, <2>5 DEF InCall
<1>14. Threading'
  <2>1. ASSUME NEW u \in Threads \ {t}, th[u] # Idle PROVE Kept(u)
    <3>1. InCall(u) /\ th[u].f \in Globals /\ th[u].f \in alive
      BY <1>3, <2>1 DEF AInv, Threading, InCall
    <3>2. th[u].pc \notin {"start", "emit"}
      BY <1>2 DEF AInv, Threading, Holds
    <3>3. \A b \in Held(u) : Holding(th[u].f, b)' /\ b # Null
      BY <1>20, <3>1 DEF InCall
    <3>4. \/ emitted'[th[u].f] = emitted[th[u].f]
          \/ emitted'[th[u].f] \notin Held(u)
      BY <1>21, <3>1, <3>3
    <3>5. th[u].pc = "relink" => mem'[th[u].at[2]] = mem[th[u].at[2]]
      BY <1>20, <3>1, RelinkFacts
    <3>6. th[u].op = "recompile" => used'.recompiles # 0
      BY <1>9, <3>1 DEF InCall, GetCall, StubCall, RecompileCall
    <3> QED BY <1>1, <3>1, <3>2, <3>3, <3>4, <3>5, <3>6 DEF Kept
  <2>2. Holds(t)' <=> lock' = t BY <1>1, <1>2, <1>8 DEF Holds
  <2> QED BY <1>1, <1>2, <1>8, <1>10, <1>13, <2>1, <2>2, ThreadStep DEF AInv
<1>15. Session'
  <2>1. \/ emitted'[th[t].f] # Null /\ Lookup(maps, th[t].f) # Null
        \/ job.f = th[t].f
    BY <1>2, <1>4, <1>7 DEF f, AInv, Session
  <2> QED BY <1>1, <1>2, <1>8, <1>11, <2>1 DEF AInv, Session
<1>16. Tables'
  <2>1. Tables /\ Types BY DEF AInv
  <2>2. ASSUME NEW b \in Memory
        PROVE  /\ (NoCode(b))' <=> mem'[b].fn = None
               /\ mem'[b].jump = Resolver => Lazily /\ mem'[b].fn \notin External
    <3>1. CASE b = a BY <1>3, <1>6, <3>1 DEF NoCode
    <3>2. CASE b # a BY <1>6, <2>1, <3>2 DEF Tables, NoCode
    <3> QED BY <3>1, <3>2
  <2>3. ASSUME NEW h \in Globals, emitted'[h] # Null
        PROVE  /\ h \in alive \ External
               /\ mem'[emitted'[h]].kind = "body" /\ mem'[emitted'[h]].fn = h
               /\ mem'[emitted'[h]].jump = Null
    <3>1. emitted'[h] = emitted[h] /\ emitted[h] \in Memory \ {a}
      BY <1>3, <1>7, <1>12, <2>3
    <3>2. mem'[emitted[h]] = mem[emitted[h]] BY <1>6, <3>1
    <3> QED BY <2>1, <2>3, <3>1, <3>2 DEF Tables
  <2>4. ASSUME NEW h \in Globals, stubOf[h] # Null
        PROVE  /\ h \in alive
               /\ mem'[stubOf[h]].kind = "stub" /\ mem'[stubOf[h]].fn = h
    <3>1. /\ stubOf[h] \in Memory /\ h \in alive
          /\ mem[stubOf[h]].kind = "stub" /\ mem[stubOf[h]].fn = h
      BY <1>3, <2>1, <2>4 DEF Tables
    <3> QED BY <1>4, <1>6, <3>1
  <2>5. ASSUME NEW c \in callSites
        PROVE  /\ mem'[c].kind = "stub" /\ mem'[c].fn \in alive
               /\ stubOf[mem'[c].fn] = c
    <3>1. /\ c \in Memory /\ mem[c].kind = "stub" /\ mem[c].fn \in alive
          /\ stubOf[mem[c].fn] = c
      BY <1>3, <2>1 DEF Tables
    <3> QED BY <1>4, <1>6, <3>1
  <2> QED BY <1>1, <2>1, <2>2, <2>3, <2>4, <2>5 DEF Tables
<1>17. Mapped'
  <2>1. Mapped BY DEF AInv
  <2>2. ASSUME NEW h \in Globals, Lookup(maps, h) # Null
        PROVE  \/ h \in External /\ Lookup(maps, h) = ExternalAddr[h]
               \/ h \in External /\ Lookup(maps, h) = stubOf[h]
               \/ /\ h \notin External /\ Lookup(maps, h) \in Memory
                  /\ mem'[Lookup(maps, h)].fn = h
               \/ /\ Lookup(maps, h) \in Memory /\ h = f
                  /\ mem'[Lookup(maps, h)].kind = "freed"
    <3>1. \/ h \in External /\ Lookup(maps, h) = ExternalAddr[h]
          \/ h \in External /\ Lookup(maps, h) = stubOf[h]
          \/ /\ h \notin External /\ Lookup(maps, h) \in Memory
             /\ mem[Lookup(maps, h)].fn = h
      BY <1>2, <2>1, <2>2 DEF Mapped
    <3> QED BY <1>4, <1>6, <3>1
  <2>3. ASSUME NEW h \in alive \ External, h # f
        PROVE  \/ Lookup(maps, h) = emitted'[h]
               \/ h \in Queue /\ Lookup(maps, h) = stubOf[h]
               \/ Unmapped(h)'
    <3>1. Unmapped(h) => Unmapped(h)' BY <1>1, <1>8 DEF Unmapped
    <3> QED BY <1>2, <1>3, <1>7, <2>1, <2>3, <3>1 DEF Mapped
  <2>4. \A h : Lookup(maps', h) = Lookup(maps, h) BY <1>1
  <2> QED BY <1>1, <1>11, <2>1, <2>2, <2>3, <2>4 DEF Mapped, f
<1>18. InverseMaps' BY <1>1, <1>9 DEF AInv, InverseMaps
<1>19. Single'
  <2> SUFFICES ASSUME ~FarStubs, used.recompiles = 0 PROVE Single'
    BY <1>9 DEF Single
  <2>1. Single BY DEF AInv
  <2>3. ASSUME NEW b \in Memory, (Body(b))' PROVE emitted'[mem'[b].fn] = b
    <3>1. b # a BY <1>6, <2>3 DEF Body
    <3>2. Body(b) /\ mem'[b].fn = mem[b].fn BY <1>6, <2>3, <3>1 DEF Body
    <3>3. emitted[mem[b].fn] = b BY <2>1, <3>2 DEF Single
    <3>4. mem[b].fn \in Globals
      BY <3>2 DEF Body, AInv, Tables, Types, NoCode, MemType
    <3>5. mem[b].fn # f BY <3>1, <3>3
    <3> QED BY <1>7, <3>2, <3>3, <3>4, <3>5
  <2>4. f \notin Queue /\ \A h \in Queue : emitted[h] = Null
    BY <1>2, <2>1 DEF Single, f
  <2>5. Queue \subseteq Globals BY <1>2, <1>3 DEF AInv, Session
  <2>6. \A h \in Queue' : emitted'[h] = Null BY <1>7, <1>11, <2>4, <2>5
  <2>7. \A i, j \in 1..Len(pending') : pending'[i] = pending'[j] => i = j
    BY <1>1, <2>1 DEF Single
  <2>8. job'.f \notin Queue' /\ emitted'[job'.f] = Null
    BY <1>1, <1>7, <1>11, <2>4 DEF f
  <2> QED BY <1>11, <2>3, <2>6, <2>7, <2>8 DEF Single
<1> QED BY <1>10, <1>14, <1>15, <1>16, <1>17, <1>18, <1>19 DEF AInv

(* The code of job.f is finished, and its stub filled in when it was on the  *)
(* work list.                                                                *)
BodyFinished ==
  /\ mem' \in MemType
  /\ \A b \in Memory :
       /\ mem'[b].kind = mem[b].kind /\ mem'[b].fn = mem[b].fn
       /\ b # emitted[job.f] => /\ mem'[b].calls = mem[b].calls
                                /\ mem'[b].done = mem[b].done
       /\ ~job.queued \/ b # stubOf[job.f] => mem'[b].jump = mem[b].jump
  /\ mem'[emitted[job.f]].done = TRUE
  /\ mem'[emitted[job.f]].calls = job.calls
  /\ job.queued => mem'[stubOf[job.f]].jump = Lookup(maps, job.f)
  /\ Lookup(maps, job.f) \in Locations

LEMMA FinishFacts ==
  ASSUME AInv, UNCHANGED program, NEW t \in Threads, FinishFunction(t)
  PROVE  BodyFinished
<1> DEFINE f == job.f
           a == emitted[f]
           c == job.calls
           j == Lookup(maps, f)
           s == stubOf[f]
           W == [mem EXCEPT ![a].done = TRUE, ![a].calls = c]
<1>1. /\ th[t].pc = "emit"
      /\ mem' = IF job.queued THEN [W EXCEPT ![s].jump = j] ELSE W
  BY DEF FinishFunction, updateFunctionStub
<1>2. lock = t /\ t # NoThread /\ ~Starting /\ f \in alive \ External
      /\ f \in Globals
  BY <1>1, JobFacts
<1>3. a \in Memory /\ c \in SUBSET (Globals \X Locations) /\ mem \in MemType
  BY <1>2, ProgramFacts DEF AInv, Session, Types, JobType
<1>4. j \in Locations BY <1>2, LookupType DEF AInv, Types
<1>5. job.queued => s \in Memory BY <1>2 DEF AInv, Session, Types
<1> HIDE DEF W, a, c, j, s, f
<1>6. /\ W \in MemType
      /\ \A b \in Memory :
           /\ W[b].kind = mem[b].kind /\ W[b].fn = mem[b].fn
           /\ W[b].jump = mem[b].jump
           /\ b # a => W[b].calls = mem[b].calls /\ W[b].done = mem[b].done
      /\ W[a].done = TRUE /\ W[a].calls = c
  BY <1>3 DEF MemType, W
<1>7. /\ mem' \in MemType
      /\ \A b \in Memory :
           /\ mem'[b].kind = W[b].kind /\ mem'[b].fn = W[b].fn
           /\ mem'[b].calls = W[b].calls /\ mem'[b].done = W[b].done
           /\ ~job.queued \/ b # s => mem'[b].jump = W[b].jump
      /\ job.queued => mem'[s].jump = j
  <2>1. CASE job.queued
    <3>1. mem' = [W EXCEPT ![s].jump = j] BY <1>1, <2>1
    <3> QED BY <1>4, <1>5, <1>6, <2>1, <3>1 DEF MemType
  <2>2. CASE ~job.queued BY <1>1, <1>6, <2>2
  <2> QED BY <2>1, <2>2
<1>8. /\ \A b \in Memory :
           /\ mem'[b].kind = mem[b].kind /\ mem'[b].fn = mem[b].fn
           /\ b # a => mem'[b].calls = mem[b].calls /\ mem'[b].done = mem[b].done
           /\ ~job.queued \/ b # s => mem'[b].jump = mem[b].jump
      /\ mem'[a].done = TRUE /\ mem'[a].calls = c
  BY <1>3, <1>6, <1>7
<1> QED BY <1>4, <1>7, <1>8 DEF BodyFinished, a, c, j, s, f

(* What follows the compilation of a function: the next of the work list, or *)
(* the end of the call.                                                      *)
LEMMA NextFacts ==
  ASSUME AInv, UNCHANGED program, NEW t \in Threads, FinishFunction(t)
  PROVE  /\ th' \in [Threads -> CallType] /\ given' \subseteq Globals \X Locations
         /\ pending' \in Seq(Globals) /\ job' \in JobType
         /\ lock' \in {t, NoThread}
         /\ \A u \in Threads \ {t} : th'[u] = th[u]
         /\ lock' = t =>
              /\ pending # <<>> /\ ~Lazily
              /\ job'.f \in Queue /\ job'.queued = TRUE
              /\ Queue = Queue' \cup {job'.f}
              /\ th'[t].pc = "start" /\ th'[t].op = th[t].op
              /\ th'[t].f = th[t].f /\ th'[t].at = th[t].at
              /\ given' = given
              /\ (\A i, k \in 1..Len(pending) : pending[i] = pending[k] => i = k)
                   => /\ job'.f \notin Queue'
                      /\ \A i, k \in 1..Len(pending') :
                           pending'[i] = pending'[k] => i = k
         /\ lock' = NoThread =>
              /\ pending = <<>> /\ pending' = <<>> /\ job' = NoJob
              /\ Queue = {} /\ Queue' = {}
              /\ Lookup(maps, th[t].f) = emitted[th[t].f]
              /\ th[t].op = "recompile" =>
                   /\ th'[t].pc = "find" /\ th'[t].op = th[t].op
                   /\ th'[t].f = th[t].f /\ th'[t].at = th[t].at
                   /\ given' = given
              /\ th[t].op = "stub" =>
                   /\ th'[t].pc = "patch" /\ th'[t].op = "stub"
                   /\ th'[t].f = th[t].f /\ given' = given
                   /\ th'[t].at = <<th[t].at, emitted[th[t].f]>>
              /\ th[t].op \notin {"stub", "recompile"} =>
                   /\ th'[t] = Idle
                   /\ given' = given \cup {<<th[t].f, emitted[th[t].f]>>}
<1>1. th[t].pc = "emit" /\ NextFunction(t) BY DEF FinishFunction
<1>2. /\ lock = t /\ t # NoThread /\ InCall(t) /\ ~Starting
      /\ th[t].f \in alive \ External /\ th[t].f \in Globals
  BY <1>1, JobFacts
<1>3. pending \in Seq(Globals) /\ given \subseteq Globals \X Locations
      /\ None \notin Globals /\ maps \in MapsType
  BY ProgramFacts DEF AInv, Types
<1>4. CASE pending # <<>>
  <2> DEFINE g == pending[Len(pending)]
  <2>1. /\ pending' = SubSeq(pending, 1, Len(pending) - 1)
        /\ job' = Job(g, TRUE)
        /\ Goto(t, "start") /\ UNCHANGED <<lock, given>>
    BY <1>1, <1>4 DEF NextFunction
  <2>2. /\ pending' \in Seq(Globals) /\ g \in Globals
        /\ Queue = Queue' \cup {g}
        /\ Len(pending') = Len(pending) - 1 /\ Len(pending) \in Nat \ {0}
        /\ \A i \in 1..(Len(pending) - 1) : pending'[i] = pending[i]
    BY <1>3, <1>4, <2>1, QueuePop
  <2>3. ASSUME \A i, k \in 1..Len(pending) : pending[i] = pending[k] => i = k
        PROVE  /\ g \notin Queue'
               /\ \A i, k \in 1..Len(pending') : pending'[i] = pending'[k] => i = k
    <3> DEFINE n == Len(pending)
    <3>1. n \in Nat \ {0} /\ Len(pending') = n - 1 BY <2>2
    <3>2. \A i \in 1..(n - 1) : pending'[i] = pending[i] BY <2>2
    <3>3. \A i, k \in 1..n : pending[i] = pending[k] => i = k BY <2>3
    <3>4. g = pending[n] OBVIOUS
    <3> HIDE DEF n, g
    <3>5. \A i \in 1..(n - 1) : pending'[i] # g BY <3>1, <3>2, <3>3, <3>4
    <3>6. g \notin Queue' BY <3>1, <3>5 DEF Queue
    <3>7. \A i, k \in 1..Len(pending') : pending'[i] = pending'[k] => i = k
      BY <3>1, <3>2, <3>3
    <3> QED BY <3>6, <3>7
  <2> HIDE DEF g
  <2>4. job' \in JobType /\ job'.f = g /\ job'.queued = TRUE
    BY <2>1, <2>2 DEF Job, NoJob, JobType
  <2>5. /\ th' \in [Threads -> CallType]
        /\ \A u \in Threads \ {t} : th'[u] = th[u]
        /\ th'[t].pc = "start" /\ th'[t].op = th[t].op
        /\ th'[t].f = th[t].f /\ th'[t].at = th[t].at
    BY <2>1, GotoStep DEF AInv
  <2>6. ~Lazily BY <1>2, <1>4 DEF AInv, Session
  <2> QED BY <1>2, <1>3, <1>4, <2>1, <2>2, <2>3, <2>4, <2>5, <2>6
<1>5. CASE pending = <<>>
  <2>1. /\ pending' = <<>> /\ lock' = NoThread /\ job' = NoJob
        /\ IF th[t].op = "recompile"
             THEN Goto(t, "find") /\ UNCHANGED given
             ELSE Return(t, Lookup(maps, th[t].f))
    BY <1>1, <1>5 DEF NextFunction, Release
  <2>2. Queue = {} /\ Queue' = {} BY <1>5, <2>1 DEF Queue
  <2>3. Lookup(maps, th[t].f) = emitted[th[t].f]
    BY <1>2, <2>2 DEF AInv, Mapped, Session, Unmapped
  <2>4. Lookup(maps, th[t].f) \in Locations BY <1>2, <1>3, LookupType
  <2> DEFINE x == Lookup(maps, th[t].f)
  <2>5. NoJob \in JobType BY DEF NoJob, JobType
  <2>6. CASE th[t].op = "recompile"
    <3>1. Goto(t, "find") /\ given' = given BY <2>1, <2>6
    <3>2. /\ th' \in [Threads -> CallType]
          /\ \A u \in Threads \ {t} : th'[u] = th[u]
          /\ th'[t].pc = "find" /\ th'[t].op = th[t].op
          /\ th'[t].f = th[t].f /\ th'[t].at = th[t].at
      BY <3>1, GotoStep DEF AInv
    <3> QED BY <1>2, <1>3, <1>5, <2>1, <2>2, <2>3, <2>5, <2>6, <3>1, <3>2
  <2>7. CASE th[t].op # "recompile"
    <3>1. Return(t, x) /\ x \in Locations /\ x = emitted[th[t].f]
      BY <2>1, <2>3, <2>4, <2>7
    <3> HIDE DEF x
    <3>2. th[t].op = "stub" => th[t].at \in Locations
      BY <1>1, CallFacts
    <3>3. /\ th' \in [Threads -> CallType] /\ given' \subseteq Globals \X Locations
          /\ \A u \in Threads \ {t} : th'[u] = th[u]
          /\ th[t].op = "stub" =>
               /\ th'[t].pc = "patch" /\ th'[t].op = "stub"
               /\ th'[t].f = th[t].f /\ th'[t].at = <<th[t].at, x>>
               /\ given' = given
          /\ th[t].op # "stub" =>
               th'[t] = Idle /\ given' = given \cup {<<th[t].f, x>>}
      BY <1>2, <3>1, <3>2, ReturnStep DEF AInv
    <3> QED BY <1>2, <1>3, <1>5, <2>1, <2>2, <2>3, <2>5, <2>7, <3>1, <3>3
  <2> QED BY <2>6, <2>7
<1> QED BY <1>4, <1>5

LEMMA FinishFunctionStep ==
  ASSUME AInv, UNCHANGED program, NEW t \in Threads, FinishFunction(t)
  PROVE  AInv'
<1> USE ProgramSame
<1>1. /\ th[t].pc = "emit"
      /\ UNCHANGED <<maps, alive, emitted, stubOf, callSites, used>>
  BY DEF FinishFunction
<1>2. /\ lock = t /\ t # NoThread /\ InCall(t) /\ ~Starting
      /\ job.f \in alive \ External /\ job.f \in Globals
      /\ th[t].f \in alive \ External /\ th[t].f \in Globals
  BY <1>1, JobFacts
<1>3. /\ mem' \in MemType
      /\ \A b \in Memory :
           /\ mem'[b].kind = mem[b].kind /\ mem'[b].fn = mem[b].fn
           /\ ~job.queued \/ b # stubOf[job.f] => mem'[b].jump = mem[b].jump
      /\ job.queued => mem'[stubOf[job.f]].jump = Lookup(maps, job.f)
      /\ Lookup(maps, job.f) \in Locations
  BY FinishFacts DEF BodyFinished
<1>4. /\ th' \in [Threads -> CallType] /\ given' \subseteq Globals \X Locations
      /\ pending' \in Seq(Globals) /\ job' \in JobType
      /\ lock' \in {t, NoThread}
      /\ \A u \in Threads \ {t} : th'[u] = th[u]
      /\ lock' = t =>
           /\ pending # <<>> /\ ~Lazily
           /\ job'.f \in Queue /\ job'.queued = TRUE
           /\ Queue = Queue' \cup {job'.f}
           /\ th'[t].pc = "start" /\ th'[t].op = th[t].op
           /\ th'[t].f = th[t].f /\ th'[t].at = th[t].at
           /\ (\A i, k \in 1..Len(pending) : pending[i] = pending[k] => i = k)
                => /\ job'.f \notin Queue'
                   /\ \A i, k \in 1..Len(pending') :
                        pending'[i] = pending'[k] => i = k
      /\ lock' = NoThread =>
           /\ pending = <<>> /\ pending' = <<>> /\ job' = NoJob
           /\ Queue = {} /\ Queue' = {}
           /\ th[t].op = "recompile" =>
                /\ th'[t].pc = "find" /\ th'[t].op = th[t].op
                /\ th'[t].f = th[t].f /\ th'[t].at = th[t].at
           /\ th[t].op = "stub" =>
                /\ th'[t].pc = "patch" /\ th'[t].op = "stub"
                /\ th'[t].f = th[t].f
                /\ th'[t].at = <<th[t].at, emitted[th[t].f]>>
           /\ th[t].op \notin {"stub", "recompile"} => th'[t] = Idle
  BY NextFacts
<1>5. Types' BY <1>1, <1>3, <1>4 DEF AInv, Types, Calls
<1>6. emitted[th[t].f] # Null /\ Lookup(maps, th[t].f) # Null
  BY <1>2 DEF AInv, Session
<1>16. lock' = t => Starting' BY <1>2, <1>4 DEF Starting
<1>17. \A b \in Memory : mem[b].kind = "body" => mem'[b].jump = mem[b].jump
  <2>1. job.queued => stubOf[job.f] # Null BY <1>2 DEF AInv, Session
  <2>2. job.queued => mem[stubOf[job.f]].kind = "stub"
    BY <1>2, <2>1 DEF AInv, Tables
  <2> QED BY <1>3, <2>2
<1>18. ASSUME NEW h, NEW b, Holding(h, b)
       PROVE  /\ mem'[b].jump = mem[b].jump
              /\ th'[t].f = h => Holding(th[t].f, b)'
              /\ \A u \in Threads \ {t} : th[u].f = h => Holding(th[u].f, b)'
  <2>1. b \in Memory /\ mem'[b].kind = "body" /\ mem'[b].fn = h
    BY <1>3, <1>18 DEF Holding
  <2>2. lock' = NoThread \/ Starting' BY <1>4, <1>16
  <2> QED BY <1>4, <1>17, <1>18, <2>1, <2>2 DEF Holding
<1>7. th'[t] = Idle \/ InCall(t)'
  <2>1. CASE GetCall(t)
    <3>1. CASE lock' = t
      <4>1. Held(t)' = {} BY <1>4, <2>1, <3>1 DEF Held, GetCall
      <4> QED BY <1>1, <1>2, <1>4, <2>1, <3>1, <4>1 DEF InCall, GetCall
    <3>2. CASE lock' = NoThread BY <1>4, <2>1, <3>2 DEF GetCall
    <3> QED BY <1>4, <3>1, <3>2
  <2>2. CASE StubCall(t)
    <3>1. /\ lock' = NoThread /\ th[t].op = "stub" /\ Lazily
          /\ th[t].at = stubOf[th[t].f] /\ stubOf[th[t].f] # Null
      BY <1>1, <1>4, <2>2 DEF StubCall
    <3> DEFINE a == emitted[th[t].f]
    <3>2. /\ th'[t].pc = "patch" /\ th'[t].op = "stub" /\ th'[t].f = th[t].f
          /\ th'[t].at = <<th[t].at, a>>
      BY <1>2, <1>4, <3>1
    <3>3. a \in Memory /\ mem[a].kind = "body" /\ mem[a].fn = th[t].f
      BY <1>2, <1>6 DEF AInv, Types, Tables
    <3> HIDE DEF a
    <3>4. th'[t].at[2] = a BY <3>2
    <3>5. Held(t)' = {a} BY <3>2, <3>4 DEF Held
    <3>6. \A b : b = a => Holding(th[t].f, b)'
      BY <1>3, <3>1, <3>2, <3>3 DEF Holding
    <3> QED
      BY <1>1, <1>2, <1>4, <3>1, <3>2, <3>4, <3>5, <3>6 DEF InCall, StubCall, FinishFunction
  <2>3. CASE RecompileCall(t)
    <3>1. /\ th[t].op = "recompile" /\ emitted[th[t].f] # th[t].at
          /\ used.recompiles # 0 /\ Held(t) = {th[t].at}
      BY <1>1, <2>3 DEF RecompileCall, Held
    <3>2. Holding(th[t].f, th[t].at) BY <1>2, <3>1 DEF InCall
    <3>3. /\ th'[t].pc \in {"start", "find"} /\ th'[t].op = "recompile"
          /\ th'[t].f = th[t].f /\ th'[t].at = th[t].at
      BY <1>4, <3>1
    <3>4. Held(t)' = {th[t].at} BY <3>3 DEF Held
    <3>5. \A b : b = th[t].at => Holding(th[t].f, b)' BY <1>18, <3>2, <3>3
    <3> QED
      BY <1>1, <1>2, <1>6, <3>1, <3>3, <3>4, <3>5 DEF InCall, RecompileCall, FinishFunction
  <2> QED BY <1>2, <2>1, <2>2, <2>3 DEF InCall
<1>8. Threading'
  <2>1. ASSUME NEW u \in Threads \ {t}, th[u] # Idle PROVE Kept(u)
    <3>1. InCall(u) BY <2>1 DEF AInv, Threading
    <3>2. th[u].pc \notin {"start", "emit"}
      BY <1>2 DEF AInv, Threading, Holds
    <3>3. \A b \in Held(u) : Holding(th[u].f, b)'
      BY <1>18, <3>1 DEF InCall
    <3>4. th[u].pc = "relink" => mem'[th[u].at[2]].jump = mem[th[u].at[2]].jump
      BY <1>18, RelinkFacts
    <3>5. th[u].op = "recompile" => used.recompiles # 0
      BY <3>1 DEF InCall, GetCall, StubCall, RecompileCall
    <3> QED BY <1>1, <3>1, <3>2, <3>3, <3>4, <3>5 DEF Kept, InCall
  <2>2. Holds(t)' <=> lock' = t
    <3>1. lock' = NoThread => th'[t].pc \in {"find", "patch", "idle"}
      BY <1>2, <1>4, IdleFields DEF InCall
    <3> QED BY <1>2, <1>4, <3>1 DEF Holds
  <2>3. th'[t].op = "recompile" =>
          th[t].op = "recompile" /\ th[t].f = th'[t].f
    BY <1>2, <1>4, IdleFields DEF InCall
  <2> QED BY <1>2, <1>4, <1>5, <1>7, <2>1, <2>2, <2>3, ThreadStep DEF AInv
<1>9. lock' = t => Starting' BY <1>2, <1>4 DEF Starting
<1>10. lock' = NoThread => ~Starting' BY DEF Starting
<1>11. Session'
  <2>1. CASE lock' = t
    <3>1. /\ Queue \subseteq alive \ External
          /\ \A f \in Queue : stubOf[f] # Null
      BY <1>2 DEF AInv, Session
    <3> QED BY <1>1, <1>2, <1>4, <1>6, <1>9, <2>1, <3>1 DEF Session
  <2>2. CASE lock' = NoThread BY <1>4, <2>2 DEF Session
  <2> QED BY <1>4, <2>1, <2>2
<1>12. Tables'
  <2>1. Tables /\ Types BY DEF AInv
  <2>2. \A b \in Memory :
          /\ NoCode(b)' <=> NoCode(b)
          /\ mem'[b].jump = Resolver => mem[b].jump = Resolver
    <3>1. Resolver \notin Locations BY ProgramFacts DEF AInv
    <3> QED BY <1>3, <3>1 DEF NoCode
  <2>3. \A f \in Globals : emitted[f] # Null =>
          /\ emitted[f] \in Memory
          /\ mem'[emitted[f]].jump = mem[emitted[f]].jump
    <3>1. job.queued => stubOf[job.f] # Null BY <1>2 DEF AInv, Session
    <3>2. job.queued => mem[stubOf[job.f]].kind = "stub"
      BY <1>2, <2>1, <3>1 DEF Tables
    <3>3. \A f \in Globals : emitted[f] # Null =>
            emitted[f] \in Memory /\ mem[emitted[f]].kind = "body"
      BY <2>1 DEF Tables, Types
    <3> QED BY <1>3, <3>2, <3>3
  <2>4. \A f \in Globals : stubOf[f] # Null => stubOf[f] \in Memory
    BY <2>1 DEF Types
  <2>5. callSites \subseteq Memory BY <2>1 DEF Types
  <2> QED BY <1>1, <1>3, <2>1, <2>2, <2>3, <2>4, <2>5 DEF Tables
<1>13. Mapped'
  <2>1. Mapped BY DEF AInv
  <2>2. \A f : Lookup(maps', f) = Lookup(maps, f) BY <1>1
  <2>3. \A f \in Globals : Lookup(maps, f) # Null =>
          \/ f \in External /\ Lookup(maps, f) = ExternalAddr[f]
          \/ f \in External /\ Lookup(maps, f) = stubOf[f]
          \/ /\ f \notin External /\ Lookup(maps, f) \in Memory
             /\ mem'[Lookup(maps, f)].fn = f
    BY <1>2, <1>3, <2>1 DEF Mapped
  <2>4. ASSUME NEW f \in alive \ External
        PROVE  \/ Lookup(maps, f) = emitted[f]
               \/ f \in Queue' /\ Lookup(maps, f) = stubOf[f]
               \/ Starting' /\ f = job'.f
               \/ Unmapped(f)'
    <3>1. \/ Lookup(maps, f) = emitted[f]
          \/ f \in Queue /\ Lookup(maps, f) = stubOf[f]
          \/ Unmapped(f)
      BY <1>2, <2>1 DEF Mapped
    <3>2. Unmapped(f) => Unmapped(f)' BY <1>1, <1>4, <2>2 DEF Unmapped
    <3> QED BY <1>4, <1>9, <3>1, <3>2
  <2> QED BY <1>1, <2>1, <2>2, <2>3, <2>4 DEF Mapped
<1>14. InverseMaps' BY <1>1 DEF AInv, InverseMaps
<1>15. Single'
  <2> SUFFICES ASSUME ~FarStubs, used.recompiles = 0 PROVE Single'
    BY <1>1 DEF Single
  <2>1. Single BY DEF AInv
  <2>3. ASSUME NEW b \in Memory, (Body(b))' PROVE emitted'[mem'[b].fn] = b
    <3>1. Body(b) BY <1>3, <1>17, <2>3 DEF Body
    <3> QED BY <1>1, <1>3, <2>1, <3>1 DEF Single
  <2>4. \A f \in Queue : emitted[f] = Null BY <2>1 DEF Single
  <2>5. \A i, k \in 1..Len(pending) : pending[i] = pending[k] => i = k
    BY <2>1 DEF Single
  <2>6. CASE lock' = t
    BY <1>1, <1>2, <1>4, <2>3, <2>4, <2>5, <2>6 DEF Single
  <2>7. CASE lock' = NoThread
    <3>1. \A i, k \in 1..Len(pending') : pending'[i] = pending'[k] => i = k
      BY <1>4, <2>7
    <3> QED BY <1>4, <1>10, <2>3, <2>7, <3>1 DEF Single
  <2> QED BY <1>4, <2>6, <2>7
<1> QED BY <1>5, <1>8, <1>11, <1>12, <1>13, <1>14, <1>15 DEF AInv

-----------------------------------------------------------------------------
(* Every step keeps the invariant. *)
LEMMA NextAInv ==
  ASSUME StubsAreLazy, ExternalsDiffer, AInv, [Next]_vars
  PROVE  AInv'
<1>1. CASE UNCHANGED vars
  BY <1>1, ProgramSame
     DEF vars, code, AInv, Types, Threading, InCall, GetCall, StubCall,
         RecompileCall, Held, Holding, Holds, Session, Starting, Queue, Tables,
         NoCode, Mapped, Unmapped, InverseMaps, Single, Body, Calls
<1>2. CASE \E t \in Threads : Progress(t)
  <2>1. PICK t \in Threads : Progress(t) BY <1>2
  <2>2. UNCHANGED program BY <2>1 DEF Progress
  <2>3. CASE CheckMap(t) BY <2>2, <2>3, CheckMapStep
  <2>4. CASE LockAndCheck(t) BY <2>2, <2>4, LockAndCheckStep
  <2>5. CASE StartFunction(t) BY <2>2, <2>5, StartFunctionStep
  <2>6. CASE \E g \in Globals : EmitDirectCall(t, g) \/ EmitStubCall(t, g)
    BY <2>2, <2>6, EmitDirectCallStep, EmitStubCallStep
  <2>7. CASE FinishFunction(t) BY <2>2, <2>7, FinishFunctionStep
  <2>8. CASE Patch(t) BY <2>2, <2>8, PatchStep
  <2>9. CASE Relink(t) BY <2>2, <2>9, RelinkStep
  <2>10. CASE GetStub(t) BY <2>2, <2>10, GetStubStep
  <2>11. CASE DeleteMapping(t) BY <2>2, <2>11, DeleteMappingStep
  <2>12. CASE runJITOnFunction(t) BY <2>2, <2>12, RunJITStep
  <2>13. CASE FindNewCode(t) BY <2>2, <2>13, FindNewCodeStep
  <2> QED
    BY <2>1, <2>3, <2>4, <2>5, <2>6, <2>7, <2>8, <2>9, <2>10, <2>11, <2>12,
       <2>13 DEF Progress
<1>3. CASE /\ UNCHANGED program
           /\ \/ \E t \in Threads : Retry(t)
              \/ \E t \in Threads, f \in Globals :
                   \/ getPointerToFunction(t, f) \/ recompileAndRelinkFunction(t, f)
                   \/ getPointerToFunctionOrStub(t, f)
              \/ \E t \in Threads, s \in Memory : CallStub(t, s)
              \/ \E f \in Globals : freeMachineCodeForFunction(f) \/ DeleteFunction(f)
              \/ Ask
  <2>1. CASE \E t \in Threads : Retry(t) BY <1>3, <2>1, RetryStep
  <2>2. CASE \E t \in Threads, f \in Globals : getPointerToFunction(t, f)
    BY <1>3, <2>2, GetStep
  <2>3. CASE \E t \in Threads, f \in Globals : recompileAndRelinkFunction(t, f)
    BY <1>3, <2>3, RecompileStep
  <2>4. CASE \E t \in Threads, f \in Globals : getPointerToFunctionOrStub(t, f)
    BY <1>3, <2>4, OrStubStep
  <2>5. CASE \E t \in Threads, s \in Memory : CallStub(t, s)
    BY <1>3, <2>5, CallStubStep
  <2>6. CASE \E f \in Globals : freeMachineCodeForFunction(f)
    BY <1>3, <2>6, FreeStep
  <2>7. CASE \E f \in Globals : DeleteFunction(f) BY <1>3, <2>7, DeleteStep
  <2>8. CASE Ask BY <1>3, <2>8, AskStep
  <2> QED BY <1>3, <2>1, <2>2, <2>3, <2>4, <2>5, <2>6, <2>7, <2>8
<1> QED BY <1>1, <1>2, <1>3 DEF Next

(* In every state the tables and mappings are in order. *)
LEMMA AlwaysAInv ==
  ASSUME StubsAreLazy, ExternalsDiffer PROVE Spec => []AInv
<1>1. AInv /\ [Next]_vars => AInv' BY NextAInv
<1> QED BY <1>1, InitAInv, PTL DEF Spec

(* The tables of the engine agree: a lazy resolver's call site is of a       *)
(* function that exists, and the two global maps are inverse to each other.  *)
THEOREM EngineTablesAgree ==
  ASSUME StubsAreLazy, ExternalsDiffer PROVE Spec => []TablesAgree
<1>1. ASSUME AInv PROVE TablesAgree
  <2>1. /\ alive \subseteq Globals /\ mem \in MemType /\ maps \in MapsType
        /\ given \subseteq Globals \X Locations
    BY <1>1, ProgramFacts DEF AInv, Types
  <2>2. TypeOK BY <1>1, <2>1 DEF TypeOK, AInv, Types, Threading, MapsType, MemType
  <2>3. \A s \in callSites : mem[s].fn \in alive BY <1>1 DEF AInv, Tables
  <2>4. ReverseInUse(maps) /\ used.recompiles = 0 =>
          \A f \in Globals, a \in Addrs : maps.fwd[f] = a <=> maps.rev[a] = f
    BY <1>1 DEF AInv, InverseMaps
  <2> QED BY <2>2, <2>3, <2>4 DEF TablesAgree
<1>2. AInv => TablesAgree BY <1>1
<1> QED BY <1>2, AlwaysAInv, PTL

(* Whoever asks for a function, and however it is found, it is compiled once *)
(* (JIT::getPointerToFunction, which looks again under the lock).            *)
THEOREM CompiledOnce ==
  ASSUME StubsAreLazy, ExternalsDiffer PROVE Spec => []OneBodyPerFunction
<1>1. ASSUME AInv PROVE OneBodyPerFunction
  <2> SUFFICES ASSUME used.recompiles = 0, ~FarStubs,
                      NEW a \in Memory, NEW b \in Memory,
                      Body(a), Body(b), mem[a].fn = mem[b].fn
               PROVE  a = b
    BY DEF OneBodyPerFunction
  <2> QED BY <1>1 DEF AInv, Single
<1>2. AInv => OneBodyPerFunction BY <1>1
<1> QED BY <1>2, AlwaysAInv, PTL

(* When a function is destroyed its mapping is removed and its code freed.   *)
THEOREM DeletedIsFreed ==
  ASSUME StubsAreLazy, ExternalsDiffer PROVE Spec => []DestroyedCodeIsFreed
<1>1. ASSUME AInv PROVE DestroyedCodeIsFreed
  <2> SUFFICES ASSUME NEW f \in Globals \ alive
               PROVE  /\ Lookup(maps, f) = Null
                      /\ used.recompiles = 0 /\ ~FarStubs =>
                           \A a \in Memory : Body(a) => mem[a].fn # f
    BY DEF DestroyedCodeIsFreed
  <2>1. Lookup(maps, f) = Null BY <1>1 DEF AInv, Mapped, Lookup
  <2>2. ASSUME used.recompiles = 0, ~FarStubs, NEW a \in Memory, Body(a),
               mem[a].fn = f
        PROVE FALSE
    <3>1. emitted[f] = a BY <1>1, <2>2 DEF AInv, Single
    <3>2. emitted[f] # a BY <1>1, ProgramFacts DEF AInv, Tables
    <3> QED BY <3>1, <3>2
  <2> QED BY <2>1, <2>2
<1>2. AInv => DestroyedCodeIsFreed BY <1>1
<1> QED BY <1>2, AlwaysAInv, PTL
-----------------------------------------------------------------------------
(* The functions on the work list, and the one taken from it, have a stub    *)
(* that waits for their code.                                                *)
Waiting == Queue \cup {f \in {job.f} : job.queued}

(* Nothing is on the work list twice, and what is has a stub without a jump. *)
Once ==
  /\ \A i, k \in 1..Len(pending) : pending[i] = pending[k] => i = k
  /\ job.queued => job.f \notin Queue
  /\ \A f \in Waiting : mem[stubOf[f]].jump = Null

(* Jumps do not go round in circles: they lead to smaller numbers.           *)
Ranked(d) ==
  /\ d \in [Memory -> Nat]
  /\ \A a \in Memory : mem[a].jump \in Memory => d[mem[a].jump] < d[a]

(* Where calls lead. In a set X of pairs of a function and an address, each  *)
(* address is one of an external function, or of a body or a stub of the     *)
(* function, whose calls and jump are in X too (and a body jumps to a body), *)
(* except for stubs that the lazy resolver knows and those of the functions  *)
(* in w, which still wait.                                                   *)
IsBody(f, a, X) ==
  /\ f \notin External /\ mem[a].kind = "body" /\ mem[a].done = TRUE
  /\ mem[a].calls \subseteq X /\ {c[1] : c \in mem[a].calls} = Calls[f]
  /\ \/ mem[a].jump = Null
     \/ /\ mem[a].jump \in Memory /\ mem[mem[a].jump].kind = "body"
        /\ <<f, mem[a].jump>> \in X
IsStub(f, a, X, w) ==
  /\ mem[a].kind = "stub" /\ a = stubOf[f] /\ mem[a].calls = {}
  /\ \/ mem[a].jump # Null /\ <<f, mem[a].jump>> \in X
     \/ mem[a].jump = Resolver /\ a \in callSites /\ f \notin External
     \/ mem[a].jump = Null /\ f \in w
Leads(f, a, X, w) ==
  \/ f \in External /\ a = ExternalAddr[f]
  \/ a \in Memory /\ mem[a].fn = f /\ (IsBody(f, a, X) \/ IsStub(f, a, X, w))
LeadOn(X, w) == \A p \in X : Leads(p[1], p[2], X, w)

(* L has everything that clients may run, and the code that calls keep the   *)
(* address of; W all that is finished too while a work list is being emptied.*)
Covered(L, W) ==
  /\ LockFree => L = W
  /\ given \subseteq L
  /\ \A f \in alive \cap External : <<f, ExternalAddr[f]>> \in L
  /\ \A f \in Globals : stubOf[f] # Null => <<f, stubOf[f]>> \in W
  /\ \A f \in Globals : emitted[f] # Null /\ f # job.f => <<f, emitted[f]>> \in W
  /\ \A t \in Threads : \A a \in Held(t) : <<th[t].f, a>> \in L
  /\ lock # NoThread /\ ~Starting =>
       /\ mem[emitted[job.f]].done = FALSE
       /\ job.calls \subseteq W \cup {<<job.f, emitted[job.f]>>}
Complete(L, W) ==
  /\ L \subseteq W /\ W \subseteq alive \X Locations
  /\ LeadOn(L, {}) /\ LeadOn(W, Waiting)
  /\ Covered(L, W)

BInv == /\ AInv /\ Once
        /\ \E d \in [Memory -> Nat] : Ranked(d)
        /\ \E L, W \in SUBSET (alive \X Locations) : Complete(L, W)
-----------------------------------------------------------------------------
(* The work list. *)
LEMMA WaitingFacts ==
  ASSUME AInv
  PROVE  /\ \A f \in Waiting :
              /\ f \in alive \ External /\ f \in Globals
              /\ stubOf[f] \in Memory /\ stubOf[f] # Null
              /\ mem[stubOf[f]].kind = "stub" /\ mem[stubOf[f]].fn = f
         /\ LockFree => Waiting = {} /\ ~job.queued
         /\ Lazily => Waiting = {} /\ ~job.queued
<1>1. lock = NoThread => Waiting = {} /\ ~job.queued
  BY DEF AInv, Session, Waiting, Queue, NoJob
<1>2. lock # NoThread /\ Lazily => Waiting = {} /\ ~job.queued
  BY DEF AInv, Session, Waiting, Queue
<1>3. ASSUME lock # NoThread, NEW f \in Waiting
      PROVE  /\ f \in alive \ External /\ f \in Globals
             /\ stubOf[f] \in Memory /\ stubOf[f] # Null
  <2>1. f \in alive \ External /\ stubOf[f] # Null
    BY <1>3 DEF AInv, Session, Waiting
  <2> QED BY <2>1, ProgramFacts DEF AInv, Types
<1> QED BY <1>1, <1>2, <1>3 DEF LockFree, AInv, Tables

(* A step that leaves the work list and its stubs alone. *)
LEMMA OnceSame ==
  ASSUME AInv, Once, pending' = pending,
         job'.queued => job.queued /\ job'.f = job.f,
         \A f \in Waiting : /\ stubOf'[f] = stubOf[f]
                            /\ mem'[stubOf[f]].jump = mem[stubOf[f]].jump
  PROVE  Once'
<1>1. Queue' = Queue BY DEF Queue
<1>2. Waiting' \subseteq Waiting BY <1>1 DEF Waiting
<1> QED BY <1>1, <1>2 DEF Once

LEMMA OnceFree ==
  ASSUME AInv, Once, UNCHANGED <<pending, job>>, Waiting = {}
  PROVE  Once'
BY OnceSame

LEMMA OnceEmitStubCall ==
  ASSUME AInv, Once, UNCHANGED program, ExternalsDiffer,
         NEW t \in Threads, NEW g \in Globals, EmitStubCall(t, g)
  PROVE  Once'
<1>1. PICK s \in Memory : getLazyFunctionStub(g, s) /\ Relocate(g, s)
  BY DEF EmitStubCall
<1>2. th[t].pc = "emit" /\ g \in job.todo BY DEF EmitStubCall
<1>3. ~Starting /\ job.f \in alive /\ lock # NoThread BY <1>2, JobFacts
<1>4. /\ g \in alive /\ job \in JobType /\ pending \in Seq(Globals)
      /\ s \in Locations
  BY <1>2, <1>3, ProgramFacts DEF AInv, Session, Tables, Types
<1>5. StubEmitted(g, s)
  BY <1>1, <1>3, <1>4, EmitStubFacts DEF AInv, getLazyFunctionStub
<1>6. /\ NoCode(s) /\ stubOf[g] = Null /\ stubOf'[g] = s
      /\ \A b \in Memory \ {s} : mem'[b] = mem[b]
      /\ mem'[s].jump = StubJump(g)
      /\ \A h \in Globals \ {g} : stubOf'[h] = stubOf[h]
  BY <1>5 DEF StubEmitted
<1>7. job'.f = job.f /\ job'.queued = job.queued
  BY <1>1, <1>2, <1>4, RelocateFacts
<1>8. \A f \in Waiting :
        /\ f # g /\ stubOf'[f] = stubOf[f] /\ mem'[stubOf[f]] = mem[stubOf[f]]
  BY <1>6, WaitingFacts DEF NoCode
<1>9. CASE Lazily \/ g \in External
  <2>1. pending' = pending BY <1>1, <1>9 DEF getLazyFunctionStub
  <2> QED BY <1>7, <1>8, <2>1, OnceSame
<1>10. CASE ~(Lazily \/ g \in External)
  <2>1. pending' = Append(pending, g) BY <1>1, <1>10 DEF getLazyFunctionStub
  <2>2. /\ Queue' = Queue \cup {g}
        /\ Len(pending') = Len(pending) + 1 /\ pending'[Len(pending) + 1] = g
        /\ \A i \in 1..Len(pending) : pending'[i] = pending[i]
    BY <1>4, <2>1, QueueAppend
  <2>3. g \notin Waiting BY <1>8
  <2>4. g \notin Queue /\ (job.queued => job.f # g) BY <2>3 DEF Waiting
  <2>5. Waiting' = Waiting \cup {g} BY <1>7, <2>2 DEF Waiting
  <2>6. \A i, k \in 1..Len(pending') : pending'[i] = pending'[k] => i = k
    <3>1. \A i, k \in 1..Len(pending) : pending[i] = pending[k] => i = k
      BY DEF Once
    <3>2. \A i \in 1..Len(pending) : pending[i] # g BY <2>4 DEF Queue
    <3>3. Len(pending) \in Nat BY <1>4
    <3> QED BY <2>2, <3>1, <3>2, <3>3
  <2>7. mem'[s].jump = Null BY <1>6, <1>10 DEF StubJump
  <2>8. \A f \in Waiting' : mem'[stubOf'[f]].jump = Null
    BY <1>6, <1>8, <2>5, <2>7 DEF Once
  <2>9. job'.queued => job'.f \notin Queue'
    BY <1>7, <2>2, <2>4 DEF Once
  <2> QED BY <2>6, <2>8, <2>9 DEF Once
<1> QED BY <1>9, <1>10

LEMMA OnceFinishFunction ==
  ASSUME AInv, Once, UNCHANGED program, NEW t \in Threads, FinishFunction(t)
  PROVE  Once'
<1>1. BodyFinished /\ stubOf' = stubOf BY FinishFacts DEF FinishFunction
<1>2. th[t].pc = "emit" BY DEF FinishFunction
<1>3. /\ pending' \in Seq(Globals) /\ lock' \in {t, NoThread}
      /\ lock' = t =>
           /\ job'.f \in Queue /\ job'.queued = TRUE
           /\ Queue = Queue' \cup {job'.f}
           /\ (\A i, k \in 1..Len(pending) : pending[i] = pending[k] => i = k)
                => /\ job'.f \notin Queue'
                   /\ \A i, k \in 1..Len(pending') :
                        pending'[i] = pending'[k] => i = k
      /\ lock' = NoThread => pending' = <<>> /\ job' = NoJob /\ Queue' = {}
  BY NextFacts
<1>4. CASE lock' = t
  <2>1. /\ job'.f \notin Queue'
        /\ \A i, k \in 1..Len(pending') : pending'[i] = pending'[k] => i = k
    BY <1>3, <1>4 DEF Once
  <2>2. \A f \in Waiting' : f \in Queue
    BY <1>3, <1>4 DEF Waiting
  <2>3. ASSUME NEW f \in Waiting' PROVE mem'[stubOf[f]].jump = Null
    <3>1. f \in Queue /\ f \in Waiting BY <2>2, <2>3 DEF Waiting
    <3>2. job.queued => f # job.f BY <3>1 DEF Once
    <3>3. /\ stubOf[f] \in Memory /\ mem[stubOf[f]].fn = f
          /\ mem[stubOf[f]].jump = Null
      BY <3>1, WaitingFacts DEF Once
    <3>4. job.queued => job.f \in Waiting BY DEF Waiting
    <3>5. job.queued => mem[stubOf[job.f]].fn = job.f
      BY <3>4, WaitingFacts
    <3>6. mem'[stubOf[f]].jump = mem[stubOf[f]].jump
      BY <1>1, <3>2, <3>3, <3>5 DEF BodyFinished
    <3> QED BY <3>3, <3>6
  <2> QED BY <1>1, <2>1, <2>3 DEF Once
<1>5. CASE lock' = NoThread
  BY <1>3, <1>5 DEF Once, Waiting, NoJob
<1> QED BY <1>3, <1>4, <1>5

LEMMA NextOnce ==
  ASSUME StubsAreLazy, ExternalsDiffer, AInv, Once, [Next]_vars
  PROVE  Once'
<1>1. CASE UNCHANGED vars
  BY <1>1 DEF vars, code, Once, Waiting, Queue
<1>2. ASSUME NEW t \in Threads, Progress(t) PROVE Once'
  <2>0. UNCHANGED program BY <1>2 DEF Progress
  <2>1. CASE CheckMap(t) BY <2>1, OnceSame DEF CheckMap, code
  <2>2. CASE LockAndCheck(t)
    <3>1. job' = job \/ ~job'.queued BY <2>2 DEF LockAndCheck, Job, NoJob
    <3> QED BY <2>2, <3>1, OnceSame DEF LockAndCheck, code
  <2>3. CASE StartFunction(t)
    <3>1. PICK a \in Memory : BodyStarted(job.f, a) BY <2>0, <2>3, StartFacts
    <3> QED BY <3>1, OnceSame, WaitingFacts DEF BodyStarted, NoCode
  <2>4. ASSUME NEW g \in Globals, EmitDirectCall(t, g) PROVE Once'
    <3>1. job'.f = job.f /\ job'.queued = job.queued
      BY <2>4 DEF EmitDirectCall, Relocate, AInv, Types, JobType
    <3> QED BY <2>4, <3>1, OnceSame DEF EmitDirectCall, code
  <2>5. ASSUME NEW g \in Globals, EmitStubCall(t, g) PROVE Once'
    BY <2>0, <2>5, OnceEmitStubCall
  <2>6. CASE FinishFunction(t) BY <2>0, <2>6, OnceFinishFunction
  <2>7. CASE Patch(t)
    <3>1. th[t].pc = "patch" BY <2>7 DEF Patch
    <3>2. Lazily
      BY <3>1, CallFacts DEF InCall, GetCall, StubCall, RecompileCall
    <3> QED BY <2>7, <3>2, WaitingFacts, OnceFree DEF Patch
  <2>8. CASE Relink(t)
    <3>1. /\ th[t].pc = "relink" /\ UNCHANGED <<pending, job, stubOf>>
          /\ mem' = [mem EXCEPT ![th[t].at[1]].jump = th[t].at[2]]
      BY <2>8 DEF Relink
    <3>2. mem[th[t].at[1]].kind = "body" BY <3>1, RelinkFacts DEF Holding
    <3>3. \A f \in Waiting : mem'[stubOf[f]].jump = mem[stubOf[f]].jump
      BY <3>1, <3>2, WaitingFacts DEF AInv, Types, MemType
    <3> QED BY <3>1, <3>3, OnceSame
  <2>9. CASE GetStub(t)
    <3>1. th[t].pc = "orstub" BY <2>9 DEF GetStub
    <3>2. Lazily
      BY <3>1, CallFacts DEF InCall, GetCall, StubCall, RecompileCall
    <3>3. pending' = pending
      BY <2>9, <3>2 DEF GetStub, getLazyFunctionStub, code
    <3> QED BY <2>9, <3>2, <3>3, WaitingFacts, OnceFree DEF GetStub
  <2>10. CASE DeleteMapping(t) BY <2>10, OnceSame DEF DeleteMapping, code
  <2>11. CASE runJITOnFunction(t)
    <3>1. ~job'.queued BY <2>11 DEF runJITOnFunction, Job, NoJob
    <3> QED BY <2>11, <3>1, OnceSame DEF runJITOnFunction, code
  <2>12. CASE FindNewCode(t) BY <2>12, OnceSame DEF FindNewCode, code
  <2> QED
    BY <1>2, <2>1, <2>2, <2>3, <2>4, <2>5, <2>6, <2>7, <2>8, <2>9, <2>10, <2>11,
       <2>12
       DEF Progress
<1>3. ASSUME NEW t \in Threads, Retry(t) PROVE Once'
  <2>1. /\ th[t].pc = "emit" /\ UNCHANGED <<stubOf, pending, job>>
        /\ mem' = [mem EXCEPT ![emitted[job.f]] = Code("freed", None)]
    BY <1>3 DEF Retry
  <2>2. emitted[job.f] # Null /\ job.f \in Globals
    BY <2>1, JobFacts DEF AInv, Session
  <2>3. mem[emitted[job.f]].kind = "body" BY <2>2 DEF AInv, Tables
  <2>4. mem \in MemType BY DEF AInv, Types
  <2>5. \A f \in Waiting : mem'[stubOf[f]] = mem[stubOf[f]]
    BY <2>1, <2>3, <2>4, WaitingFacts DEF MemType
  <2> QED BY <2>1, <2>5, OnceSame
<1>4. ASSUME NEW t \in Threads, NEW f \in Globals,
             \/ getPointerToFunction(t, f) \/ recompileAndRelinkFunction(t, f)
             \/ getPointerToFunctionOrStub(t, f)
      PROVE  Once'
  <2>1. job' = job \/ ~job'.queued
    BY <1>4 DEF getPointerToFunction, recompileAndRelinkFunction,
                getPointerToFunctionOrStub, Job, NoJob
  <2> QED
    BY <1>4, <2>1, OnceSame
       DEF getPointerToFunction, recompileAndRelinkFunction,
           getPointerToFunctionOrStub, code
<1>5. ASSUME NEW t \in Threads, NEW s \in Memory, CallStub(t, s) PROVE Once'
  BY <1>5, OnceSame DEF CallStub, code
<1>6. ASSUME NEW f \in Globals,
             freeMachineCodeForFunction(f) \/ DeleteFunction(f)
      PROVE  Once'
  <2>1. LockFree /\ UNCHANGED <<pending, job>>
    BY <1>6 DEF freeMachineCodeForFunction, DeleteFunction, Alone
  <2> QED BY <2>1, WaitingFacts, OnceFree
<1>7. CASE Ask BY <1>7, OnceSame DEF Ask, code
<1> QED BY <1>1, <1>2, <1>3, <1>4, <1>5, <1>6, <1>7 DEF Next

-----------------------------------------------------------------------------
(* Calls only lead to stubs and to finished bodies. *)
LEMMA LeadsToCode ==
  ASSUME AInv, NEW f \in alive, NEW a \in Memory, NEW X, NEW w, Leads(f, a, X, w)
  PROVE  /\ mem[a].fn = f /\ (IsBody(f, a, X) \/ IsStub(f, a, X, w))
         /\ ~NoCode(a) /\ (mem[a].kind = "body" => mem[a].done = TRUE)
<1>1. f \in External => ExternalAddr[f] \notin Memory BY ProgramFacts DEF AInv
<1>2. mem[a].fn = f /\ (IsBody(f, a, X) \/ IsStub(f, a, X, w))
  BY <1>1 DEF Leads
<1> QED BY <1>2 DEF IsBody, IsStub, NoCode

(* Jumps. A step that makes none that leads to the memory keeps the numbers. *)
LEMMA RankSame ==
  ASSUME NEW d \in [Memory -> Nat], Ranked(d),
         \A b \in Memory : mem'[b].jump \in Memory => mem'[b].jump = mem[b].jump
  PROVE  Ranked(d)'
BY DEF Ranked

(* A new jump to code that does not jump itself. *)
LEMMA RankJump ==
  ASSUME NEW d \in [Memory -> Nat], Ranked(d), NEW a \in Memory, NEW j \in Memory,
         a # j, mem'[j].jump \notin Memory, mem'[a].jump = j,
         \A b \in Memory \ {a} : mem'[b].jump = mem[b].jump
  PROVE  \E e \in [Memory -> Nat] : Ranked(e)'
<1> DEFINE e == [x \in Memory |-> IF x = j THEN 0 ELSE d[x] + 1]
<1>1. e \in [Memory -> Nat] OBVIOUS
<1>2. ASSUME NEW b \in Memory, mem'[b].jump \in Memory
      PROVE  e[mem'[b].jump] < e[b]
  <2>1. b # j BY <1>2
  <2>2. e[b] = d[b] + 1 /\ d[b] \in Nat BY <2>1
  <2>3. CASE mem'[b].jump = j BY <2>2, <2>3
  <2>4. CASE mem'[b].jump # j
    <3>1. mem'[b].jump = mem[b].jump BY <2>4
    <3>2. d[mem[b].jump] < d[b] BY <1>2, <3>1 DEF Ranked
    <3>3. e[mem'[b].jump] = d[mem[b].jump] + 1 /\ d[mem[b].jump] \in Nat
      BY <1>2, <2>4, <3>1
    <3> QED BY <2>2, <3>2, <3>3
  <2> QED BY <2>3, <2>4
<1> HIDE DEF e
<1> QED BY <1>1, <1>2 DEF Ranked

(* A new jump from outside a set of code that only jumps to itself into it.  *)
LEMMA RankInto ==
  ASSUME NEW d \in [Memory -> Nat], Ranked(d), NEW R \in SUBSET Memory,
         \A b \in R : mem[b].jump \in Memory => mem[b].jump \in R,
         NEW a \in Memory \ R, NEW j \in R, mem'[a].jump = j,
         \A b \in Memory \ {a} : mem'[b].jump = mem[b].jump
  PROVE  \E e \in [Memory -> Nat] : Ranked(e)'
<1> DEFINE e == [x \in Memory |-> IF x \in R THEN d[x] ELSE d[x] + d[j] + 1]
<1>1. e \in [Memory -> Nat] OBVIOUS
<1>2. ASSUME NEW b \in Memory, mem'[b].jump \in Memory
      PROVE  e[mem'[b].jump] < e[b]
  <2>1. d[j] \in Nat /\ d[b] \in Nat /\ j \in Memory OBVIOUS
  <2>2. CASE b = a
    <3>1. e[j] = d[j] /\ e[a] = d[a] + d[j] + 1 OBVIOUS
    <3> QED BY <2>1, <2>2, <3>1
  <2>3. CASE b # a
    <3>1. PICK c \in Memory : c = mem[b].jump /\ c = mem'[b].jump
      BY <1>2, <2>3
    <3>2. d[c] < d[b] /\ d[c] \in Nat BY <3>1 DEF Ranked
    <3>3. b \in R => c \in R BY <3>1
    <3> QED BY <2>1, <3>1, <3>2, <3>3
  <2> QED BY <2>2, <2>3
<1> HIDE DEF e
<1> QED BY <1>1, <1>2 DEF Ranked

LEMMA NextRanked ==
  ASSUME StubsAreLazy, ExternalsDiffer, AInv, Once, [Next]_vars,
         NEW L, NEW W, Complete(L, W), NEW d \in [Memory -> Nat], Ranked(d)
  PROVE  \E e \in [Memory -> Nat] : Ranked(e)'
<1> DEFINE Same == \A b \in Memory :
                     mem'[b].jump \in Memory => mem'[b].jump = mem[b].jump
<1>0. Null \notin Memory /\ Resolver \notin Memory BY ProgramFacts DEF AInv
<1>1. CASE mem' = mem BY <1>1, RankSame
<1>2. ASSUME NEW t \in Threads, Progress(t)
      PROVE  \E e \in [Memory -> Nat] : Ranked(e)'
  <2>0. UNCHANGED program BY <1>2 DEF Progress
  <2>1. CASE CheckMap(t) BY <1>1, <2>1 DEF CheckMap, code
  <2>2. CASE LockAndCheck(t) BY <1>1, <2>2 DEF LockAndCheck, code
  <2>3. CASE StartFunction(t)
    <3>1. PICK a \in Memory : BodyStarted(job.f, a) BY <2>0, <2>3, StartFacts
    <3>2. Same BY <1>0, <3>1 DEF BodyStarted
    <3> QED BY <3>2, RankSame
  <2>4. ASSUME NEW g \in Globals, EmitDirectCall(t, g)
        PROVE  \E e \in [Memory -> Nat] : Ranked(e)'
    BY <1>1, <2>4 DEF EmitDirectCall, code
  <2>5. ASSUME NEW g \in alive, NEW s \in Memory, StubEmitted(g, s)
        PROVE  \E e \in [Memory -> Nat] : Ranked(e)'
    <3>1. StubJump(g) \notin Memory
      BY <1>0, ProgramFacts DEF StubJump, AInv
    <3>2. Same BY <2>5, <3>1 DEF StubEmitted
    <3> QED BY <3>2, RankSame
  <2>6. ASSUME NEW g \in Globals, EmitStubCall(t, g)
        PROVE  \E e \in [Memory -> Nat] : Ranked(e)'
    <3>1. PICK s \in Memory : EmitStub(g, s)
      BY <2>6 DEF EmitStubCall, getLazyFunctionStub
    <3>2. th[t].pc = "emit" /\ g \in job.todo BY <2>6 DEF EmitStubCall
    <3>3. ~Starting /\ job.f \in alive /\ lock # NoThread BY <3>2, JobFacts
    <3>4. g \in alive BY <3>2, <3>3 DEF AInv, Session, Tables
    <3>5. StubEmitted(g, s) BY <3>1, <3>3, <3>4, EmitStubFacts DEF AInv
    <3> QED BY <2>5, <3>4, <3>5
  <2>7. CASE FinishFunction(t)
    <3>1. BodyFinished BY <2>0, <2>7, FinishFacts
    <3>2. CASE ~job.queued
      <4>1. Same BY <3>1, <3>2 DEF BodyFinished
      <4> QED BY <4>1, RankSame
    <3>3. CASE job.queued
      <4> DEFINE s == stubOf[job.f]
                 a == emitted[job.f]
      <4>1. th[t].pc = "emit" BY <2>7 DEF FinishFunction
      <4>2. ~Starting /\ job.f \in alive \ External /\ lock # NoThread
        BY <4>1, JobFacts
      <4>3. job.f \in Waiting BY <3>3 DEF Waiting
      <4>4. s \in Memory /\ mem[s].kind = "stub" BY <4>3, WaitingFacts
      <4>5. a \in Memory /\ mem[a].kind = "body" /\ mem[a].jump = Null
        BY <4>2, ProgramFacts DEF AInv, Session, Tables, Types
      <4>6. Lookup(maps, job.f) = a
        BY <3>3, <4>2 DEF AInv, Mapped, Session, Unmapped, Once
      <4>7. /\ mem'[s].jump = a /\ mem'[a].jump = Null /\ s # a
            /\ \A b \in Memory \ {s} : mem'[b].jump = mem[b].jump
        BY <3>1, <3>3, <4>4, <4>5, <4>6 DEF BodyFinished
      <4> HIDE DEF s, a
      <4> QED BY <1>0, <4>4, <4>5, <4>7, RankJump
    <3> QED BY <3>2, <3>3
  <2>8. CASE Patch(t)
    <3> DEFINE f == th[t].f
               s == stubOf[f]
               a == th[t].at[2]
               R == {b \in Memory : mem[b].kind = "body" /\ <<f, b>> \in L}
    <3>1. /\ th[t].pc = "patch"
          /\ mem' = [mem EXCEPT ![th[t].at[1]].jump = a]
      BY <2>8 DEF Patch
    <3>2. InCall(t) /\ f \in Globals /\ f \in alive
      BY <3>1, CallFacts DEF InCall
    <3>3. th[t].at = <<s, a>> /\ s # Null /\ th[t].op = "stub"
      BY <3>1, <3>2 DEF InCall, GetCall, StubCall, RecompileCall
    <3>4. a \in Held(t) BY <3>1, <3>3 DEF Held
    <3>5. Holding(f, a) /\ <<f, a>> \in L
      BY <3>2, <3>4 DEF InCall, Complete, Covered
    <3>6. /\ s \in Memory /\ mem[s].kind = "stub" /\ a \in R
          /\ mem \in MemType
      <4>1. a \in R BY <3>5 DEF Holding
      <4>2. s \in Memory /\ mem[s].kind = "stub" /\ mem \in MemType
        BY <3>2, <3>3, <1>0 DEF AInv, Types, Tables
      <4> QED BY <4>1, <4>2
    <3>7. ASSUME NEW b \in R, mem[b].jump \in Memory PROVE mem[b].jump \in R
      <4>1. Leads(f, b, L, {}) BY <3>7 DEF Complete, LeadOn
      <4>2. IsBody(f, b, L) BY <3>2, <4>1, LeadsToCode DEF IsStub
      <4> QED BY <1>0, <3>7, <4>2 DEF IsBody
    <3>8. th[t].at[1] = s BY <3>3
    <3>9. s \in Memory \ R BY <3>6
    <3> HIDE DEF s, a, f, R
    <3>10. /\ mem'[s].jump = a
           /\ \A b \in Memory \ {s} : mem'[b].jump = mem[b].jump
      BY <3>1, <3>6, <3>8, <3>9 DEF MemType
    <3>11. R \in SUBSET Memory BY DEF R
    <3> QED BY <3>6, <3>7, <3>9, <3>10, <3>11, RankInto
  <2>9. CASE Relink(t)
    <3> DEFINE o == th[t].at[1]
               a == th[t].at[2]
    <3>1. th[t].pc = "relink" /\ mem' = [mem EXCEPT ![o].jump = a]
      BY <2>9 DEF Relink
    <3>2. /\ o \in Memory /\ a \in Memory /\ a # o /\ mem[a].jump = Null
          /\ mem \in MemType
      BY <3>1, RelinkFacts DEF Holding, AInv, Types
    <3> HIDE DEF o, a
    <3>3. /\ mem'[o].jump = a /\ mem'[a].jump = Null
          /\ \A b \in Memory \ {o} : mem'[b].jump = mem[b].jump
      BY <3>1, <3>2 DEF MemType
    <3> QED BY <1>0, <3>2, <3>3, RankJump
  <2>10. CASE GetStub(t)
    <3>1. \/ UNCHANGED code
          \/ \E s \in Memory : getLazyFunctionStub(th[t].f, s)
      BY <2>10 DEF GetStub
    <3>2. CASE UNCHANGED code BY <1>1, <3>2 DEF code
    <3>3. ASSUME NEW s \in Memory, getLazyFunctionStub(th[t].f, s)
          PROVE  \E e \in [Memory -> Nat] : Ranked(e)'
      <4>1. th[t].pc = "orstub" /\ LockFree BY <2>10 DEF GetStub
      <4>2. th[t].f \in alive /\ ~Starting BY <4>1, CallFacts, FreeFacts
      <4>3. StubEmitted(th[t].f, s)
        BY <3>3, <4>2, EmitStubFacts DEF AInv, getLazyFunctionStub
      <4> QED BY <2>5, <4>2, <4>3
    <3> QED BY <3>1, <3>2, <3>3
  <2>11. CASE DeleteMapping(t) BY <1>1, <2>11 DEF DeleteMapping, code
  <2>12. CASE runJITOnFunction(t) BY <1>1, <2>12 DEF runJITOnFunction, code
  <2>13. CASE FindNewCode(t) BY <1>1, <2>13 DEF FindNewCode, code
  <2> QED
    BY <1>2, <2>1, <2>2, <2>3, <2>4, <2>6, <2>7, <2>8, <2>9, <2>10, <2>11, <2>12,
       <2>13
       DEF Progress
<1>3. ASSUME NEW t \in Threads, Retry(t)
      PROVE  \E e \in [Memory -> Nat] : Ranked(e)'
  <2>1. mem' = [mem EXCEPT ![emitted[job.f]] = Code("freed", None)]
    BY <1>3 DEF Retry
  <2>2. Code("freed", None).jump = Null BY DEF Code
  <2> DEFINE n == Code("freed", None)
  <2> HIDE DEF n
  <2>3. mem' = [mem EXCEPT ![emitted[job.f]] = n] /\ n.jump = Null
    BY <2>1, <2>2 DEF n
  <2>4. Same BY <1>0, <2>3 DEF AInv, Types, MemType
  <2> QED BY <2>4, RankSame
<1>4. ASSUME NEW f \in Globals, deallocateMemForFunction(f)
      PROVE  \E e \in [Memory -> Nat] : Ranked(e)'
  <2>1. /\ \A b \in Memory : b # emitted[f] => mem'[b] = mem[b]
        /\ emitted[f] # Null => mem'[emitted[f]].jump = Null
    BY <1>4, DeallocFacts DEF AInv
  <2>2. Same BY <1>0, <2>1
  <2> QED BY <2>2, RankSame
<1>5. CASE Next
  <2>1. ASSUME NEW t \in Threads, NEW f \in Globals,
               \/ getPointerToFunction(t, f) \/ recompileAndRelinkFunction(t, f)
               \/ getPointerToFunctionOrStub(t, f)
        PROVE  mem' = mem
    BY <2>1 DEF getPointerToFunction, recompileAndRelinkFunction,
                getPointerToFunctionOrStub, code
  <2>2. ASSUME NEW t \in Threads, NEW s \in Memory, CallStub(t, s)
        PROVE  mem' = mem
    BY <2>2 DEF CallStub, code
  <2>3. Ask => mem' = mem BY DEF Ask, code
  <2>4. ASSUME NEW f \in Globals,
               freeMachineCodeForFunction(f) \/ DeleteFunction(f)
        PROVE  deallocateMemForFunction(f)
    BY <2>4 DEF freeMachineCodeForFunction, DeleteFunction
  <2> QED BY <1>1, <1>2, <1>3, <1>4, <1>5, <2>1, <2>2, <2>3, <2>4 DEF Next
<1>6. UNCHANGED vars => mem' = mem BY DEF vars, code
<1> QED BY <1>1, <1>5, <1>6

-----------------------------------------------------------------------------
(* Where calls lead. What a step leaves alone leads where it led.            *)
LEMMA LeadsKept ==
  ASSUME UNCHANGED program, NEW f, NEW a, NEW X, NEW Y, NEW v, NEW w,
         X \subseteq Y, Leads(f, a, X, v),
         a \in Memory => mem'[a] = mem[a],
         \A b \in Memory : <<f, b>> \in X => mem'[b].kind = mem[b].kind,
         a \in Memory /\ a = stubOf[f] => stubOf'[f] = stubOf[f],
         a \in callSites => a \in callSites',
         f \in v /\ a = stubOf[f] => f \in w
  PROVE  Leads(f, a, Y, w)'
<1>1. CASE f \in External /\ a = ExternalAddr[f]
  BY <1>1, ProgramSame DEF Leads
<1>2. CASE a \in Memory /\ mem[a].fn = f
           /\ (IsBody(f, a, X) \/ IsStub(f, a, X, v))
  <2>1. mem'[a] = mem[a] /\ mem'[a].fn = f BY <1>2
  <2>2. IsBody(f, a, X) => IsBody(f, a, Y)'
    BY <2>1, ProgramSame DEF IsBody
  <2>3. IsStub(f, a, X, v) => IsStub(f, a, Y, w)'
    BY <1>2, <2>1, ProgramSame DEF IsStub
  <2> QED BY <1>2, <2>1, <2>2, <2>3 DEF Leads
<1> QED BY <1>1, <1>2 DEF Leads

(* Calls do not lead to code that is replaced at an address where there was  *)
(* none, or which was not finished.                                          *)
Unfinished(a) == NoCode(a) \/ (mem[a].kind = "body" /\ mem[a].done = FALSE)
LEMMA FreshLeads ==
  ASSUME AInv, UNCHANGED program, NEW a \in Memory, Unfinished(a),
         \A b \in Memory \ {a} : mem'[b] = mem[b],
         \A f \in Globals : stubOf[f] # Null => stubOf'[f] = stubOf[f],
         callSites \subseteq callSites',
         NEW X \in SUBSET (alive \X Locations), NEW Y, NEW v, NEW w,
         LeadOn(X, v), X \subseteq Y, v \subseteq w
  PROVE  \A p \in X : Leads(p[1], p[2], Y, w)'
<1> SUFFICES ASSUME NEW p \in X PROVE Leads(p[1], p[2], Y, w)'
  OBVIOUS
<1>1. Leads(p[1], p[2], X, v) /\ p[1] \in alive /\ p[1] \in Globals
  BY ProgramFacts DEF LeadOn, AInv
<1>2. ASSUME NEW b, <<p[1], b>> \in X PROVE b # a
  <2> SUFFICES ASSUME b = a PROVE FALSE OBVIOUS
  <2>1. Leads(p[1], a, X, v) BY <1>2 DEF LeadOn
  <2>2. ~NoCode(a) /\ (mem[a].kind = "body" => mem[a].done = TRUE)
    BY <1>1, <2>1, LeadsToCode
  <2> QED BY <2>2 DEF Unfinished
<1>3. Null \notin Memory BY ProgramFacts DEF AInv
<1>4. <<p[1], p[2]>> \in X OBVIOUS
<1> QED BY <1>1, <1>2, <1>3, <1>4, LeadsKept

(* A stub or an old body that is made to jump to code of its function.       *)
Jumps(a, j) ==
  /\ \A b \in Memory :
       /\ mem'[b].kind = mem[b].kind /\ mem'[b].fn = mem[b].fn
       /\ mem'[b].calls = mem[b].calls /\ mem'[b].done = mem[b].done
       /\ b # a => mem'[b].jump = mem[b].jump
  /\ mem'[a].jump = j
LEMMA JumpLeads ==
  ASSUME AInv, UNCHANGED <<program, stubOf, callSites>>,
         NEW a \in Memory, NEW j \in Memory, Jumps(a, j), mem[j].kind = "body",
         NEW X \in SUBSET (alive \X Locations), NEW v,
         LeadOn(X, v), <<mem[a].fn, j>> \in X
  PROVE  LeadOn(X, v)'
<1> USE ProgramSame
<1> SUFFICES ASSUME NEW p \in X PROVE Leads(p[1], p[2], X, v)'
  BY DEF LeadOn
<1>1. Leads(p[1], p[2], X, v) /\ p[1] \in alive BY DEF LeadOn
<1>2. CASE p[1] \in External /\ p[2] = ExternalAddr[p[1]]
  BY <1>2 DEF Leads
<1>3. CASE p[2] \in Memory
  <2> DEFINE f == p[1]
             b == p[2]
  <2>1. mem[b].fn = f /\ (IsBody(f, b, X) \/ IsStub(f, b, X, v))
    BY <1>1, <1>3, LeadsToCode
  <2> HIDE DEF f, b
  <2>2. b \in Memory BY <1>3 DEF b
  <2>3. /\ mem'[b].kind = mem[b].kind /\ mem'[b].fn = mem[b].fn
        /\ mem'[b].calls = mem[b].calls /\ mem'[b].done = mem[b].done
        /\ b # a => mem'[b].jump = mem[b].jump
        /\ b = a => mem'[b].jump = j /\ <<f, j>> \in X
        /\ \A c \in Memory : mem'[c].kind = mem[c].kind
        /\ j # Null
    BY <2>1, <2>2, ProgramFacts DEF Jumps, AInv
  <2>4. IsBody(f, b, X) => IsBody(f, b, X)' BY <2>3 DEF IsBody
  <2>5. IsStub(f, b, X, v) => IsStub(f, b, X, v)' BY <2>3 DEF IsStub
  <2>6. Leads(f, b, X, v)' BY <2>1, <2>2, <2>3, <2>4, <2>5 DEF Leads
  <2> QED BY <2>6 DEF f, b
<1> QED BY <1>1, <1>2, <1>3 DEF Leads

(* The code that a call keeps the address of. *)
LEMMA HeldNone ==
  ASSUME NEW t \in Threads, th'[t].pc \notin {"patch", "relink"},
         th'[t].op # "recompile"
  PROVE  Held(t)' = {}
BY DEF Held

LEMMA HeldSame ==
  ASSUME NEW t \in Threads, th[t].pc \notin {"patch", "relink"},
         th'[t].pc \notin {"patch", "relink"},
         th'[t].op = th[t].op, th'[t].at = th[t].at
  PROVE  Held(t)' = Held(t)
BY DEF Held

LEMMA HeldKept ==
  ASSUME NEW L, NEW W, Covered(L, W), NEW t \in Threads,
         \A u \in Threads \ {t} : th'[u] = th[u],
         \A a \in Held(t)' : <<th'[t].f, a>> \in L
  PROVE  \A u \in Threads : \A a \in Held(u)' : <<th'[u].f, a>> \in L
<1>1. \A u \in Threads \ {t} : Held(u)' = Held(u) BY DEF Held
<1> QED BY <1>1 DEF Covered

(* A step that leaves all code alone. *)
LEMMA CallsComplete ==
  ASSUME AInv, UNCHANGED <<program, alive, mem, emitted, stubOf, callSites>>,
         NEW L, NEW W, Complete(L, W), Waiting' = Waiting,
         LockFree' => LockFree, job'.f = job.f \/ lock = NoThread,
         given' \subseteq L,
         \A t \in Threads : \A a \in Held(t)' : <<th'[t].f, a>> \in L,
         lock' # NoThread /\ ~Starting' =>
           /\ mem[emitted[job'.f]].done = FALSE
           /\ job'.calls \subseteq W \cup {<<job'.f, emitted[job'.f]>>}
  PROVE  Complete(L, W)'
<1> USE ProgramSame
<1>1. LeadOn(L, {})' /\ LeadOn(W, Waiting)'
  <2>1. \A X, w : LeadOn(X, w) => LeadOn(X, w)'
    BY DEF LeadOn, Leads, IsBody, IsStub
  <2>2. LeadOn(L, {}) /\ LeadOn(W, Waiting) BY DEF Complete
  <2>3. LeadOn(L, {})' BY <2>1, <2>2
  <2>4. ASSUME NEW w, w = Waiting PROVE LeadOn(W, w)'
    BY <2>1, <2>2, <2>4
  <2> QED BY <2>3, <2>4
<1>2. lock = NoThread => job.f \notin Globals
  BY ProgramFacts DEF AInv, Session, NoJob
<1>3. Covered(L, W)'
  BY <1>2 DEF Complete, Covered
<1> QED BY <1>1, <1>3 DEF Complete

(* While the lock is free, every entry of the map leads to code.             *)
LEMMA LookupLeads ==
  ASSUME AInv, LockFree, NEW L, NEW W, Complete(L, W),
         NEW f \in alive, Lookup(maps, f) # Null
  PROVE  /\ <<f, Lookup(maps, f)>> \in L
         /\ f \notin External => Lookup(maps, f) = emitted[f]
<1>1. f \in Globals /\ None \notin Globals BY ProgramFacts DEF AInv
<1>2. L = W /\ job.f = None /\ ~Starting
  BY FreeFacts DEF Complete, Covered, AInv, Session, LockFree, NoJob
<1>3. CASE f \in External
  <2>1. Lookup(maps, f) = ExternalAddr[f] \/ Lookup(maps, f) = stubOf[f]
    BY <1>1, <1>2, <1>3 DEF AInv, Mapped
  <2> QED BY <1>1, <1>2, <1>3, <2>1 DEF Complete, Covered
<1>4. CASE f \notin External
  <2>1. Lookup(maps, f) = emitted[f] BY <1>4, FreeFacts
  <2> QED BY <1>1, <1>2, <1>4, <2>1 DEF Complete, Covered
<1> QED BY <1>3, <1>4

(* A call that ends while the lock is free. *)
LEMMA ReturnComplete ==
  ASSUME AInv, UNCHANGED <<program, alive, mem, emitted, stubOf, callSites,
                           pending, lock, job>>,
         NEW L, NEW W, Complete(L, W), LockFree,
         NEW t \in Threads, th[t].pc # "idle", th[t].pc # "patch",
         NEW a \in Locations, Return(t, a), <<th[t].f, a>> \in L
  PROVE  Complete(L, W)'
<1>1. /\ th[t].f \in Globals
      /\ th[t].op = "stub" => th[t].at \in Locations
  BY CallFacts
<1>2. /\ th' \in [Threads -> CallType]
      /\ \A u \in Threads \ {t} : th'[u] = th[u]
      /\ th[t].op = "stub" =>
           /\ th'[t].pc = "patch" /\ th'[t].f = th[t].f
           /\ th'[t].op = "stub" /\ th'[t].at = <<th[t].at, a>>
           /\ given' = given
      /\ th[t].op # "stub" =>
           th'[t] = Idle /\ given' = given \cup {<<th[t].f, a>>}
  BY <1>1, ReturnStep DEF AInv
<1>3. given' \subseteq L BY <1>2 DEF Complete, Covered
<1>4. \A u \in Threads : \A b \in Held(u)' : <<th'[u].f, b>> \in L
  <2>1. th[t].op = "stub" => Held(t)' = {a} BY <1>2 DEF Held
  <2>2. th[t].op # "stub" => Held(t)' = {} BY <1>2, HeldNone, IdleFields
  <2>3. \A b \in Held(t)' : <<th'[t].f, b>> \in L BY <1>2, <2>1, <2>2
  <2> QED BY <1>2, <2>3, HeldKept DEF Complete
<1>5. Waiting' = Waiting BY DEF Waiting, Queue
<1>6. lock' = NoThread /\ (LockFree' => LockFree) BY DEF LockFree
<1> QED BY <1>3, <1>4, <1>5, <1>6, CallsComplete

(* A call that goes on. *)
LEMMA OnwardComplete ==
  ASSUME AInv, UNCHANGED <<program, alive, code, lock, job>>,
         NEW L, NEW W, Complete(L, W), given' \subseteq L,
         NEW t \in Threads, lock # t,
         \A u \in Threads \ {t} : th'[u] = th[u],
         \A a \in Held(t)' : <<th'[t].f, a>> \in L
  PROVE  Complete(L, W)'
<1> USE DEF code
<1>1. Waiting' = Waiting BY DEF Waiting, Queue
<1>2. lock # NoThread => th'[lock] = th[lock] BY DEF AInv, Types
<1>3. Starting' <=> Starting BY <1>2 DEF Starting
<1>4. /\ LockFree' => LockFree
      /\ lock' # NoThread /\ ~Starting' =>
           /\ mem[emitted[job'.f]].done = FALSE
           /\ job'.calls \subseteq W \cup {<<job'.f, emitted[job'.f]>>}
  BY <1>3 DEF LockFree, Complete, Covered
<1>5. \A u \in Threads : \A a \in Held(u)' : <<th'[u].f, a>> \in L
  BY HeldKept DEF Complete
<1> QED BY <1>1, <1>4, <1>5, CallsComplete

(* The compilation of a function begins: the lock is taken. *)
LEMMA LockComplete ==
  ASSUME AInv, UNCHANGED <<program, alive, code, given>>,
         NEW L, NEW W, Complete(L, W), LockFree,
         NEW t \in Threads, NEW f, job' = Job(f, FALSE), lock' = t,
         \A u \in Threads \ {t} : th'[u] = th[u],
         th'[t].pc = "start", \A a \in Held(t)' : <<th'[t].f, a>> \in L
  PROVE  Complete(L, W)'
<1> USE DEF code
<1>1. job'.queued = FALSE BY DEF Job, NoJob
<1>2. Waiting = {} /\ Queue = {} BY FreeFacts, WaitingFacts
<1>3. Waiting' = Waiting BY <1>1, <1>2 DEF Waiting, Queue
<1>4. t # NoThread BY ProgramFacts DEF AInv
<1>5. Starting' /\ ~LockFree' BY <1>4 DEF Starting, LockFree
<1>6. \A u \in Threads : \A a \in Held(u)' : <<th'[u].f, a>> \in L
  BY HeldKept DEF Complete
<1>7. lock = NoThread /\ given' \subseteq L
  BY DEF LockFree, Complete, Covered
<1> QED BY <1>3, <1>5, <1>6, <1>7, CallsComplete

LEMMA CheckMapComplete ==
  ASSUME AInv, UNCHANGED program, NEW L, NEW W, Complete(L, W),
         NEW t \in Threads, CheckMap(t)
  PROVE  Complete(L, W)'
<1>1. /\ th[t].pc = "check" /\ LockFree
      /\ UNCHANGED <<maps, alive, code, lock, job, used>>
  BY DEF CheckMap
<1>2. InCall(t) /\ th[t].f \in alive /\ th[t].f \in Globals /\ lock # t
  BY <1>1, CallFacts, FreeFacts
<1>3. CASE Lookup(maps, th[t].f) # Null
  <2> DEFINE a == Lookup(maps, th[t].f)
  <2>1. Return(t, a) BY <1>3 DEF CheckMap
  <2>2. a \in Locations BY <1>2, LookupType DEF AInv, Types
  <2>3. <<th[t].f, a>> \in L BY <1>1, <1>2, <1>3, LookupLeads
  <2> HIDE DEF a
  <2> QED BY <1>1, <2>1, <2>2, <2>3, ReturnComplete DEF code
<1>4. CASE Lookup(maps, th[t].f) = Null
  <2>1. Goto(t, "lock") /\ given' = given BY <1>4 DEF CheckMap
  <2>2. /\ \A u \in Threads \ {t} : th'[u] = th[u]
        /\ th'[t].pc = "lock" /\ th'[t].f = th[t].f
        /\ th'[t].op = th[t].op /\ th'[t].at = th[t].at
    BY <2>1, GotoStep DEF AInv
  <2>3. given' \subseteq L BY <2>1 DEF Complete, Covered
  <2>4. Held(t)' = Held(t) BY <1>1, <2>2, HeldSame
  <2>5. \A a \in Held(t)' : <<th'[t].f, a>> \in L
    BY <2>2, <2>4 DEF Complete, Covered
  <2> QED BY <1>1, <1>2, <2>2, <2>3, <2>5, OnwardComplete
<1> QED BY <1>3, <1>4

LEMMA LockAndCheckComplete ==
  ASSUME AInv, UNCHANGED program, NEW L, NEW W, Complete(L, W),
         NEW t \in Threads, LockAndCheck(t)
  PROVE  Complete(L, W)'
<1>1. /\ th[t].pc = "lock" /\ LockFree
      /\ UNCHANGED <<alive, code, used>>
  BY DEF LockAndCheck
<1>2. InCall(t) /\ th[t].f \in alive /\ th[t].f \in Globals /\ lock # t
  BY <1>1, CallFacts, FreeFacts
<1>3. CASE Lookup(maps, th[t].f) # Null
  <2> DEFINE a == Lookup(maps, th[t].f)
  <2>1. Return(t, a) /\ UNCHANGED <<lock, job>> BY <1>3 DEF LockAndCheck
  <2>2. a \in Locations BY <1>2, LookupType DEF AInv, Types
  <2>3. <<th[t].f, a>> \in L BY <1>1, <1>2, <1>3, LookupLeads
  <2> HIDE DEF a
  <2> QED BY <1>1, <2>1, <2>2, <2>3, ReturnComplete DEF code
<1>4. CASE Lookup(maps, th[t].f) = Null /\ th[t].f \in External
  <2> DEFINE a == ExternalAddr[th[t].f]
  <2>1. Return(t, a) /\ UNCHANGED <<lock, job>> BY <1>4 DEF LockAndCheck
  <2>2. a \in Locations BY <1>4, ProgramFacts DEF AInv
  <2>3. <<th[t].f, a>> \in L BY <1>2, <1>4 DEF Complete, Covered
  <2> HIDE DEF a
  <2> QED BY <1>1, <2>1, <2>2, <2>3, ReturnComplete DEF code
<1>5. CASE Lookup(maps, th[t].f) = Null /\ th[t].f \notin External
  <2>1. /\ lock' = t /\ job' = Job(th[t].f, FALSE) /\ Goto(t, "start")
        /\ given' = given
    BY <1>5 DEF LockAndCheck
  <2>2. /\ \A u \in Threads \ {t} : th'[u] = th[u]
        /\ th'[t].pc = "start" /\ th'[t].f = th[t].f
        /\ th'[t].op = th[t].op /\ th'[t].at = th[t].at
    BY <2>1, GotoStep DEF AInv
  <2>3. Held(t)' = Held(t) BY <1>1, <2>2, HeldSame
  <2>4. \A a \in Held(t)' : <<th'[t].f, a>> \in L
    BY <2>2, <2>3 DEF Complete, Covered
  <2> QED BY <1>1, <2>1, <2>2, <2>4, LockComplete
<1> QED BY <1>3, <1>4, <1>5

(* The steps of recompiling that compile nothing yet, or nothing any more.   *)
LEMMA RecompileComplete ==
  ASSUME AInv, UNCHANGED program, NEW L, NEW W, Complete(L, W), NEW t \in Threads,
         DeleteMapping(t) \/ runJITOnFunction(t) \/ FindNewCode(t)
  PROVE  Complete(L, W)'
<1>1. LockFree /\ lock = NoThread /\ given' = given /\ given' \subseteq L
      /\ UNCHANGED <<alive, code>>
  BY DEF DeleteMapping, runJITOnFunction, FindNewCode, LockFree, Complete, Covered
<1>2. t # NoThread /\ lock # t BY <1>1, ProgramFacts DEF AInv
<1>3. ASSUME \/ th[t].pc = "unmap" /\ Goto(t, "recompile")
             \/ th[t].pc = "recompile" /\ Goto(t, "start")
      PROVE  /\ \A u \in Threads \ {t} : th'[u] = th[u]
             /\ th'[t].pc \in {"recompile", "start"}
             /\ Goto(t, "start") => th'[t].pc = "start"
             /\ \A a \in Held(t)' : <<th'[t].f, a>> \in L
  <2>1. /\ \A u \in Threads \ {t} : th'[u] = th[u]
        /\ th'[t].pc \in {"recompile", "start"} /\ th'[t].f = th[t].f
        /\ Goto(t, "start") => th'[t].pc = "start"
        /\ th'[t].op = th[t].op /\ th'[t].at = th[t].at
    BY <1>3, GotoStep DEF AInv
  <2>2. Held(t)' = Held(t) BY <1>3, <2>1, HeldSame
  <2> QED BY <2>1, <2>2 DEF Complete, Covered
<1>4. CASE DeleteMapping(t)
  BY <1>1, <1>2, <1>3, <1>4, OnwardComplete DEF DeleteMapping
<1>5. CASE runJITOnFunction(t)
  BY <1>1, <1>3, <1>5, LockComplete DEF runJITOnFunction
<1>6. CASE FindNewCode(t)
  <2> DEFINE o == th[t].at
             a == Lookup(maps, th[t].f)
             c == [th[t] EXCEPT !.pc = "relink", !.at = <<o, a>>]
  <2>1. th[t].pc = "find" /\ th' = [th EXCEPT ![t] = c]
        /\ UNCHANGED <<lock, job>>
    BY <1>6 DEF FindNewCode
  <2>2. /\ InCall(t) /\ th[t].f \in alive \ External
        /\ th[t].op = "recompile" /\ a # Null
    BY <2>1, CallFacts DEF InCall, GetCall, StubCall, RecompileCall
  <2>3. Held(t) = {o} BY <2>1, <2>2 DEF Held
  <2>4. <<th[t].f, o>> \in L BY <2>3 DEF Complete, Covered
  <2>5. <<th[t].f, a>> \in L BY <1>1, <2>2, LookupLeads
  <2> HIDE DEF o, a
  <2>6. /\ c.pc = "relink" /\ c.op = "recompile" /\ c.f = th[t].f
        /\ c.at = <<o, a>>
    BY <2>2 DEF AInv, Types, CallType
  <2> HIDE DEF c
  <2>7. th'[t] = c /\ \A u \in Threads \ {t} : th'[u] = th[u]
    BY <2>1 DEF AInv, Types
  <2>8. Held(t)' = {o, a} BY <2>6, <2>7 DEF Held
  <2>9. \A b \in Held(t)' : <<th'[t].f, b>> \in L
    BY <2>4, <2>5, <2>6, <2>7, <2>8
  <2> QED BY <1>1, <1>2, <2>1, <2>7, <2>9, OnwardComplete
<1> QED BY <1>4, <1>5, <1>6

(* The steps by which clients begin their calls. *)
LEMMA ClientComplete ==
  ASSUME AInv, UNCHANGED program, NEW L, NEW W, Complete(L, W),
         NEW t \in Threads, NEW f \in Globals,
         \/ getPointerToFunction(t, f) \/ recompileAndRelinkFunction(t, f)
         \/ getPointerToFunctionOrStub(t, f)
  PROVE  Complete(L, W)'
<1>1. CASE getPointerToFunction(t, f)
  <2>1. /\ th[t] = Idle /\ UNCHANGED <<alive, code, lock, job, given>>
        /\ th' = [th EXCEPT ![t] = [pc |-> "check", op |-> "get", f |-> f,
                                    at |-> Null]]
    BY <1>1 DEF getPointerToFunction
  <2>2. /\ \A u \in Threads \ {t} : th'[u] = th[u]
        /\ th'[t].pc = "check" /\ th'[t].op = "get"
    BY <2>1 DEF AInv, Types
  <2>3. lock # t BY <2>1, IdleFields DEF AInv, Threading, Holds
  <2>4. given' \subseteq L BY <2>1 DEF Complete, Covered
  <2>5. Held(t)' = {} BY <2>2, HeldNone
  <2> QED BY <2>1, <2>2, <2>3, <2>4, <2>5, OnwardComplete
<1>2. CASE recompileAndRelinkFunction(t, f)
  <2> DEFINE o == Lookup(maps, f)
  <2>1. /\ LockFree /\ f \in alive /\ o # Null /\ th[t] = Idle
        /\ UNCHANGED <<alive, code, lock, job, given>>
        /\ th' = [th EXCEPT ![t] = [pc |-> "unmap", op |-> "recompile", f |-> f,
                                    at |-> o]]
    BY <1>2 DEF recompileAndRelinkFunction
  <2>2. <<f, o>> \in L BY <2>1, LookupLeads
  <2> HIDE DEF o
  <2>3. /\ \A u \in Threads \ {t} : th'[u] = th[u]
        /\ th'[t].pc = "unmap" /\ th'[t].op = "recompile" /\ th'[t].f = f
        /\ th'[t].at = o
    BY <2>1 DEF AInv, Types
  <2>4. Held(t)' = {o} BY <2>3 DEF Held
  <2>5. lock # t BY <2>1, FreeFacts
  <2>6. given' \subseteq L BY <2>1 DEF Complete, Covered
  <2> QED BY <2>1, <2>2, <2>3, <2>4, <2>5, <2>6, OnwardComplete
<1>3. CASE getPointerToFunctionOrStub(t, f)
  <2>1. /\ th[t] = Idle /\ LockFree /\ f \in alive
        /\ UNCHANGED <<alive, code, lock, job>>
    BY <1>3 DEF getPointerToFunctionOrStub
  <2>2. lock # t BY <2>1, FreeFacts
  <2>3. CASE Lookup(maps, f) # Null
    <3>1. th' = th /\ given' = given \cup {<<f, Lookup(maps, f)>>}
      BY <1>3, <2>3 DEF getPointerToFunctionOrStub
    <3>2. given' \subseteq L
      BY <2>1, <2>3, <3>1, LookupLeads DEF Complete, Covered
    <3>3. Held(t)' = {} BY <2>1, <3>1, IdleFields, HeldNone
    <3> QED BY <2>1, <2>2, <3>1, <3>2, <3>3, OnwardComplete
  <2>4. CASE Lookup(maps, f) = Null
    <3>1. /\ given' = given
          /\ th' = [th EXCEPT ![t] = [pc |-> "orstub", op |-> "get", f |-> f,
                                      at |-> Null]]
      BY <1>3, <2>4 DEF getPointerToFunctionOrStub
    <3>2. /\ \A u \in Threads \ {t} : th'[u] = th[u]
          /\ th'[t].pc = "orstub" /\ th'[t].op = "get"
      BY <3>1 DEF AInv, Types
    <3>3. given' \subseteq L BY <3>1 DEF Complete, Covered
    <3>4. Held(t)' = {} BY <3>2, HeldNone
    <3> QED BY <2>1, <2>2, <3>2, <3>3, <3>4, OnwardComplete
  <2> QED BY <2>3, <2>4
<1> QED BY <1>1, <1>2, <1>3

LEMMA CallStubComplete ==
  ASSUME AInv, UNCHANGED program, NEW L, NEW W, Complete(L, W),
         NEW t \in Threads, NEW s \in Memory, CallStub(t, s)
  PROVE  Complete(L, W)'
<1>1. /\ th[t] = Idle /\ LockFree
      /\ UNCHANGED <<alive, code, lock, job, given>>
      /\ th' = [th EXCEPT ![t] = [pc |-> "check", op |-> "stub",
                                  f |-> mem[s].fn, at |-> s]]
  BY DEF CallStub
<1>2. /\ \A u \in Threads \ {t} : th'[u] = th[u]
      /\ th'[t].pc = "check" /\ th'[t].op = "stub"
  BY <1>1 DEF AInv, Types
<1>3. lock # t BY <1>1, FreeFacts
<1>4. given' \subseteq L BY <1>1 DEF Complete, Covered
<1>5. Held(t)' = {} BY <1>2, HeldNone
<1> QED BY <1>1, <1>2, <1>3, <1>4, <1>5, OnwardComplete

LEMMA AskComplete ==
  ASSUME AInv, UNCHANGED program, NEW L, NEW W, Complete(L, W), Ask
  PROVE  Complete(L, W)'
<1>1. UNCHANGED <<alive, mem, emitted, stubOf, callSites, pending, lock, job, th,
                  given>>
  BY DEF Ask, code
<1>2. Waiting' = Waiting /\ Starting' = Starting /\ LockFree' = LockFree
  BY <1>1 DEF Waiting, Queue, Starting, LockFree
<1>3. /\ given' \subseteq L
      /\ \A t \in Threads : \A a \in Held(t)' : <<th'[t].f, a>> \in L
  <2>1. \A t \in Threads : Held(t)' = Held(t) BY <1>1 DEF Held
  <2> QED BY <1>1, <2>1 DEF Complete, Covered
<1>4. lock' # NoThread /\ ~Starting' =>
        /\ mem[emitted[job'.f]].done = FALSE
        /\ job'.calls \subseteq W \cup {<<job'.f, emitted[job'.f]>>}
  BY <1>1, <1>2 DEF Complete, Covered
<1> QED BY <1>1, <1>2, <1>3, <1>4, CallsComplete

(* What the compiling thread may call. *)
LEMMA EmitDirectCallComplete ==
  ASSUME AInv, UNCHANGED program, NEW L, NEW W, Complete(L, W),
         NEW t \in Threads, NEW g \in Globals, EmitDirectCall(t, g)
  PROVE  Complete(L, W)'
<1>1. /\ th[t].pc = "emit" /\ g \in job.todo
      /\ UNCHANGED <<alive, mem, emitted, stubOf, callSites, pending, lock, th,
                     given>>
  BY DEF EmitDirectCall, code
<1>2. lock = t /\ t # NoThread /\ ~Starting /\ job.f \in alive
  BY <1>1, JobFacts
<1>3. g \in alive /\ job \in JobType
  BY <1>1, <1>2 DEF AInv, Session, Tables, Types
<1>4. PICK a \in Locations :
        Relocate(g, a) /\ <<g, a>> \in W \cup {<<job.f, emitted[job.f]>>}
  <2>1. g \in External => <<g, ExternalAddr[g]>> \in W
    BY <1>3 DEF Complete, Covered
  <2>2. stubOf[g] # Null => <<g, stubOf[g]>> \in W
    BY DEF Complete, Covered
  <2>3. emitted[g] # Null =>
          <<g, emitted[g]>> \in W \cup {<<job.f, emitted[job.f]>>}
    BY DEF Complete, Covered
  <2>4. Lookup(maps, g) # Null =>
          <<g, Lookup(maps, g)>> \in W \cup {<<job.f, emitted[job.f]>>}
    BY <1>2, <1>3, <2>1, <2>2, <2>3 DEF AInv, Mapped, Unmapped
  <2>5. CASE stubOf[g] # Null /\ Relocate(g, stubOf[g])
    BY <2>2, <2>5, ProgramFacts DEF AInv, Types
  <2>6. CASE Relocate(g, Lookup(maps, g)) /\ Lookup(maps, g) # Null
    BY <2>4, <2>6, LookupType DEF AInv, Types
  <2>7. CASE g \in External /\ Relocate(g, ExternalAddr[g])
    BY <2>1, <2>7, ProgramFacts DEF AInv
  <2> QED BY <2>5, <2>6, <2>7 DEF EmitDirectCall
<1>5. /\ job'.f = job.f /\ job'.queued = job.queued
      /\ job'.calls = job.calls \cup {<<g, a>>}
  BY <1>1, <1>3, <1>4, RelocateFacts
<1>6. /\ Waiting' = Waiting /\ Starting' = Starting /\ LockFree' = LockFree
  BY <1>1, <1>5 DEF Waiting, Queue, Starting, LockFree
<1>7. /\ mem[emitted[job'.f]].done = FALSE
      /\ job'.calls \subseteq W \cup {<<job'.f, emitted[job'.f]>>}
  BY <1>2, <1>4, <1>5 DEF Complete, Covered
<1>8. /\ given' \subseteq L
      /\ \A u \in Threads : \A b \in Held(u)' : <<th'[u].f, b>> \in L
  <2>1. \A u \in Threads : Held(u)' = Held(u) BY <1>1 DEF Held
  <2> QED BY <1>1, <2>1 DEF Complete, Covered
<1> QED BY <1>1, <1>5, <1>6, <1>7, <1>8, CallsComplete

(* Emitting begins, or begins again. *)
LEMMA HeldWhileEmitting ==
  ASSUME Types, NEW L, NEW W, Covered(L, W),
         NEW t \in Threads, Goto(t, "emit") \/ Goto(t, "start"),
         th[t].pc \in {"start", "emit"}
  PROVE  \A u \in Threads : \A a \in Held(u)' : <<th'[u].f, a>> \in L
<1>1. /\ \A u \in Threads \ {t} : th'[u] = th[u]
      /\ th'[t].pc \in {"start", "emit"} /\ th'[t].f = th[t].f
      /\ th'[t].op = th[t].op /\ th'[t].at = th[t].at
  BY GotoStep
<1>2. Held(t)' = Held(t) BY <1>1, HeldSame
<1>3. \A a \in Held(t)' : <<th'[t].f, a>> \in L BY <1>1, <1>2 DEF Covered
<1> QED BY <1>1, <1>3, HeldKept

LEMMA StartFunctionComplete ==
  ASSUME AInv, UNCHANGED program, NEW L, NEW W, Complete(L, W),
         NEW t \in Threads, StartFunction(t)
  PROVE  Complete(L, W)'
<1> USE ProgramSame
<1>1. PICK a \in Memory : BodyStarted(job.f, a) BY StartFacts
<1>2. th[t].pc = "start" /\ Goto(t, "emit") BY DEF StartFunction
<1>3. /\ lock = t /\ t # NoThread /\ job.f \in Globals
  BY <1>2, JobFacts
<1>4. /\ \A u \in Threads \ {t} : th'[u] = th[u]
      /\ th'[t].pc = "emit"
  BY <1>2, GotoStep DEF AInv
<1>5. /\ NoCode(a) /\ UNCHANGED <<alive, stubOf, callSites, pending, lock, given>>
      /\ \A b \in Memory \ {a} : mem'[b] = mem[b]
      /\ mem'[a].done = FALSE /\ emitted'[job.f] = a
      /\ \A h \in Globals \ {job.f} : emitted'[h] = emitted[h]
      /\ job'.f = job.f /\ job'.queued = job.queued /\ job'.calls = {}
  BY <1>1 DEF BodyStarted
<1>6. Waiting' = Waiting BY <1>5 DEF Waiting, Queue
<1>7. LeadOn(L, {})' /\ LeadOn(W, Waiting)'
  <2>1. /\ L \in SUBSET (alive \X Locations) /\ W \in SUBSET (alive \X Locations)
        /\ LeadOn(L, {}) /\ LeadOn(W, Waiting)
    BY DEF Complete
  <2>2. Unfinished(a) BY <1>5 DEF Unfinished
  <2>3. LeadOn(L, {})' BY <1>5, <2>1, <2>2, FreshLeads DEF LeadOn
  <2>4. ASSUME NEW w, w = Waiting PROVE LeadOn(W, w)'
    BY <1>5, <2>1, <2>2, <2>4, FreshLeads DEF LeadOn
  <2> QED BY <1>6, <2>3, <2>4
<1>8. \A u \in Threads : \A b \in Held(u)' : <<th'[u].f, b>> \in L
  BY <1>2, HeldWhileEmitting DEF Complete, AInv
<1>9. ~LockFree' BY <1>3, <1>5 DEF LockFree
<1>10. \A f \in Globals : emitted'[f] # Null /\ f # job'.f =>
                            <<f, emitted'[f]>> \in W
  BY <1>5 DEF Complete, Covered
<1>11. Covered(L, W)'
  BY <1>3, <1>5, <1>8, <1>9, <1>10 DEF Complete, Covered
<1> QED BY <1>5, <1>7, <1>11 DEF Complete

LEMMA RetryComplete ==
  ASSUME AInv, UNCHANGED program, NEW L, NEW W, Complete(L, W),
         NEW t \in Threads, Retry(t)
  PROVE  Complete(L, W)'
<1> USE ProgramSame
<1> DEFINE a == emitted[job.f]
<1>1. /\ th[t].pc = "emit" /\ Goto(t, "start")
      /\ mem' = [mem EXCEPT ![a] = Code("freed", None)]
      /\ emitted' = [emitted EXCEPT ![job.f] = Null]
      /\ UNCHANGED <<maps, alive, stubOf, callSites, pending, lock, job, given>>
  BY DEF Retry
<1>2. /\ lock = t /\ t # NoThread /\ job.f \in Globals /\ ~Starting
  BY <1>1, JobFacts
<1>3. /\ \A u \in Threads \ {t} : th'[u] = th[u]
      /\ th'[t].pc = "start"
  BY <1>1, GotoStep DEF AInv
<1>4. a \in Memory /\ mem[a].kind = "body" /\ mem[a].done = FALSE
  BY <1>2 DEF AInv, Session, Tables, Types, Complete, Covered
<1>5. /\ \A b \in Memory \ {a} : mem'[b] = mem[b]
      /\ emitted'[job.f] = Null
      /\ \A h \in Globals \ {job.f} : emitted'[h] = emitted[h]
  BY <1>1, <1>2 DEF AInv, Types, MemType
<1>6. Waiting' = Waiting BY <1>1 DEF Waiting, Queue
<1> HIDE DEF a
<1>7. LeadOn(L, {})' /\ LeadOn(W, Waiting)'
  <2>1. /\ L \in SUBSET (alive \X Locations) /\ W \in SUBSET (alive \X Locations)
        /\ LeadOn(L, {}) /\ LeadOn(W, Waiting)
    BY DEF Complete
  <2>2. Unfinished(a) BY <1>4 DEF Unfinished
  <2>3. LeadOn(L, {})' BY <1>1, <1>4, <1>5, <2>1, <2>2, FreshLeads DEF LeadOn
  <2>4. ASSUME NEW w, w = Waiting PROVE LeadOn(W, w)'
    BY <1>1, <1>4, <1>5, <2>1, <2>2, <2>4, FreshLeads DEF LeadOn
  <2> QED BY <1>6, <2>3, <2>4
<1>8. \A u \in Threads : \A b \in Held(u)' : <<th'[u].f, b>> \in L
  BY <1>1, HeldWhileEmitting DEF Complete, AInv
<1>9. ~LockFree' /\ Starting' BY <1>1, <1>2, <1>3 DEF LockFree, Starting
<1>10. \A f \in Globals : emitted'[f] # Null /\ f # job'.f =>
                            <<f, emitted'[f]>> \in W
  BY <1>1, <1>5 DEF Complete, Covered
<1>11. Covered(L, W)'
  BY <1>1, <1>2, <1>8, <1>9, <1>10 DEF Complete, Covered
<1> QED BY <1>1, <1>7, <1>11 DEF Complete

(* A new stub leads to its function, to the lazy resolver, or is waiting.    *)
LEMMA StubLeads ==
  ASSUME AInv, UNCHANGED program, NEW L, NEW W, Complete(L, W),
         NEW g \in alive, NEW s \in Memory, StubEmitted(g, s),
         NEW v, NEW w, v \subseteq w, LeadOn(W, v),
         g \in External \/ Lazily \/ g \in w
  PROVE  LeadOn(W \cup {<<g, s>>}, w)'
<1> USE ProgramSame
<1> DEFINE Y == W \cup {<<g, s>>}
<1>1. /\ NoCode(s) /\ stubOf[g] = Null
      /\ \A b \in Memory \ {s} : mem'[b] = mem[b]
      /\ mem'[s].kind = "stub" /\ mem'[s].fn = g /\ mem'[s].calls = {}
      /\ mem'[s].jump = StubJump(g)
      /\ g \in External => StubJump(g) # Null
      /\ stubOf'[g] = s
      /\ \A h \in Globals \ {g} : stubOf'[h] = stubOf[h]
      /\ callSites \subseteq callSites'
      /\ Lazily => s \in callSites'
  BY DEF StubEmitted
<1>2. g \in External => <<g, ExternalAddr[g]>> \in Y
  BY DEF Complete, Covered
<1>3. \A p \in W : Leads(p[1], p[2], Y, w)'
  <2>1. W \in SUBSET (alive \X Locations) BY DEF Complete
  <2>2. Unfinished(s) BY <1>1 DEF Unfinished
  <2>3. \A h \in Globals : stubOf[h] # Null => stubOf'[h] = stubOf[h] BY <1>1
  <2>4. W \subseteq Y OBVIOUS
  <2> HIDE DEF Y
  <2> QED BY <1>1, <2>1, <2>2, <2>3, <2>4, FreshLeads
<1>4. Leads(g, s, Y, w)'
  <2> HIDE DEF Y
  <2>1. IsStub(g, s, Y, w)' BY <1>1, <1>2 DEF IsStub, StubJump
  <2> QED BY <1>1, <2>1 DEF Leads
<1>5. \A p \in Y : p \in W \/ p = <<g, s>> OBVIOUS
<1> HIDE DEF Y
<1>6. LeadOn(Y, w)' BY <1>3, <1>4, <1>5 DEF LeadOn
<1> QED BY <1>6 DEF Y

LEMMA EmitStubCallComplete ==
  ASSUME AInv, UNCHANGED program, ExternalsDiffer,
         NEW L, NEW W, Complete(L, W),
         NEW t \in Threads, NEW g \in Globals, EmitStubCall(t, g)
  PROVE  \E N : Complete(L, N)'
<1> USE ProgramSame
<1>1. PICK s \in Memory : getLazyFunctionStub(g, s) /\ Relocate(g, s)
  BY DEF EmitStubCall
<1>2. /\ th[t].pc = "emit" /\ g \in job.todo
      /\ UNCHANGED <<alive, lock, th, given, used>>
  BY DEF EmitStubCall
<1>3. /\ lock = t /\ t # NoThread /\ ~Starting /\ job.f \in alive
      /\ job.f \in Globals
  BY <1>2, JobFacts
<1>4. /\ g \in alive /\ job \in JobType /\ pending \in Seq(Globals)
      /\ s \in Locations
  BY <1>2, <1>3, ProgramFacts DEF AInv, Session, Tables, Types
<1>5. StubEmitted(g, s)
  BY <1>1, <1>3, <1>4, EmitStubFacts DEF AInv, getLazyFunctionStub
<1>6. /\ job'.f = job.f /\ job'.queued = job.queued
      /\ job'.calls = job.calls \cup {<<g, s>>}
  BY <1>1, <1>2, <1>4, RelocateFacts
<1>7. /\ Waiting \subseteq Waiting'
      /\ g \in External \/ Lazily \/ g \in Waiting'
  <2>1. CASE Lazily \/ g \in External
    <3>1. pending' = pending BY <1>1, <2>1 DEF getLazyFunctionStub
    <3> QED BY <1>6, <2>1, <3>1 DEF Waiting, Queue
  <2>2. CASE ~(Lazily \/ g \in External)
    <3>1. pending' = Append(pending, g) BY <1>1, <2>2 DEF getLazyFunctionStub
    <3>2. Queue' = Queue \cup {g} BY <1>4, <3>1, QueueAppend
    <3> QED BY <1>6, <3>2 DEF Waiting
  <2> QED BY <2>1, <2>2
<1> DEFINE N == W \cup {<<g, s>>}
<1>8. /\ L \subseteq W /\ W \subseteq alive \X Locations
      /\ LeadOn(L, {}) /\ LeadOn(W, Waiting) /\ Covered(L, W)
  BY DEF Complete
<1>9. ASSUME NEW w, w = Waiting' PROVE LeadOn(N, w)'
  <2>1. Waiting \subseteq w /\ (g \in External \/ Lazily \/ g \in w)
    BY <1>7, <1>9
  <2> QED BY <1>4, <1>5, <1>8, <2>1, StubLeads
<1>10. /\ NoCode(s) /\ stubOf[g] = Null /\ emitted' = emitted
       /\ \A b \in Memory \ {s} : mem'[b] = mem[b]
       /\ stubOf'[g] = s
       /\ \A h \in Globals \ {g} : stubOf'[h] = stubOf[h]
       /\ callSites \subseteq callSites'
  BY <1>5 DEF StubEmitted
<1>11. LeadOn(L, {})'
  <2>1. Unfinished(s) BY <1>10 DEF Unfinished
  <2>2. \A h \in Globals : stubOf[h] # Null => stubOf'[h] = stubOf[h] BY <1>10
  <2>3. L \in SUBSET (alive \X Locations) BY <1>8
  <2> QED BY <1>8, <1>10, <2>1, <2>2, <2>3, FreshLeads DEF LeadOn
<1>12. Covered(L, N)'
  <2>1. ~LockFree' BY <1>2, <1>3 DEF LockFree
  <2>2. W \subseteq N /\ <<g, s>> \in N OBVIOUS
  <2>3. emitted[job.f] \in Memory /\ mem[emitted[job.f]].kind = "body"
    BY <1>3 DEF AInv, Session, Tables, Types
  <2>4. mem'[emitted[job.f]] = mem[emitted[job.f]]
    BY <1>10, <2>3 DEF NoCode
  <2>5. job'.calls \subseteq N \cup {<<job.f, emitted[job.f]>>}
    BY <1>3, <1>6, <1>8, <2>2 DEF Covered
  <2>6. \A h \in Globals : stubOf'[h] # Null => <<h, stubOf'[h]>> \in N
    BY <1>8, <1>10, <2>2 DEF Covered
  <2>7. \A h \in Globals : emitted[h] # Null /\ h # job.f => <<h, emitted[h]>> \in N
    BY <1>8, <2>2 DEF Covered
  <2>8. mem[emitted[job.f]].done = FALSE /\ ~Starting'
    BY <1>2, <1>3, <1>8 DEF Covered, Starting
  <2>9. \A u \in Threads : \A a \in Held(u)' : <<th'[u].f, a>> \in L
    <3>1. \A u \in Threads : Held(u)' = Held(u) BY <1>2 DEF Held
    <3> QED BY <1>2, <1>8, <3>1 DEF Covered
  <2> HIDE DEF N
  <2> QED
    BY <1>2, <1>6, <1>8, <1>10, <2>1, <2>4, <2>5, <2>6, <2>7, <2>8, <2>9
       DEF Covered
<1>13. L \subseteq N /\ N \subseteq alive \X Locations BY <1>4, <1>8
<1> HIDE DEF N
<1>14. Complete(L, N)'
  <2>1. LeadOn(N, Waiting)' BY <1>9
  <2> QED BY <1>2, <1>11, <1>12, <1>13, <2>1 DEF Complete
<1> QED BY <1>14

LEMMA NewStubComplete ==
  ASSUME AInv, UNCHANGED <<program, alive, lock, job>>, ExternalsDiffer,
         NEW L, NEW W, Complete(L, W), LockFree, Lazily,
         NEW t \in Threads, NEW g \in alive, NEW s \in Memory,
         getLazyFunctionStub(g, s),
         \A u \in Threads \ {t} : th'[u] = th[u],
         th'[t] = Idle, given' = given \cup {<<g, s>>}
  PROVE  \E N : Complete(N, N)'
<1> USE ProgramSame
<1>1. /\ g \in Globals /\ s \in Locations /\ ~Starting /\ lock = NoThread
  BY FreeFacts, ProgramFacts DEF AInv, LockFree
<1>2. L = W /\ W \subseteq alive \X Locations /\ LeadOn(W, {}) /\ Covered(L, W)
  BY DEF Complete, Covered
<1>3. pending' = pending /\ EmitStub(g, s) BY DEF getLazyFunctionStub
<1>4. StubEmitted(g, s) BY <1>1, <1>3, EmitStubFacts DEF AInv
<1>5. Waiting' = {} BY <1>3, WaitingFacts DEF Waiting, Queue
<1> DEFINE N == W \cup {<<g, s>>}
<1>6. LeadOn(N, {})' BY <1>2, <1>4, StubLeads
<1>7. /\ emitted' = emitted /\ stubOf'[g] = s
      /\ \A h \in Globals \ {g} : stubOf'[h] = stubOf[h]
  BY <1>4 DEF StubEmitted
<1>8. Covered(N, N)'
  <2>1. W \subseteq N /\ <<g, s>> \in N OBVIOUS
  <2>2. \A h \in Globals : stubOf'[h] # Null => <<h, stubOf'[h]>> \in N
    BY <1>2, <1>7, <2>1 DEF Covered
  <2>3. \A h \in Globals : emitted[h] # Null /\ h # job.f => <<h, emitted[h]>> \in N
    BY <1>2, <2>1 DEF Covered
  <2>4. given' \subseteq N BY <1>2, <2>1 DEF Covered
  <2>5. \A f \in alive \cap External : <<f, ExternalAddr[f]>> \in N
    BY <1>2, <2>1 DEF Covered
  <2>6. \A u \in Threads : \A a \in Held(u)' : <<th'[u].f, a>> \in N
    <3>1. Held(t)' = {} BY IdleFields, HeldNone
    <3>2. \A u \in Threads : \A a \in Held(u)' : <<th'[u].f, a>> \in L
      BY <1>2, <3>1, HeldKept
    <3> QED BY <1>2, <2>1, <3>2
  <2> HIDE DEF N
  <2> QED BY <1>1, <1>7, <2>2, <2>3, <2>4, <2>5, <2>6 DEF Covered
<1>9. N \subseteq alive' \X Locations BY <1>1, <1>2
<1> HIDE DEF N
<1>10. LeadOn(N, Waiting)'
  <2>1. ASSUME NEW w, w = {} PROVE LeadOn(N, w)' BY <1>6, <2>1
  <2> QED BY <1>5, <2>1
<1>11. Complete(N, N)' BY <1>6, <1>8, <1>9, <1>10 DEF Complete
<1> QED BY <1>11

LEMMA GetStubComplete ==
  ASSUME AInv, UNCHANGED program, ExternalsDiffer,
         NEW L, NEW W, Complete(L, W), NEW t \in Threads, GetStub(t)
  PROVE  \E N : Complete(N, N)'
<1>1. /\ th[t].pc = "orstub" /\ LockFree /\ InCall(t)
      /\ UNCHANGED <<alive, lock, job, used>>
  BY CallFacts DEF GetStub
<1>2. PICK g \in alive : g = th[t].f BY <1>1 DEF InCall
<1>3. th[t].op = "get" /\ Lazily
  BY <1>1 DEF InCall, GetCall, StubCall, RecompileCall
<1>4. /\ g \in Globals /\ L = W /\ Null \in Locations
      /\ Memory \subseteq Locations /\ Null \notin Memory
  BY <1>1, ProgramFacts DEF AInv, Complete, Covered
<1>5. CASE /\ stubOf[g] = Null /\ g \in External /\ ExternalAddr[g] = Null
           /\ Return(t, Null) /\ UNCHANGED code
  <2>1. <<g, Null>> \in L BY <1>5 DEF Complete, Covered
  <2>2. Complete(L, W)'
    BY <1>1, <1>2, <1>4, <1>5, <2>1, ReturnComplete DEF code
  <2> QED BY <1>4, <2>2
<1>6. ASSUME NEW s \in Memory, Return(t, s), stubOf[g] = s, UNCHANGED code
      PROVE  \E N : Complete(N, N)'
  <2>1. <<g, s>> \in L BY <1>4, <1>6 DEF Complete, Covered
  <2>2. Complete(L, W)'
    BY <1>1, <1>2, <1>4, <1>6, <2>1, ReturnComplete DEF code
  <2> QED BY <1>4, <2>2
<1>7. ASSUME NEW s \in Memory, Return(t, s), getLazyFunctionStub(g, s)
      PROVE  \E N : Complete(N, N)'
  <2>1. /\ \A u \in Threads \ {t} : th'[u] = th[u]
        /\ th'[t] = Idle /\ given' = given \cup {<<g, s>>}
    BY <1>2, <1>3, <1>4, <1>7, ReturnStep DEF AInv
  <2> QED BY <1>1, <1>3, <1>7, <2>1, NewStubComplete
<1> QED BY <1>2, <1>5, <1>6, <1>7 DEF GetStub

-----------------------------------------------------------------------------
(* A function whose compilation ends. Its body is finished, and leads to     *)
(* what is finished already or to itself; its stub, if it waited, is filled  *)
(* in; other stubs wait on.                                                  *)
LEMMA FinishedCode ==
  ASSUME AInv, Once, UNCHANGED program, NEW L, NEW W, Complete(L, W),
         NEW t \in Threads, FinishFunction(t)
  PROVE  /\ LeadOn(L, {})'
         /\ \A N, w : /\ N = W \cup {<<job.f, emitted[job.f]>>}
                      /\ Queue \subseteq w
                      => LeadOn(N, w)'
<1> USE ProgramSame
<1>1. th[t].pc = "emit" /\ job.todo = {} /\ UNCHANGED <<stubOf, callSites, emitted>>
  BY DEF FinishFunction
<1>2. BodyFinished BY FinishFacts
<1>3. PICK f \in alive \ External : f = job.f BY <1>1, JobFacts
<1>4. /\ lock = t /\ t # NoThread /\ ~Starting /\ f \in Globals /\ None \notin Globals
      /\ Null \notin Memory /\ Resolver # Null
  BY <1>1, <1>3, JobFacts, ProgramFacts DEF AInv
<1>5. PICK a \in Memory : a = emitted[f]
  BY <1>3, <1>4 DEF AInv, Session, Types
<1>6. /\ mem[a].kind = "body" /\ mem[a].fn = f /\ mem[a].jump = Null
      /\ mem[a].done = FALSE
      /\ job.calls \subseteq W \cup {<<f, a>>}
      /\ {c[1] : c \in job.calls} = Calls[f]
  BY <1>1, <1>3, <1>4, <1>5 DEF AInv, Tables, Session, Complete, Covered
<1>7. PICK s \in Memory \cup {Null} :
        /\ s = stubOf[f]
        /\ job.queued => /\ s # Null /\ mem[s].kind = "stub" /\ mem[s].fn = f
                         /\ mem[s].jump = Null
                         /\ Lookup(maps, f) = a
  <2>1. stubOf[f] \in Memory \cup {Null} BY <1>4 DEF AInv, Types
  <2>2. CASE job.queued
    <3>1. f \in Waiting BY <1>3, <2>2 DEF Waiting
    <3>2. /\ stubOf[f] # Null /\ mem[stubOf[f]].kind = "stub"
          /\ mem[stubOf[f]].fn = f /\ mem[stubOf[f]].jump = Null
      BY <3>1, WaitingFacts DEF Once
    <3>3. Lookup(maps, f) = a
      BY <1>3, <1>4, <1>5, <2>2 DEF AInv, Mapped, Session, Unmapped, Once
    <3> QED BY <2>1, <3>2, <3>3
  <2> QED BY <2>1, <2>2
<1>8. /\ L \subseteq W /\ W \subseteq alive \X Locations
      /\ LeadOn(L, {}) /\ LeadOn(W, Waiting)
  BY DEF Complete
<1>9. ASSUME NEW b \in Memory, b # a, job.queued => b # s PROVE mem'[b] = mem[b]
  <2>1. mem[b] \in [kind : Kinds, fn : Globals \cup {None},
                    calls : SUBSET (Globals \X Locations), done : BOOLEAN,
                    jump : Locations \cup {Resolver}]
    BY DEF AInv, Types, MemType
  <2>2. mem'[b] \in [kind : Kinds, fn : Globals \cup {None},
                     calls : SUBSET (Globals \X Locations), done : BOOLEAN,
                     jump : Locations \cup {Resolver}]
    BY <1>2 DEF BodyFinished, MemType
  <2>3. /\ mem'[b].kind = mem[b].kind /\ mem'[b].fn = mem[b].fn
        /\ mem'[b].calls = mem[b].calls /\ mem'[b].done = mem[b].done
        /\ mem'[b].jump = mem[b].jump
    BY <1>2, <1>3, <1>5, <1>7, <1>9 DEF BodyFinished
  <2> QED BY <2>1, <2>2, <2>3
<1>10. /\ mem'[a].kind = "body" /\ mem'[a].fn = f /\ mem'[a].jump = Null
       /\ mem'[a].done = TRUE /\ mem'[a].calls = job.calls
       /\ job.queued => /\ mem'[s].kind = "stub" /\ mem'[s].fn = f
                        /\ mem'[s].jump = a /\ mem'[s].calls = mem[s].calls
  BY <1>2, <1>3, <1>5, <1>6, <1>7 DEF BodyFinished
<1>11. LeadOn(L, {})'
  <2> SUFFICES ASSUME NEW p \in L PROVE Leads(p[1], p[2], L, {})'
    BY DEF LeadOn
  <2>1. Leads(p[1], p[2], L, {}) /\ p[1] \in alive BY <1>8 DEF LeadOn
  <2>2. ASSUME p[2] \in Memory PROVE mem'[p[2]] = mem[p[2]]
    <3>1. /\ mem[p[2]].kind = "body" => mem[p[2]].done = TRUE
          /\ IsBody(p[1], p[2], L) \/ IsStub(p[1], p[2], L, {})
      BY <2>1, <2>2, LeadsToCode
    <3>2. p[2] # a BY <1>6, <3>1
    <3>3. ASSUME job.queued, p[2] = s PROVE FALSE
      <4>1. mem[s].kind = "stub" /\ mem[s].jump = Null BY <1>7, <3>3
      <4> QED BY <1>4, <3>1, <3>3, <4>1 DEF IsBody, IsStub
    <3> QED BY <1>9, <2>2, <3>2, <3>3
  <2>3. L \subseteq L OBVIOUS
  <2>4. \A b \in Memory : mem'[b].kind = mem[b].kind BY <1>2 DEF BodyFinished
  <2> QED BY <1>1, <2>1, <2>2, <2>3, <2>4, LeadsKept
<1>12. ASSUME NEW N, NEW w, N = W \cup {<<f, a>>}, Queue \subseteq w
       PROVE  LeadOn(N, w)'
  <2> SUFFICES ASSUME NEW p \in N PROVE Leads(p[1], p[2], N, w)'
    BY DEF LeadOn
  <2>1. Leads(f, a, N, w)'
    <3>1. IsBody(f, a, N)' BY <1>6, <1>10, <1>12 DEF IsBody
    <3> QED BY <1>10, <3>1 DEF Leads
  <2>2. ASSUME p \in W PROVE Leads(p[1], p[2], N, w)'
    <3>1. Leads(p[1], p[2], W, Waiting) /\ p[1] \in alive
      BY <1>8, <2>2 DEF LeadOn
    <3>2. CASE p[2] \in Memory /\ job.queued /\ p[2] = s
      <4>1. p[1] = f /\ IsStub(p[1], p[2], W, Waiting)
        <5>1. /\ mem[p[2]].fn = p[1]
              /\ IsBody(p[1], p[2], W) \/ IsStub(p[1], p[2], W, Waiting)
          BY <3>1, <3>2, LeadsToCode
        <5>2. mem[s].kind = "stub" /\ mem[s].fn = f BY <1>7, <3>2
        <5> QED BY <3>2, <5>1, <5>2 DEF IsBody
      <4>2. mem[s].calls = {} BY <3>2, <4>1 DEF IsStub
      <4>3. IsStub(f, s, N, w)'
        <5>1. /\ mem'[s].kind = "stub" /\ s = stubOf'[f] /\ mem'[s].calls = {}
              /\ mem'[s].jump = a
          BY <1>1, <1>7, <1>10, <3>2, <4>2
        <5>2. a # Null /\ <<f, a>> \in N BY <1>4, <1>12
        <5> QED BY <5>1, <5>2 DEF IsStub
      <4>4. Leads(f, s, N, w)' BY <1>10, <3>2, <4>3 DEF Leads
      <4> QED BY <3>2, <4>1, <4>4
    <3>3. CASE ~(p[2] \in Memory /\ job.queued /\ p[2] = s)
      <4>1. ASSUME p[2] \in Memory PROVE mem'[p[2]] = mem[p[2]]
        <5>1. mem[p[2]].kind = "body" => mem[p[2]].done = TRUE
          BY <3>1, <4>1, LeadsToCode
        <5>2. p[2] # a BY <1>6, <5>1
        <5> QED BY <1>9, <3>3, <4>1, <5>2
      <4>2. p[1] \in Waiting /\ p[2] = stubOf[p[1]] => p[1] \in w
        BY <1>3, <1>7, <1>12, <3>3, WaitingFacts DEF Waiting
      <4>3. W \subseteq N BY <1>12
      <4>4. \A b \in Memory : mem'[b].kind = mem[b].kind BY <1>2 DEF BodyFinished
      <4> QED BY <1>1, <3>1, <4>1, <4>2, <4>3, <4>4, LeadsKept
    <3> QED BY <3>2, <3>3
  <2> QED BY <1>12, <2>1, <2>2
<1> QED BY <1>3, <1>5, <1>11, <1>12

LEMMA FinishFunctionComplete ==
  ASSUME AInv, Once, UNCHANGED program, NEW L, NEW W, Complete(L, W),
         NEW t \in Threads, FinishFunction(t)
  PROVE  \E M, N : Complete(M, N)'
<1> USE ProgramSame
<1>1. th[t].pc = "emit" /\ UNCHANGED <<alive, stubOf, callSites, emitted>>
  BY DEF FinishFunction
<1>2. PICK f \in alive \ External : f = job.f BY <1>1, JobFacts
<1>3. /\ lock = t /\ t # NoThread /\ ~Starting /\ f \in Globals /\ None \notin Globals
      /\ Null \notin Memory /\ Memory \subseteq Locations
      /\ th[t].f \in Globals
  BY <1>1, <1>2, JobFacts, ProgramFacts DEF AInv
<1>4. PICK a \in Memory : a = emitted[f]
  BY <1>2, <1>3 DEF AInv, Session, Types
<1> DEFINE N == W \cup {<<f, a>>}
<1>5. /\ W \subseteq N /\ <<f, a>> \in N /\ L \subseteq N
      /\ N \subseteq alive \X Locations
  BY <1>2, <1>3, <1>4 DEF Complete
<1>6. /\ LeadOn(L, {})'
      /\ \A w : Queue \subseteq w => LeadOn(N, w)'
  BY <1>2, <1>4, FinishedCode
<1> HIDE DEF N
<1>7. /\ given \subseteq L /\ L \subseteq W
      /\ \A h \in alive \cap External : <<h, ExternalAddr[h]>> \in L
      /\ \A h \in Globals : stubOf[h] # Null => <<h, stubOf[h]>> \in N
      /\ \A h \in Globals : emitted[h] # Null => <<h, emitted[h]>> \in N
      /\ \A u \in Threads : \A b \in Held(u) : <<th[u].f, b>> \in L
  BY <1>2, <1>4, <1>5 DEF Complete, Covered
<1>8. lock' \in {t, NoThread} /\ \A u \in Threads \ {t} : th'[u] = th[u]
  BY NextFacts
<1>9. CASE lock' = t
  <2>1. /\ job'.f \in Queue /\ job'.queued = TRUE
        /\ Queue = Queue' \cup {job'.f}
        /\ th'[t].pc = "start" /\ given' = given /\ th'[t].f = th[t].f
        /\ th'[t].op = th[t].op /\ th'[t].at = th[t].at
    BY <1>9, NextFacts
  <2>2. ASSUME NEW w, w = Waiting' PROVE LeadOn(N, w)'
    BY <1>6, <2>1, <2>2 DEF Waiting
  <2>3. LeadOn(N, Waiting)' BY <2>2
  <2>4. ~LockFree' /\ Starting' BY <1>3, <1>9, <2>1 DEF LockFree, Starting
  <2>5. \A u \in Threads : \A b \in Held(u)' : <<th'[u].f, b>> \in L
    <3>1. Held(t)' = Held(t) BY <1>1, <2>1, HeldSame
    <3>2. \A b \in Held(t)' : <<th'[t].f, b>> \in L BY <1>7, <2>1, <3>1
    <3> QED BY <1>8, <3>2, HeldKept DEF Complete
  <2>6. Covered(L, N)' BY <1>1, <1>7, <2>1, <2>4, <2>5 DEF Covered
  <2>7. Complete(L, N)' BY <1>1, <1>5, <1>6, <2>3, <2>6 DEF Complete
  <2> QED BY <2>7
<1>10. CASE lock' = NoThread
  <2>1. /\ pending' = <<>> /\ job' = NoJob /\ Queue = {} /\ Queue' = {}
        /\ th[t].op = "recompile" =>
             /\ th'[t].pc = "find" /\ th'[t].op = th[t].op
             /\ th'[t].f = th[t].f /\ th'[t].at = th[t].at /\ given' = given
        /\ th[t].op = "stub" =>
             /\ th'[t].pc = "patch" /\ th'[t].op = "stub"
             /\ th'[t].f = th[t].f /\ given' = given
             /\ th'[t].at = <<th[t].at, emitted[th[t].f]>>
        /\ th[t].op \notin {"stub", "recompile"} =>
             th'[t] = Idle /\ given' = given \cup {<<th[t].f, emitted[th[t].f]>>}
    BY <1>3, <1>10, NextFacts
  <2>2. Waiting' = {} BY <2>1 DEF Waiting, NoJob
  <2>3. LeadOn(N, {})' BY <1>6, <2>1
  <2>4. ASSUME NEW w, w = Waiting' PROVE LeadOn(N, w)' BY <2>2, <2>3, <2>4
  <2>5. LeadOn(N, Waiting)' BY <2>4
  <2>6. <<th[t].f, emitted[th[t].f]>> \in N
    <3>1. emitted[th[t].f] # Null BY <1>3 DEF AInv, Session
    <3> QED BY <1>3, <1>7, <3>1
  <2>7. given' \subseteq N BY <1>5, <1>7, <2>1, <2>6
  <2>8. \A u \in Threads : \A b \in Held(u)' : <<th'[u].f, b>> \in N
    <3>1. th[t].op = "recompile" => Held(t)' = Held(t)
      BY <1>1, <2>1, HeldSame
    <3>2. th[t].op = "stub" => Held(t)' = {emitted[th[t].f]}
      BY <2>1 DEF Held
    <3>3. th[t].op \notin {"stub", "recompile"} => Held(t)' = {}
      BY <2>1, HeldNone, IdleFields
    <3>4. \A b \in Held(t)' : <<th'[t].f, b>> \in N
      BY <1>5, <1>7, <2>1, <2>6, <3>1, <3>2, <3>3
    <3>5. \A u \in Threads \ {t} : Held(u)' = Held(u) BY <1>8 DEF Held
    <3> QED BY <1>5, <1>7, <1>8, <3>4, <3>5
  <2>9. \A h \in alive \cap External : <<h, ExternalAddr[h]>> \in N
    BY <1>5, <1>7
  <2>10. Covered(N, N)' BY <1>1, <1>7, <1>10, <2>7, <2>8, <2>9 DEF Covered
  <2>11. Complete(N, N)' BY <1>1, <1>5, <2>3, <2>5, <2>10 DEF Complete
  <2> QED BY <2>11
<1> QED BY <1>8, <1>9, <1>10

(* A stub or an old body is made to jump to code that a call has kept.       *)
LEMMA JumpComplete ==
  ASSUME AInv, UNCHANGED <<program, alive, emitted, stubOf, callSites, pending,
                           lock, job>>,
         NEW L, NEW W, Complete(L, W), NEW t \in Threads, lock # t,
         NEW a \in Memory, NEW j \in Memory, Rewritten(a, j),
         mem[j].kind = "body", <<mem[a].fn, j>> \in L,
         th'[t] = Idle, \A u \in Threads \ {t} : th'[u] = th[u],
         given' \subseteq L
  PROVE  Complete(L, W)'
<1> USE ProgramSame
<1>1. mem \in MemType /\ j \in Locations
  BY ProgramFacts DEF AInv, Types
<1>2. Jumps(a, j) BY <1>1, JumpFacts DEF Jumps
<1>3. /\ L \in SUBSET (alive \X Locations) /\ W \in SUBSET (alive \X Locations)
      /\ LeadOn(L, {}) /\ LeadOn(W, Waiting) /\ <<mem[a].fn, j>> \in W
      /\ L \subseteq W /\ Covered(L, W)
  BY DEF Complete
<1>4. LeadOn(L, {})' BY <1>2, <1>3, JumpLeads
<1>5. LeadOn(W, Waiting)'
  <2>1. ASSUME NEW w, w = Waiting PROVE LeadOn(W, w)'
    BY <1>2, <1>3, <2>1, JumpLeads
  <2>2. Waiting' = Waiting BY DEF Waiting, Queue
  <2> QED BY <2>1, <2>2
<1>6. Covered(L, W)'
  <2>1. \A u \in Threads : \A b \in Held(u)' : <<th'[u].f, b>> \in L
    <3>1. Held(t)' = {} BY HeldNone, IdleFields
    <3> QED BY <1>3, <3>1, HeldKept
  <2>2. lock # NoThread /\ ~Starting =>
          /\ mem'[emitted[job.f]].done = FALSE
          /\ job.calls \subseteq W \cup {<<job.f, emitted[job.f]>>}
    <3>1. lock # NoThread /\ ~Starting => emitted[job.f] \in Memory
      BY ProgramFacts DEF AInv, Session, Types
    <3> QED BY <1>2, <1>3, <3>1 DEF Covered, Jumps
  <2>3. Starting' <=> Starting BY DEF Starting, AInv, Types
  <2> QED BY <1>3, <2>1, <2>2, <2>3 DEF Covered, LockFree
<1> QED BY <1>3, <1>4, <1>5, <1>6 DEF Complete

LEMMA PatchComplete ==
  ASSUME AInv, UNCHANGED program, NEW L, NEW W, Complete(L, W),
         NEW t \in Threads, Patch(t)
  PROVE  Complete(L, W)'
<1> DEFINE s == stubOf[th[t].f]
           a == th[t].at[2]
<1>1. /\ th[t].pc = "patch" /\ InCall(t) /\ th[t].f \in Globals /\ lock # t
  BY CallFacts DEF Patch, AInv, Threading, Holds
<1>2. th[t].at = <<s, a>> /\ s # Null /\ th[t].op = "stub"
  BY <1>1 DEF InCall, GetCall, StubCall, RecompileCall
<1>3. a \in Held(t) BY <1>1, <1>2 DEF Held
<1>4. a \in Memory /\ mem[a].kind = "body" /\ <<th[t].f, a>> \in L
  BY <1>1, <1>3 DEF InCall, Holding, Complete, Covered
<1>5. s \in Memory /\ mem[s].fn = th[t].f
  BY <1>1, <1>2 DEF AInv, Types, Tables
<1>6. th[t].at[1] = s /\ th[t].at[2] = a BY <1>2
<1>7. /\ Rewritten(s, a) /\ th' = [th EXCEPT ![t] = Idle]
      /\ UNCHANGED <<maps, alive, emitted, stubOf, callSites, pending, lock, job,
                     given, used>>
  BY <1>6 DEF Patch, Rewritten
<1> HIDE DEF s, a
<1>8. th'[t] = Idle /\ \A u \in Threads \ {t} : th'[u] = th[u]
  BY <1>7 DEF AInv, Types
<1>9. given' \subseteq L BY <1>7 DEF Complete, Covered
<1> QED BY <1>1, <1>4, <1>5, <1>7, <1>8, <1>9, JumpComplete

LEMMA RelinkComplete ==
  ASSUME AInv, UNCHANGED program, NEW L, NEW W, Complete(L, W),
         NEW t \in Threads, Relink(t)
  PROVE  Complete(L, W)'
<1> DEFINE o == th[t].at[1]
           a == th[t].at[2]
<1>1. th[t].pc = "relink" BY DEF Relink
<1>2. /\ th[t].op = "recompile" /\ th[t].f \in Globals /\ lock # t
      /\ o \in Memory /\ a \in Memory /\ mem[o].fn = th[t].f
      /\ mem[a].kind = "body"
  BY <1>1, RelinkFacts DEF Holding
<1>3. a \in Held(t) BY <1>1, <1>2 DEF Held
<1>4. <<th[t].f, a>> \in L BY <1>3 DEF Complete, Covered
<1>5. /\ Rewritten(o, a) /\ Return(t, a)
      /\ UNCHANGED <<maps, alive, emitted, stubOf, callSites, pending, lock, job,
                     used>>
  BY DEF Relink, Rewritten
<1>6. a \in Locations BY <1>2, ProgramFacts DEF AInv
<1> HIDE DEF o, a
<1>7. /\ th'[t] = Idle /\ \A u \in Threads \ {t} : th'[u] = th[u]
      /\ given' = given \cup {<<th[t].f, a>>}
  BY <1>2, <1>5, <1>6, ReturnStep DEF AInv
<1>8. given' \subseteq L BY <1>4, <1>7 DEF Complete, Covered
<1> QED BY <1>2, <1>4, <1>5, <1>7, <1>8, JumpComplete

-----------------------------------------------------------------------------
(* Induction over the natural numbers, for a set. *)
Less == {ss \in Nat \X Nat : ss[1] < ss[2]}
LEMMA LessWF == IsWellFoundedOn(Less, Nat)
BY NatLessThanWellFounded DEF OpToRel, Less

LEMMA NatSet ==
  ASSUME NEW S, 0 \in S, \A n \in Nat : n \in S => n + 1 \in S
  PROVE  Nat \subseteq S
<1> DEFINE T == Nat \ S
<1> SUFFICES ASSUME T # {} PROVE FALSE OBVIOUS
<1>1. PICK x \in T : \A y \in T : ~(<<y, x>> \in Less)
  <2>1. T \subseteq Nat OBVIOUS
  <2> HIDE DEF T
  <2> QED BY <2>1, LessWF, WFMin
<1>2. x \in Nat /\ x # 0 OBVIOUS
<1>3. x - 1 \in Nat /\ x - 1 < x BY <1>2
<1>4. <<x - 1, x>> \in Less BY <1>2, <1>3 DEF Less
<1>5. x - 1 \in S BY <1>1, <1>3, <1>4
<1> QED BY <1>3, <1>5

(* The rounds in which ReachableFrom collects what code leads to.            *)
Size == Cardinality(Memory)
LEMMA SizeFacts == Size \in Nat /\ (Memory # {} => Size # 0)
BY JITAssumption, FS_CardinalityType, FS_EmptySet DEF Size

Rounds(as) ==
  CHOOSE after : after = [n \in 0..Size |-> IF n = 0 THEN as
                                            ELSE AndSuccessors(after[n - 1])]
LEMMA RoundsFacts ==
  ASSUME NEW as
  PROVE  /\ ReachableFrom(as) = Rounds(as)[Size] \cap Memory
         /\ Rounds(as)[0] = as
         /\ \A n \in Nat : n + 1 <= Size =>
              Rounds(as)[n + 1] = AndSuccessors(Rounds(as)[n])
<1> DEFINE Good(k, g) ==
             g = [n \in 0..k |-> IF n = 0 THEN as ELSE AndSuccessors(g[n - 1])]
           S == {k \in Nat : \E g : Good(k, g)}
<1>1. 0 \in S
  <2>1. Good(0, [n \in 0..0 |-> as]) OBVIOUS
  <2> QED BY <2>1
<1>2. ASSUME NEW k \in Nat, k \in S PROVE k + 1 \in S
  <2>1. PICK g : Good(k, g) BY <1>2
  <2> DEFINE h == [n \in 0..(k + 1) |->
                     IF n = 0 THEN as ELSE AndSuccessors(g[n - 1])]
  <2>2. ASSUME NEW n \in 0..k PROVE h[n] = g[n]
    <3>1. g[n] = IF n = 0 THEN as ELSE AndSuccessors(g[n - 1]) BY <2>1
    <3>2. n \in 0..(k + 1) OBVIOUS
    <3>3. h[n] = IF n = 0 THEN as ELSE AndSuccessors(g[n - 1]) BY <3>2
    <3> HIDE DEF h
    <3> QED BY <3>1, <3>3
  <2>3. \A n \in 0..(k + 1) : n # 0 => n - 1 \in 0..k OBVIOUS
  <2>4. \A n \in 0..(k + 1) : n # 0 => h[n - 1] = g[n - 1] BY <2>2, <2>3
  <2>5. h = [n \in 0..(k + 1) |-> IF n = 0 THEN as ELSE AndSuccessors(h[n - 1])]
    <3>1. \A n \in 0..(k + 1) :
            h[n] = IF n = 0 THEN as ELSE AndSuccessors(h[n - 1])
      BY <2>4
    <3> QED BY <3>1
  <2>6. Good(k + 1, h) BY <2>5
  <2> HIDE DEF h, Good
  <2>7. k + 1 \in Nat /\ \E x : Good(k + 1, x) BY <2>6
  <2> QED BY <2>7
<1>3. Size \in S
  <2> HIDE DEF S
  <2> QED BY <1>1, <1>2, NatSet, SizeFacts
<1>4. PICK g : Good(Size, g) BY <1>3
<1>5. Good(Size, Rounds(as)) BY <1>4 DEF Rounds
<1>6. \A n \in 0..Size :
        Rounds(as)[n] = IF n = 0 THEN as ELSE AndSuccessors(Rounds(as)[n - 1])
  BY <1>5
<1>7. ReachableFrom(as) = Rounds(as)[Size] \cap Memory
  BY DEF ReachableFrom, Rounds, Size
<1>a. Rounds(as)[0] = as
  <2>1. 0 \in 0..Size BY SizeFacts
  <2> QED BY <1>6, <2>1
<1> HIDE DEF Good
<1>8. ASSUME NEW n \in Nat, n + 1 <= Size
      PROVE  Rounds(as)[n + 1] = AndSuccessors(Rounds(as)[n])
  <2>1. n + 1 \in 0..Size /\ n + 1 # 0 /\ (n + 1) - 1 = n
    BY <1>8, SizeFacts
  <2> QED BY <1>6, <2>1
<1> QED BY <1>7, <1>8, <1>a

(* What is closed under jumps and calls is not left. *)
LEMMA ReachableWithin ==
  ASSUME NEW P, NEW as \in SUBSET P,
         \A a \in P \cap Memory :
           mem[a].jump \in P /\ \A c \in mem[a].calls : c[2] \in P
  PROVE  ReachableFrom(as) \subseteq P
<1> DEFINE R == Rounds(as)
<1>r. /\ ReachableFrom(as) = R[Size] \cap Memory /\ R[0] = as
      /\ \A n \in Nat : n + 1 <= Size => R[n + 1] = AndSuccessors(R[n])
  BY RoundsFacts
<1> HIDE DEF R
<1>n. Size \in Nat /\ Size <= Size BY SizeFacts
<1> DEFINE S == {n \in Nat : n <= Size => R[n] \subseteq P}
<1>0. \A n \in Nat : n \in S <=> (n <= Size => R[n] \subseteq P)
  OBVIOUS
<1> HIDE DEF S
<1>1. 0 \in S
  <2>1. R[0] \subseteq P BY <1>r
  <2> QED BY <1>0, <2>1
<1>2. ASSUME NEW n \in Nat, n \in S PROVE n + 1 \in S
  <2>1. CASE n + 1 <= Size
    <3>1. n <= Size BY <2>1, SizeFacts
    <3>2. R[n] \subseteq P BY <1>0, <1>2, <3>1
    <3>3. R[n + 1] = AndSuccessors(R[n])
      BY <2>1, <1>r
    <3>4. \A X : X \subseteq P => AndSuccessors(X) \subseteq P
      BY DEF AndSuccessors
    <3>5. AndSuccessors(R[n]) \subseteq P BY <3>2, <3>4
    <3>6. n + 1 \in Nat OBVIOUS
    <3> QED BY <1>0, <3>3, <3>5, <3>6
  <2>2. CASE ~(n + 1 <= Size)
    <3>1. n + 1 \in Nat OBVIOUS
    <3> QED BY <1>0, <2>2, <3>1
  <2> QED BY <2>1, <2>2
<1>3. Size \in S BY <1>1, <1>2, NatSet, SizeFacts
<1>4. R[Size] \subseteq P BY <1>0, <1>3, <1>n
<1> QED BY <1>4, <1>r

(* What code calls can be reached from it. *)
LEMMA CallReachable ==
  ASSUME NEW a \in Memory, NEW c \in mem[a].calls, c[2] \in Memory
  PROVE  c[2] \in ReachableFrom({a})
<1> DEFINE R == Rounds({a})
           S == {n \in Nat : n + 1 <= Size => c[2] \in R[n + 1]}
<1>1. 0 \in S
  <2>1. c[2] \in AndSuccessors({a}) BY DEF AndSuccessors
  <2>2. 0 + 1 <= Size => R[0 + 1] = AndSuccessors(R[0]) /\ R[0] = {a}
    BY RoundsFacts
  <2> HIDE DEF R
  <2> QED BY <2>1, <2>2
<1>2. ASSUME NEW n \in Nat, n \in S PROVE n + 1 \in S
  <2> SUFFICES ASSUME (n + 1) + 1 <= Size PROVE c[2] \in R[(n + 1) + 1]
    OBVIOUS
  <2>1. c[2] \in R[n + 1] BY <1>2, SizeFacts
  <2>2. R[(n + 1) + 1] = AndSuccessors(R[n + 1]) BY RoundsFacts
  <2> HIDE DEF R
  <2> QED BY <2>1, <2>2 DEF AndSuccessors
<1>3. Size - 1 \in Nat /\ (Size - 1) + 1 = Size BY SizeFacts
<1>4. Size - 1 \in S
  <2> HIDE DEF S
  <2> QED BY <1>1, <1>2, <1>3, NatSet
<1>5. c[2] \in R[Size] BY <1>3, <1>4, SizeFacts
<1> QED BY <1>5, RoundsFacts

(* A function whose code is given back, and that no other code calls.        *)
LEMMA ForgetComplete ==
  ASSUME AInv, UNCHANGED <<program, pending, lock, job, th>>, LockFree,
         NEW L, NEW W, Complete(L, W), NEW f \in alive,
         deallocateMemForFunction(f),
         given' = {p \in given : p[1] # f},
         alive' \subseteq alive, alive \ {f} \subseteq alive',
         f \in alive' => f \notin External,
         \A g \in Globals \ {f} : stubOf'[g] = stubOf[g], stubOf'[f] = Null,
         \A s \in callSites : mem[s].fn # f => s \in callSites',
         \A t \in Threads : th[t].f # f,
         \A g \in alive \ {f}, a \in Memory :
           <<g, a>> \in W => \A c \in mem[a].calls : <<f, c[2]>> \in W => c[1] # f
  PROVE  \E N : Complete(N, N)'
<1> USE ProgramSame
<1> DEFINE N == {p \in W : p[1] # f}
<1>1. /\ L = W /\ W \subseteq alive \X Locations /\ LeadOn(W, {}) /\ Covered(W, W)
      /\ lock = NoThread /\ job = NoJob /\ f \in Globals /\ None \notin Globals
      /\ \A g \in alive : g \in Globals
  BY WaitingFacts, ProgramFacts DEF Complete, Covered, AInv, Session, LockFree
<1>2. Waiting = {} /\ Waiting' = {}
  <2>1. Waiting = {} BY WaitingFacts
  <2>2. Waiting' = Waiting BY DEF Waiting, Queue
  <2> QED BY <2>1, <2>2
<1>3. /\ emitted'[f] = Null
      /\ \A g \in Globals \ {f} : emitted'[g] = emitted[g]
      /\ \A b \in Memory : mem[b].fn # f => mem'[b] = mem[b]
  BY <1>1, DeallocFacts DEF AInv
<1>4. N \subseteq W /\ N \subseteq alive' \X Locations
      /\ \A p \in W : p[1] # f => p \in N
  BY <1>1
<1> HIDE DEF N
<1>5. ASSUME NEW p \in N PROVE Leads(p[1], p[2], N, {})'
  <2>1. PICK g \in alive, a \in Locations : p = <<g, a>> /\ g # f
    BY <1>1, <1>4 DEF N
  <2>2. Leads(g, a, W, {}) /\ <<g, a>> \in W /\ g \in Globals
    BY <1>1, <1>4, <2>1 DEF LeadOn
  <2>3. CASE g \in External /\ a = ExternalAddr[g] BY <2>1, <2>3 DEF Leads
  <2>4. CASE a \in Memory
    <3>1. mem[a].fn = g /\ (IsBody(g, a, W) \/ IsStub(g, a, W, {}))
      BY <2>2, <2>4, LeadsToCode
    <3>2. mem'[a] = mem[a] /\ stubOf'[g] = stubOf[g]
          /\ (a \in callSites => a \in callSites')
      BY <1>3, <2>1, <2>2, <2>4, <3>1
    <3>3. CASE IsBody(g, a, W)
      <4>1. mem[a].calls \subseteq W BY <3>3 DEF IsBody
      <4>2. ASSUME NEW c \in mem[a].calls PROVE c \in N
        <5>1. c \in W /\ c = <<c[1], c[2]>> BY <1>1, <4>1
        <5>2. c[1] # f BY <2>1, <2>2, <2>4, <5>1
        <5> QED BY <1>4, <5>1, <5>2
      <4>3. \/ mem[a].jump = Null
            \/ /\ mem[a].jump \in Memory /\ <<g, mem[a].jump>> \in N
               /\ mem'[mem[a].jump].kind = "body"
        <5> DEFINE b == mem[a].jump
        <5>1. CASE b # Null
          <6>1. b \in Memory /\ mem[b].kind = "body" /\ <<g, b>> \in W
            BY <3>3, <5>1 DEF IsBody
          <6> HIDE DEF b
          <6>2. Leads(g, b, W, {}) BY <1>1, <6>1 DEF LeadOn
          <6>3. mem[b].fn = g BY <6>1, <6>2, LeadsToCode
          <6>4. mem'[b] = mem[b] BY <1>3, <2>1, <6>1, <6>3
          <6> QED BY <1>4, <2>1, <6>1, <6>4 DEF b
        <5> QED BY <5>1
      <4>4. IsBody(g, a, N)' BY <3>2, <3>3, <4>2, <4>3 DEF IsBody
      <4> QED BY <2>1, <2>4, <3>1, <3>2, <4>4 DEF Leads
    <3>4. CASE IsStub(g, a, W, {})
      <4>1. <<g, mem[a].jump>> \in W => <<g, mem[a].jump>> \in N
        BY <1>4, <2>1
      <4>2. IsStub(g, a, N, {})' BY <3>2, <3>4, <4>1 DEF IsStub
      <4> QED BY <2>1, <2>4, <3>1, <3>2, <4>2 DEF Leads
    <3> QED BY <3>1, <3>3, <3>4
  <2> QED BY <2>2, <2>3, <2>4 DEF Leads
<1>6. LeadOn(N, {})' BY <1>5 DEF LeadOn
<1>7. LeadOn(N, Waiting)'
  <2>1. ASSUME NEW w, w = Waiting' PROVE LeadOn(N, w)' BY <1>2, <1>6, <2>1
  <2> QED BY <2>1
<1>8. Covered(N, N)'
  <2>1. given' \subseteq N BY <1>1, <1>4 DEF Covered
  <2>2. \A h \in alive' \cap External : <<h, ExternalAddr[h]>> \in N
    BY <1>1, <1>4 DEF Covered
  <2>3. \A h \in Globals : stubOf'[h] # Null => <<h, stubOf'[h]>> \in N
    BY <1>1, <1>4 DEF Covered
  <2>4. \A h \in Globals : emitted'[h] # Null /\ h # job.f =>
                             <<h, emitted'[h]>> \in N
    BY <1>1, <1>3, <1>4 DEF Covered
  <2>5. \A t \in Threads : \A a \in Held(t)' : <<th'[t].f, a>> \in N
    <3>1. \A t \in Threads : Held(t)' = Held(t) BY DEF Held
    <3> QED BY <1>1, <1>4, <3>1 DEF Covered
  <2> QED BY <1>1, <2>1, <2>2, <2>3, <2>4, <2>5 DEF Covered
<1> QED BY <1>4, <1>6, <1>7, <1>8 DEF Complete

LEMMA FreeComplete ==
  ASSUME FreeStubbed = FALSE, AInv, UNCHANGED program,
         NEW L, NEW W, Complete(L, W),
         NEW f \in Globals, freeMachineCodeForFunction(f)
  PROVE  \E N : Complete(N, N)'
<1>1. /\ LockFree /\ \A t \in Threads : th[t] = Idle
      /\ f \in alive /\ emitted[f] # Null /\ stubOf[f] = Null
      /\ ~ \E a, b \in Memory :
             /\ mem[a].kind = "body" /\ mem[a].fn # f
             /\ mem[b].kind = "body" /\ mem[b].fn = f
             /\ b \in ReachableFrom({a})
      /\ deallocateMemForFunction(f)
      /\ given' = {p \in given : p[1] # f}
      /\ UNCHANGED <<alive, stubOf, callSites, pending, lock, job, th>>
  BY DEF freeMachineCodeForFunction, Alone
<1>2. /\ f \notin External /\ \A t \in Threads : th[t].f # f
      /\ Null \notin Memory
  BY <1>1, ProgramFacts, IdleFields DEF AInv, Tables
<1>3. LeadOn(W, {}) BY <1>1, WaitingFacts DEF Complete
<1>4. ASSUME NEW g \in alive \ {f}, NEW a \in Memory, <<g, a>> \in W,
             NEW c \in mem[a].calls, <<f, c[2]>> \in W, c[1] = f
      PROVE  FALSE
  <2>1. Leads(g, a, W, {}) /\ Leads(f, c[2], W, {}) BY <1>3, <1>4 DEF LeadOn
  <2>2. mem[a].fn = g /\ (IsBody(g, a, W) \/ IsStub(g, a, W, {}))
    BY <2>1, LeadsToCode
  <2>3. mem[a].kind = "body" BY <1>4, <2>2 DEF IsBody, IsStub
  <2>4. c[2] \in Memory BY <1>2, <2>1 DEF Leads
  <2>5. mem[c[2]].fn = f /\ (IsBody(f, c[2], W) \/ IsStub(f, c[2], W, {}))
    BY <1>1, <2>1, <2>4, LeadsToCode
  <2>6. mem[c[2]].kind = "body" BY <1>1, <1>2, <2>4, <2>5 DEF IsBody, IsStub
  <2>7. c[2] \in ReachableFrom({a}) BY <2>4, CallReachable
  <2> QED BY <1>1, <1>4, <2>2, <2>3, <2>4, <2>5, <2>6, <2>7
<1> QED BY <1>1, <1>2, <1>4, ForgetComplete

LEMMA DeleteComplete ==
  ASSUME AInv, UNCHANGED program, NEW L, NEW W, Complete(L, W),
         NEW f \in Globals, DeleteFunction(f)
  PROVE  \E N : Complete(N, N)'
<1>1. /\ LockFree /\ f \in alive
      /\ \A t \in Threads : th[t].f # f
      /\ \A g \in alive \ {f} : f \notin Calls[g]
      /\ alive' = alive \ {f} /\ given' = {p \in given : p[1] # f}
      /\ deallocateMemForFunction(f)
      /\ stubOf' = [stubOf EXCEPT ![f] = Null]
      /\ callSites' = {s \in callSites : mem[s].fn # f}
      /\ UNCHANGED <<pending, lock, job, th>>
  BY DEF DeleteFunction, CallSitesWithout
<1>2. /\ stubOf'[f] = Null /\ \A g \in Globals \ {f} : stubOf'[g] = stubOf[g]
  BY <1>1 DEF AInv, Types
<1>3. LeadOn(W, {}) BY <1>1, WaitingFacts DEF Complete
<1>4. ASSUME NEW g \in alive \ {f}, NEW a \in Memory, <<g, a>> \in W,
             NEW c \in mem[a].calls
      PROVE  c[1] # f
  <2>1. Leads(g, a, W, {}) BY <1>3, <1>4 DEF LeadOn
  <2>2. IsBody(g, a, W) \/ IsStub(g, a, W, {}) BY <2>1, LeadsToCode
  <2>3. c[1] \in Calls[g] BY <1>4, <2>2 DEF IsBody, IsStub
  <2> QED BY <1>1, <2>3
<1> QED BY <1>1, <1>2, <1>4, ForgetComplete

(* The invariant holds at the start and is kept by every step. *)
LEMMA InitBInv == Init => BInv
<1> SUFFICES ASSUME Init PROVE BInv OBVIOUS
<1>1. AInv BY InitAInv
<1>2. /\ mem = [a \in Memory |-> Code("unused", None)]
      /\ Code("unused", None).jump = Null
      /\ emitted = [f \in Globals |-> Null] /\ stubOf = [f \in Globals |-> Null]
      /\ pending = <<>> /\ Len(pending) = 0 /\ lock = NoThread /\ job = NoJob
      /\ th = [t \in Threads |-> Idle] /\ given = {}
      /\ job.queued = FALSE
  BY DEF Init, Code, NoJob
<1>3. Queue = {} /\ Waiting = {} BY <1>2 DEF Queue, Waiting
<1>4. Once BY <1>2, <1>3 DEF Once
<1>5. \E d \in [Memory -> Nat] : Ranked(d)
  <2> DEFINE d == [a \in Memory |-> 0]
  <2>1. d \in [Memory -> Nat] OBVIOUS
  <2>2. \A a \in Memory : mem[a].jump \notin Memory
    BY <1>1, <1>2, ProgramFacts DEF AInv
  <2> HIDE DEF d
  <2> QED BY <2>1, <2>2 DEF Ranked
<1> DEFINE L == {<<f, ExternalAddr[f]>> : f \in External}
<1>6. L \subseteq alive \X Locations
  BY <1>1, ProgramFacts DEF Init, AInv, Calls
<1>7. \A f \in External : <<f, ExternalAddr[f]>> \in L OBVIOUS
<1>8. LeadOn(L, {})
  <2>1. \A p \in L : p[1] \in External /\ p[2] = ExternalAddr[p[1]] OBVIOUS
  <2> HIDE DEF L
  <2> QED BY <2>1 DEF LeadOn, Leads
<1> HIDE DEF L
<1>9. Covered(L, L)
  <2>1. \A t \in Threads : Held(t) = {} BY <1>2, IdleFields DEF Held
  <2> QED BY <1>2, <1>7, <2>1 DEF Covered
<1>10. LeadOn(L, Waiting) BY <1>3, <1>8
<1>11. Complete(L, L) BY <1>6, <1>8, <1>9, <1>10 DEF Complete
<1> QED BY <1>1, <1>4, <1>5, <1>6, <1>11 DEF BInv

LEMMA NextComplete ==
  ASSUME FreeStubbed = FALSE, ExternalsDiffer, AInv, Once, [Next]_vars,
         NEW L, NEW W, Complete(L, W)
  PROVE  \E M, N : Complete(M, N)'
<1>1. CASE UNCHANGED vars
  <2>1. UNCHANGED <<program, alive, code, lock, job, th, given>>
    BY <1>1 DEF vars
  <2>2. Waiting' = Waiting /\ Starting' = Starting /\ LockFree' = LockFree
    BY <2>1 DEF Waiting, Queue, Starting, LockFree, code
  <2>3. \A t \in Threads : Held(t)' = Held(t) BY <2>1 DEF Held
  <2>4. /\ given' \subseteq L
        /\ \A t \in Threads : \A a \in Held(t)' : <<th'[t].f, a>> \in L
    BY <2>1, <2>3 DEF Complete, Covered
  <2>5. lock' # NoThread /\ ~Starting' =>
          /\ mem[emitted[job'.f]].done = FALSE
          /\ job'.calls \subseteq W \cup {<<job'.f, emitted[job'.f]>>}
    BY <2>1, <2>2 DEF Complete, Covered, code
  <2>6. Complete(L, W)' BY <2>1, <2>2, <2>4, <2>5, CallsComplete DEF code
  <2> QED BY <2>6
<1>2. ASSUME NEW t \in Threads, Progress(t) PROVE \E M, N : Complete(M, N)'
  <2>1. UNCHANGED program BY <1>2 DEF Progress
  <2>2. CASE CheckMap(t) BY <2>1, <2>2, CheckMapComplete
  <2>3. CASE LockAndCheck(t) BY <2>1, <2>3, LockAndCheckComplete
  <2>4. CASE StartFunction(t) BY <2>1, <2>4, StartFunctionComplete
  <2>5. ASSUME NEW g \in Globals, EmitDirectCall(t, g)
        PROVE  \E M, N : Complete(M, N)'
    BY <2>1, <2>5, EmitDirectCallComplete
  <2>6. ASSUME NEW g \in Globals, EmitStubCall(t, g)
        PROVE  \E M, N : Complete(M, N)'
    BY <2>1, <2>6, EmitStubCallComplete
  <2>7. CASE FinishFunction(t) BY <2>1, <2>7, FinishFunctionComplete
  <2>8. CASE Patch(t) BY <2>1, <2>8, PatchComplete
  <2>9. CASE Relink(t) BY <2>1, <2>9, RelinkComplete
  <2>10. CASE GetStub(t) BY <2>1, <2>10, GetStubComplete
  <2>11. CASE DeleteMapping(t) \/ runJITOnFunction(t) \/ FindNewCode(t)
    BY <2>1, <2>11, RecompileComplete
  <2> QED
    BY <1>2, <2>2, <2>3, <2>4, <2>5, <2>6, <2>7, <2>8, <2>9, <2>10, <2>11
       DEF Progress
<1>3. ASSUME NEW t \in Threads, Retry(t), UNCHANGED program
      PROVE  \E M, N : Complete(M, N)'
  BY <1>3, RetryComplete
<1>4. ASSUME NEW t \in Threads, NEW f \in Globals, UNCHANGED program,
             \/ getPointerToFunction(t, f) \/ recompileAndRelinkFunction(t, f)
             \/ getPointerToFunctionOrStub(t, f)
      PROVE  \E M, N : Complete(M, N)'
  BY <1>4, ClientComplete
<1>5. ASSUME NEW t \in Threads, NEW s \in Memory, CallStub(t, s), UNCHANGED program
      PROVE  \E M, N : Complete(M, N)'
  BY <1>5, CallStubComplete
<1>6. ASSUME NEW f \in Globals, freeMachineCodeForFunction(f), UNCHANGED program
      PROVE  \E M, N : Complete(M, N)'
  BY <1>6, FreeComplete
<1>7. ASSUME NEW f \in Globals, DeleteFunction(f), UNCHANGED program
      PROVE  \E M, N : Complete(M, N)'
  BY <1>7, DeleteComplete
<1>8. ASSUME Ask, UNCHANGED program PROVE \E M, N : Complete(M, N)'
  BY <1>8, AskComplete
<1> QED BY <1>1, <1>2, <1>3, <1>4, <1>5, <1>6, <1>7, <1>8 DEF Next

LEMMA AlwaysBInv ==
  ASSUME StubsAreLazy, ExternalsDiffer, FreeStubbed = FALSE
  PROVE  Spec => []BInv
<1>1. ASSUME BInv, [Next]_vars PROVE BInv'
  <2>1. /\ AInv /\ Once /\ AInv'
        /\ \E d \in [Memory -> Nat] : Ranked(d)
        /\ \E L, W : Complete(L, W)
    BY <1>1, NextAInv DEF BInv
  <2>2. Once' BY <1>1, <2>1, NextOnce
  <2>3. \E e \in [Memory -> Nat] : Ranked(e)' BY <1>1, <2>1, NextRanked
  <2>4. \E M, N : Complete(M, N)' BY <1>1, <2>1, NextComplete
  <2>5. \E M, N \in SUBSET (alive' \X Locations) : Complete(M, N)'
    BY <2>4 DEF Complete
  <2> QED BY <2>1, <2>2, <2>3, <2>5 DEF BInv
<1>2. BInv /\ [Next]_vars => BInv' BY <1>1
<1> QED BY <1>2, InitBInv, PTL DEF Spec

-----------------------------------------------------------------------------
(* Following jumps. *)
Trace(a) ==
  CHOOSE after : after = [n \in 0..Size |-> IF n = 0 THEN a
                                            ELSE Follow(after[n - 1])]
LEMMA TraceFacts ==
  ASSUME NEW a
  PROVE  /\ Destination(a) = Trace(a)[Size]
         /\ Trace(a)[0] = a
         /\ \A n \in Nat : n + 1 <= Size =>
              Trace(a)[n + 1] = Follow(Trace(a)[n])
<1> DEFINE Good(k, g) ==
             g = [n \in 0..k |-> IF n = 0 THEN a ELSE Follow(g[n - 1])]
           S == {k \in Nat : \E g : Good(k, g)}
<1>1. 0 \in S
  <2>1. Good(0, [n \in 0..0 |-> a]) OBVIOUS
  <2> QED BY <2>1
<1>2. ASSUME NEW k \in Nat, k \in S PROVE k + 1 \in S
  <2>1. PICK g : Good(k, g) BY <1>2
  <2> DEFINE h == [n \in 0..(k + 1) |-> IF n = 0 THEN a ELSE Follow(g[n - 1])]
  <2>2. ASSUME NEW n \in 0..k PROVE h[n] = g[n]
    <3>1. g[n] = IF n = 0 THEN a ELSE Follow(g[n - 1]) BY <2>1
    <3>2. n \in 0..(k + 1) OBVIOUS
    <3>3. h[n] = IF n = 0 THEN a ELSE Follow(g[n - 1]) BY <3>2
    <3> HIDE DEF h
    <3> QED BY <3>1, <3>3
  <2>3. \A n \in 0..(k + 1) : n # 0 => n - 1 \in 0..k OBVIOUS
  <2>4. \A n \in 0..(k + 1) : n # 0 => h[n - 1] = g[n - 1] BY <2>2, <2>3
  <2>5. h = [n \in 0..(k + 1) |-> IF n = 0 THEN a ELSE Follow(h[n - 1])]
    <3>1. \A n \in 0..(k + 1) : h[n] = IF n = 0 THEN a ELSE Follow(h[n - 1])
      BY <2>4
    <3> QED BY <3>1
  <2>6. Good(k + 1, h) BY <2>5
  <2> HIDE DEF h, Good
  <2>7. k + 1 \in Nat /\ \E x : Good(k + 1, x) BY <2>6
  <2> QED BY <2>7
<1>3. Size \in S
  <2> HIDE DEF S
  <2> QED BY <1>1, <1>2, NatSet, SizeFacts
<1>4. PICK g : Good(Size, g) BY <1>3
<1>5. Good(Size, Trace(a)) BY <1>4 DEF Trace
<1>6. \A n \in 0..Size :
        Trace(a)[n] = IF n = 0 THEN a ELSE Follow(Trace(a)[n - 1])
  BY <1>5
<1>7. Destination(a) = Trace(a)[Size] BY DEF Destination, Trace, Size
<1>8. Trace(a)[0] = a
  <2>1. 0 \in 0..Size BY SizeFacts
  <2> QED BY <1>6, <2>1
<1> HIDE DEF Good
<1>9. ASSUME NEW n \in Nat, n + 1 <= Size
      PROVE  Trace(a)[n + 1] = Follow(Trace(a)[n])
  <2>1. n + 1 \in 0..Size /\ n + 1 # 0 /\ (n + 1) - 1 = n
    BY <1>9, SizeFacts
  <2> QED BY <1>6, <2>1
<1> QED BY <1>7, <1>8, <1>9

(* Jumps come to an end: their numbers decrease, so no address is met twice, *)
(* and there are no more steps to take than addresses.                       *)
Final(b) == b \in Memory => mem[b].jump \in {Null, Resolver}
LEMMA JumpsEnd ==
  ASSUME NEW d \in [Memory -> Nat], Ranked(d), NEW a
  PROVE  Final(Destination(a))
<1> DEFINE T == Trace(a)
<1>1. /\ Destination(a) = T[Size] /\ T[0] = a
      /\ \A n \in Nat : n + 1 <= Size => T[n + 1] = Follow(T[n])
  BY TraceFacts
<1> HIDE DEF T
<1> SUFFICES ASSUME ~Final(T[Size]) PROVE FALSE
  BY <1>1
<1>2. Size \in Nat BY SizeFacts
<1>3. PICK N \in Nat : N = Size BY <1>2
<1>4. ASSUME NEW n \in Nat, n <= N, Final(T[n]) PROVE FALSE
  <2> DEFINE S == {k \in Nat : n + k <= N => T[n + k] = T[n]}
  <2>1. 0 \in S OBVIOUS
  <2>2. ASSUME NEW k \in Nat, k \in S PROVE k + 1 \in S
    <3>1. CASE n + (k + 1) <= N
      <4>1. n + k \in Nat /\ (n + k) + 1 = n + (k + 1) /\ n + k <= N
        BY <1>3, <3>1
      <4>2. T[n + k] = T[n] BY <2>2, <4>1
      <4>3. T[n + (k + 1)] = Follow(T[n + k]) BY <1>1, <1>3, <3>1, <4>1
      <4>4. Follow(T[n]) = T[n] BY <1>4 DEF Final, Follow
      <4>5. T[n + (k + 1)] = T[n] BY <4>2, <4>3, <4>4
      <4> QED BY <4>5
    <3>2. CASE ~(n + (k + 1) <= N) BY <3>2
    <3> QED BY <3>1, <3>2
  <2>3. N - n \in Nat /\ n + (N - n) = N BY <1>3, <1>4
  <2>4. N - n \in S
    <3> HIDE DEF S
    <3> QED BY <2>1, <2>2, <2>3, NatSet
  <2>5. T[N] = T[n] BY <2>3, <2>4
  <2> QED BY <1>3, <1>4, <2>5
<1>5. \A n \in 0..N : T[n] \in Memory /\ mem[T[n]].jump \notin {Null, Resolver}
  BY <1>4 DEF Final
<1>6. ASSUME NEW n \in Nat, n + 1 <= N
      PROVE  d[T[n + 1]] < d[T[n]] /\ d[T[n]] \in Nat /\ d[T[n + 1]] \in Nat
  <2>1. n \in 0..N /\ n + 1 \in 0..N BY <1>3, <1>6
  <2>2. T[n + 1] = Follow(T[n]) BY <1>1, <1>3, <1>6
  <2>3. T[n + 1] = mem[T[n]].jump BY <1>5, <2>1, <2>2 DEF Follow
  <2>4. T[n] \in Memory /\ T[n + 1] \in Memory BY <1>5, <2>1
  <2> QED BY <2>3, <2>4 DEF Ranked
<1>7. ASSUME NEW m \in 0..N, NEW n \in 0..N, m < n PROVE T[m] # T[n]
  <2> DEFINE S == {k \in Nat : m + (k + 1) <= N => d[T[m + (k + 1)]] < d[T[m]]}
  <2>1. 0 \in S BY <1>6
  <2>2. ASSUME NEW k \in Nat, k \in S PROVE k + 1 \in S
    <3>1. CASE m + ((k + 1) + 1) <= N
      <4>1. /\ m + (k + 1) \in Nat /\ (m + (k + 1)) + 1 = m + ((k + 1) + 1)
            /\ m + (k + 1) <= N /\ m \in Nat /\ m + 1 <= N
        BY <1>3, <3>1
      <4>2. d[T[m + (k + 1)]] < d[T[m]] BY <2>2, <4>1
      <4>3. /\ d[T[m + ((k + 1) + 1)]] < d[T[m + (k + 1)]]
            /\ d[T[m + (k + 1)]] \in Nat /\ d[T[m + ((k + 1) + 1)]] \in Nat
        BY <1>6, <3>1, <4>1
      <4>4. d[T[m]] \in Nat BY <1>6, <4>1
      <4>5. d[T[m + ((k + 1) + 1)]] < d[T[m]] BY <4>2, <4>3, <4>4
      <4> QED BY <4>5
    <3>2. CASE ~(m + ((k + 1) + 1) <= N) BY <3>2
    <3> QED BY <3>1, <3>2
  <2>3. (n - m) - 1 \in Nat /\ m + (((n - m) - 1) + 1) = n /\ n <= N
    BY <1>3, <1>7
  <2>4. (n - m) - 1 \in S
    <3> HIDE DEF S
    <3> QED BY <2>1, <2>2, <2>3, NatSet
  <2>5. d[T[n]] < d[T[m]] BY <2>3, <2>4
  <2>6. m \in Nat /\ m + 1 <= N BY <1>3, <1>7
  <2>7. d[T[m]] \in Nat BY <1>6, <2>6
  <2> QED BY <2>5, <2>7
<1>8. \A m, n \in 0..N : T[m] = T[n] => m = n
  <2>1. \A m, n \in 0..N : m = n \/ m < n \/ n < m BY <1>3
  <2> QED BY <1>7, <2>1
<1>9. IsFiniteSet(0..N) /\ Cardinality(0..N) = N + 1
  <2>1. 0 <= N => Cardinality(0..N) = N - 0 + 1 BY <1>3, FS_Interval
  <2> QED BY <1>3, <2>1, FS_Interval
<1>10. IsFiniteSet(Memory) /\ Cardinality(Memory) = N
  BY <1>3, JITAssumption DEF Size
<1> DEFINE e == [n \in 0..N |-> T[n]]
<1>11. e \in [0..N -> Memory] BY <1>5
<1>12. \E m, n \in 0..N : m # n /\ e[m] = e[n]
  <2> HIDE DEF e
  <2> QED BY <1>3, <1>9, <1>10, <1>11, FS_PigeonHole
<1> QED BY <1>8, <1>12

(* In a set in which calls lead on, jumps lead to code that can run.         *)
LEMMA DestinationLeads ==
  ASSUME AInv, NEW d \in [Memory -> Nat], Ranked(d),
         NEW X \in SUBSET (alive \X Locations), LeadOn(X, {}),
         NEW f \in alive, NEW a, <<f, a>> \in X
  PROVE  /\ f \in External => Destination(a) = ExternalAddr[f]
         /\ f \notin External =>
              /\ Destination(a) \in Memory /\ mem[Destination(a)].fn = f
              /\ \/ IsBody(f, Destination(a), X) /\ mem[Destination(a)].jump = Null
                 \/ /\ mem[Destination(a)].jump = Resolver
                    /\ Destination(a) \in callSites
<1>1. /\ Null \notin Memory /\ Resolver \notin Locations /\ Null \in Locations
      /\ \A g \in External : ExternalAddr[g] \notin Memory
  BY ProgramFacts DEF AInv
<1>2. ASSUME NEW b, <<f, b>> \in X PROVE <<f, Follow(b)>> \in X
  <2>1. Leads(f, b, X, {}) BY <1>2 DEF LeadOn
  <2>2. CASE b \in Memory /\ mem[b].jump \notin {Null, Resolver}
    <3>1. IsBody(f, b, X) \/ IsStub(f, b, X, {}) BY <2>1, <2>2, LeadsToCode
    <3>2. <<f, mem[b].jump>> \in X BY <2>2, <3>1 DEF IsBody, IsStub
    <3> QED BY <2>2, <3>2 DEF Follow
  <2>3. CASE ~(b \in Memory /\ mem[b].jump \notin {Null, Resolver})
    BY <1>2, <2>3 DEF Follow
  <2> QED BY <2>2, <2>3
<1> DEFINE T == Trace(a)
<1>3. /\ Destination(a) = T[Size] /\ T[0] = a
      /\ \A n \in Nat : n + 1 <= Size => T[n + 1] = Follow(T[n])
  BY TraceFacts
<1> HIDE DEF T
<1>4. PICK N \in Nat : N = Size BY SizeFacts
<1> DEFINE S == {n \in Nat : n <= N => <<f, T[n]>> \in X}
<1>5. 0 \in S BY <1>3
<1>6. ASSUME NEW n \in Nat, n \in S PROVE n + 1 \in S
  <2>1. CASE n + 1 <= N
    <3>1. n <= N BY <1>4, <2>1
    <3>2. <<f, T[n]>> \in X BY <1>6, <3>1
    <3>3. T[n + 1] = Follow(T[n]) BY <1>3, <1>4, <2>1
    <3>4. <<f, T[n + 1]>> \in X BY <1>2, <3>2, <3>3
    <3> QED BY <3>4
  <2>2. CASE ~(n + 1 <= N) BY <2>2
  <2> QED BY <2>1, <2>2
<1>7. N \in S
  <2> HIDE DEF S
  <2> QED BY <1>4, <1>5, <1>6, NatSet
<1>8. PICK b \in Locations : b = Destination(a) /\ <<f, b>> \in X
  <2>1. N <= N BY <1>4
  <2>2. <<f, T[N]>> \in X BY <1>7, <2>1
  <2> QED BY <1>3, <1>4, <2>2
<1>9. Final(b) BY <1>8, JumpsEnd
<1>10. Leads(f, b, X, {}) BY <1>8 DEF LeadOn
<1>11. CASE b \in Memory
  <2>1. mem[b].fn = f /\ (IsBody(f, b, X) \/ IsStub(f, b, X, {}))
    BY <1>10, <1>11, LeadsToCode
  <2>2. mem[b].jump \in {Null, Resolver} BY <1>9, <1>11 DEF Final
  <2>3. <<f, Resolver>> \notin X BY <1>1
  <2>4. \/ IsBody(f, b, X) /\ mem[b].jump = Null
        \/ mem[b].jump = Resolver /\ b \in callSites /\ f \notin External
    BY <2>1, <2>2, <2>3 DEF IsBody, IsStub
  <2>5. f \notin External BY <2>4 DEF IsBody
  <2> QED BY <1>8, <1>11, <2>1, <2>4, <2>5
<1>12. CASE b \notin Memory
  BY <1>8, <1>10, <1>12 DEF Leads
<1> QED BY <1>11, <1>12

LEMMA AllRun ==
  ASSUME AInv, NEW d \in [Memory -> Nat], Ranked(d),
         NEW X \in SUBSET (alive \X Locations), LeadOn(X, {}), NEW p \in X
  PROVE  Runs(p[1], p[2])
<1>1. PICK f \in alive, a \in Locations : p = <<f, a>> OBVIOUS
<1>2. <<f, a>> \in X BY <1>1
<1>3. /\ f \in External => Destination(a) = ExternalAddr[f]
      /\ f \notin External =>
           /\ Destination(a) \in Memory /\ mem[Destination(a)].fn = f
           /\ \/ IsBody(f, Destination(a), X) /\ mem[Destination(a)].jump = Null
              \/ /\ mem[Destination(a)].jump = Resolver
                 /\ Destination(a) \in callSites
  BY <1>2, DestinationLeads
<1>4. Runs(f, a) BY <1>3 DEF Runs, IsBody
<1> QED BY <1>1, <1>4

(* Whatever address getPointerToFunction has returned, it can be called: it  *)
(* leads to finished code of its function or to a stub that the lazy resolver*)
(* knows, and so does every call in any code that can be reached from it.    *)
THEOREM CompleteWhenReturned ==
  ASSUME StubsAreLazy, ExternalsDiffer, FreeStubbed = FALSE
  PROVE  Spec => []ReturnedCodeIsComplete
<1>1. ASSUME BInv PROVE ReturnedCodeIsComplete
  <2>1. PICK d \in [Memory -> Nat] : Ranked(d) BY <1>1 DEF BInv
  <2>2. PICK L, W \in SUBSET (alive \X Locations) : Complete(L, W)
    BY <1>1 DEF BInv
  <2>3. LeadOn(L, {}) /\ given \subseteq L BY <2>2 DEF Complete, Covered
  <2>4. AInv BY <1>1 DEF BInv
  <2>5. \A p \in L : Runs(p[1], p[2]) BY <2>1, <2>3, <2>4, AllRun
  <2> DEFINE P == {p[2] : p \in L} \cup {Null, Resolver}
  <2>6. ASSUME NEW a \in P \cap Memory
        PROVE  /\ mem[a].jump \in P
               /\ \A c \in mem[a].calls : c \in L /\ c[2] \in P
    <3>1. Null \notin Memory /\ Resolver \notin Memory
      BY <2>4, ProgramFacts DEF AInv
    <3>2. PICK p \in L : p[2] = a BY <3>1
    <3>3. Leads(p[1], a, L, {}) /\ p[1] \in alive BY <2>3, <3>2 DEF LeadOn
    <3>4. IsBody(p[1], a, L) \/ IsStub(p[1], a, L, {})
      BY <2>4, <3>3, LeadsToCode
    <3>5. \A b : <<p[1], b>> \in L => b \in P OBVIOUS
    <3>6. \A c \in L : c[2] \in P OBVIOUS
    <3> HIDE DEF P
    <3>7. Null \in P /\ Resolver \in P BY DEF P
    <3> QED BY <3>4, <3>5, <3>6, <3>7 DEF IsBody, IsStub
  <2>7. Reachable \subseteq P
    <3> DEFINE as == {p[2] : p \in given}
    <3>1. as \subseteq P BY <2>3
    <3>2. Reachable = ReachableFrom(as) BY DEF Reachable
    <3> HIDE DEF as, P
    <3> QED BY <2>6, <3>1, <3>2, ReachableWithin
  <2>8. Reachable \subseteq Memory BY RoundsFacts DEF Reachable
  <2> HIDE DEF P
  <2>9. \A a \in Reachable : \A c \in mem[a].calls : Runs(c[1], c[2])
    BY <2>5, <2>6, <2>7, <2>8
  <2> QED BY <2>3, <2>5, <2>9 DEF ReturnedCodeIsComplete
<1>2. BInv => ReturnedCodeIsComplete BY <1>1
<1> QED BY <1>2, AlwaysBInv, PTL
-----------------------------------------------------------------------------
(* Recompiling. The bodies of f that clients have been given the address of  *)
(* and that have been overwritten since.                                     *)
OldBody(b) == mem[b].kind = "body" /\ mem[b].jump # Null
Old(f) == {b \in Memory : <<f, b>> \in given /\ OldBody(b)}

(* The newest code of f is mapped, and nobody is about to compile f.         *)
Settled(f) == /\ emitted[f] # Null /\ Lookup(maps, f) = emitted[f]
              /\ f \notin Queue /\ job.f # f
Recompiles(t, f) == th[t].op = "recompile" /\ th[t].f = f
Late(t) == th[t].pc \in {"find", "relink"}
OldCode(t) == IF th[t].pc = "relink" THEN th[t].at[1] ELSE th[t].at
Needs(f) == \/ Old(f) # {} /\ ~Recompiled(f)
            \/ \E t \in Threads : Recompiles(t, f) /\ Late(t)
NewestFor(f, c) == \/ c = emitted[f] /\ ~Recompiled(f)
                   \/ \E t \in Threads : Recompiles(t, f) /\ c = OldCode(t)

(* An overwritten body jumps to another one or to the newest code, or to what*)
(* is being replaced. Its function is settled then, except from when the     *)
(* mapping is deleted until the new code is there.                           *)
Rel(f) ==
  /\ Needs(f) => Settled(f)
  /\ \A b \in Old(f) : \A c :
       mem[b].jump = c => /\ <<f, c>> \in given
                          /\ c \in Old(f) \/ NewestFor(f, c)
  /\ \A t \in Threads :
       Recompiles(t, f) /\ th[t].pc = "relink" => th[t].at[2] = emitted[f]
Relinked == ~FarStubs => \A f \in Globals : Rel(f)

(* What a step has to leave as it is for f. *)
OldKept(f) ==
  \/ Old(f)' = {}
  \/ /\ Old(f)' = Old(f)
     /\ \A b \in Old(f) : mem'[b].jump = mem[b].jump
     /\ \A c : <<f, c>> \in given => <<f, c>> \in given'
RecompilingKept(f) ==
  \A t \in Threads :
    /\ Recompiles(t, f)' <=> Recompiles(t, f)
    /\ Recompiles(t, f) =>
         /\ th'[t].at = th[t].at
         /\ th'[t].pc = th[t].pc \/ (~Late(t) /\ ~Late(t)')
SettledKept(f) == Settled(f) => Settled(f)' /\ emitted'[f] = emitted[f]

LEMMA RelKept ==
  ASSUME NEW f \in Globals, Rel(f), OldKept(f), RecompilingKept(f),
         Needs(f) /\ Needs(f)' => SettledKept(f)
  PROVE  Rel(f)'
<1>1. /\ Needs(f) => Settled(f)
      /\ \A b \in Old(f) : \A c :
           mem[b].jump = c => /\ <<f, c>> \in given
                              /\ c \in Old(f) \/ NewestFor(f, c)
      /\ \A t \in Threads :
           Recompiles(t, f) /\ th[t].pc = "relink" => th[t].at[2] = emitted[f]
  BY DEF Rel
<1>2. \A t \in Threads :
        /\ Recompiles(t, f)' <=> Recompiles(t, f)
        /\ Recompiles(t, f) => /\ Late(t)' <=> Late(t)
                               /\ OldCode(t)' = OldCode(t)
                               /\ th'[t].at = th[t].at
                               /\ th'[t].pc = "relink" <=> th[t].pc = "relink"
  BY DEF RecompilingKept, Late, OldCode
<1>3. Recompiled(f)' <=> Recompiled(f)
  BY <1>2 DEF Recompiled, Recompiles
<1>4. Needs(f)' => Needs(f)
  <2>1. Old(f)' = {} \/ Old(f)' = Old(f) BY DEF OldKept
  <2> QED BY <1>2, <1>3, <2>1 DEF Needs
<1>5. Needs(f)' => Settled(f)' /\ emitted'[f] = emitted[f]
  BY <1>1, <1>4 DEF SettledKept
<1>6. ASSUME NEW b \in Old(f)', NEW j, mem'[b].jump = j
      PROVE  <<f, j>> \in given' /\ (j \in Old(f)' \/ NewestFor(f, j)')
  <2>1. /\ Old(f)' = Old(f) /\ b \in Old(f) /\ mem[b].jump = j
        /\ \A c : <<f, c>> \in given => <<f, c>> \in given'
    BY <1>6 DEF OldKept
  <2>2. <<f, j>> \in given' /\ (j \in Old(f)' \/ NewestFor(f, j))
    BY <1>1, <2>1
  <2>3. CASE j = emitted[f] /\ ~Recompiled(f)
    <3>1. Needs(f)' BY <1>3, <1>6, <2>3 DEF Needs
    <3>2. emitted'[f] = j BY <1>5, <2>3, <3>1
    <3>3. NewestFor(f, j)' BY <1>3, <2>3, <3>2 DEF NewestFor
    <3> QED BY <2>2, <3>3
  <2>4. CASE \E t \in Threads : Recompiles(t, f) /\ j = OldCode(t)
    <3>1. PICK t \in Threads : Recompiles(t, f) /\ j = OldCode(t) BY <2>4
    <3>2. Recompiles(t, f)' /\ j = OldCode(t)' BY <1>2, <3>1
    <3>3. NewestFor(f, j)' BY <3>2 DEF NewestFor
    <3> QED BY <2>2, <3>3
  <2> QED BY <2>2, <2>3, <2>4 DEF NewestFor
<1>7. ASSUME NEW t \in Threads, Recompiles(t, f)', th'[t].pc = "relink"
      PROVE  th'[t].at[2] = emitted'[f]
  <2>1. Recompiles(t, f) /\ th[t].pc = "relink" /\ th'[t].at = th[t].at
    BY <1>2, <1>7
  <2>2. Needs(f)' BY <1>7 DEF Needs, Late
  <2> QED BY <1>1, <1>5, <2>1, <2>2
<1> QED BY <1>5, <1>6, <1>7 DEF Rel

(* Most steps overwrite no body and give no address of one that has been.    *)
BodiesKept ==
  /\ \A b \in Memory : /\ OldBody(b)' <=> OldBody(b)
                       /\ OldBody(b) => mem'[b].jump = mem[b].jump
  /\ \/ given' = given
     \/ \E p : /\ given' = given \cup {p}
               /\ p[2] \in Memory => ~OldBody(p[2])
LEMMA BodiesFacts ==
  ASSUME BodiesKept, NEW f
  PROVE  OldKept(f)
<1>1. \A c : <<f, c>> \in given => <<f, c>> \in given' BY DEF BodiesKept
<1>2. ASSUME NEW b \in Memory, <<f, b>> \in given', OldBody(b)
      PROVE  <<f, b>> \in given
  BY <1>2 DEF BodiesKept
<1>3. Old(f)' = Old(f) BY <1>1, <1>2 DEF BodiesKept, Old
<1>4. \A b \in Old(f) : mem'[b].jump = mem[b].jump BY DEF BodiesKept, Old
<1> QED BY <1>1, <1>3, <1>4 DEF OldKept

(* ...and the call of the thread stays the same but for where it is.         *)
ThreadKept(t) ==
  /\ \A u \in Threads \ {t} : th'[u] = th[u]
  /\ \/ th[t].op # "recompile" /\ th'[t].op # "recompile"
     \/ /\ th'[t].op = th[t].op /\ th'[t].f = th[t].f /\ th'[t].at = th[t].at
        /\ ~Late(t) /\ ~Late(t)'
LEMMA ThreadFacts ==
  ASSUME NEW t \in Threads, ThreadKept(t), NEW f
  PROVE  RecompilingKept(f)
<1>1. ASSUME NEW u \in Threads
      PROVE  /\ Recompiles(u, f)' <=> Recompiles(u, f)
             /\ Recompiles(u, f) =>
                  /\ th'[u].at = th[u].at
                  /\ th'[u].pc = th[u].pc \/ (~Late(u) /\ ~Late(u)')
  <2>1. CASE u = t BY <2>1 DEF ThreadKept, Recompiles
  <2>2. CASE u # t BY <2>2 DEF ThreadKept, Recompiles
  <2> QED BY <2>1, <2>2
<1> QED BY <1>1 DEF RecompilingKept

LEMMA StepKept ==
  ASSUME Relinked, UNCHANGED program, BodiesKept, NEW t \in Threads, ThreadKept(t),
         \A f \in Globals : SettledKept(f)
  PROVE  Relinked'
<1>1. ASSUME ~FarStubs, NEW f \in Globals PROVE Rel(f)'
  BY <1>1, BodiesFacts, ThreadFacts, RelKept DEF Relinked
<1> QED BY <1>1, ProgramSame DEF Relinked

(* A settled function has code, so it is not external.                       *)
LEMMA SettledFacts ==
  ASSUME AInv, NEW f \in Globals, Settled(f)
  PROVE  /\ f \in alive \ External /\ emitted[f] \in Memory
         /\ Lookup(maps, f) # Null /\ mem[emitted[f]].jump = Null
         /\ mem[emitted[f]].kind = "body" /\ mem[emitted[f]].fn = f
BY DEF Settled, AInv, Tables, Types

LEMMA SettledSame ==
  ASSUME NEW f \in Globals, UNCHANGED <<emitted, maps, pending, job>>
  PROVE  SettledKept(f)
<1>1. Queue' = Queue BY DEF Queue
<1> QED BY <1>1 DEF SettledKept, Settled

(* While the lock is free, what is mapped has not been overwritten.          *)
LEMMA MappedIsNew ==
  ASSUME AInv, LockFree, NEW f \in alive, Lookup(maps, f) \in Memory
  PROVE  ~OldBody(Lookup(maps, f))
<1>1. f \in Globals /\ Null \notin Memory BY ProgramFacts DEF AInv
<1>2. CASE f \in External
  <2>1. Lookup(maps, f) \in {ExternalAddr[f], stubOf[f]} /\ ~Starting
    BY <1>1, <1>2, FreeFacts DEF AInv, Mapped
  <2>2. ExternalAddr[f] \notin Memory BY <1>2, ProgramFacts DEF AInv
  <2>3. Lookup(maps, f) = stubOf[f] BY <2>1, <2>2
  <2>4. mem[stubOf[f]].kind = "stub" BY <1>1, <2>3 DEF AInv, Tables
  <2> QED BY <2>3, <2>4 DEF OldBody
<1>3. CASE f \notin External
  <2>1. Lookup(maps, f) = emitted[f] BY <1>1, <1>3, FreeFacts
  <2>2. mem[emitted[f]].jump = Null BY <1>1, <2>1 DEF AInv, Tables
  <2> QED BY <2>1, <2>2 DEF OldBody
<1> QED BY <1>2, <1>3

(* A step that keeps the bodies, and either returns code that has not been   *)
(* overwritten or goes on with the call.                                     *)
SameBodies == \A b \in Memory : /\ OldBody(b)' <=> OldBody(b)
                                /\ OldBody(b) => mem'[b].jump = mem[b].jump
LEMMA SameMem ==
  ASSUME mem' = mem
  PROVE  SameBodies
BY DEF SameBodies, OldBody

LEMMA ReturnKept ==
  ASSUME AInv, SameBodies, NEW t \in Threads, NEW a \in Locations, Return(t, a),
         th[t].pc # "idle", th[t].pc # "patch", th[t].op # "recompile",
         a \in Memory => ~OldBody(a)
  PROVE  BodiesKept /\ ThreadKept(t)
<1>1. /\ th[t].f \in Globals /\ th[t].op # "none"
      /\ th[t].op = "stub" => th[t].at \in Locations
  BY CallFacts DEF InCall, GetCall, StubCall, RecompileCall
<1>2. /\ \A u \in Threads \ {t} : th'[u] = th[u]
      /\ th[t].op = "stub" => th'[t].op = "stub" /\ given' = given
      /\ th[t].op # "stub" => /\ th'[t] = Idle
                              /\ given' = given \cup {<<th[t].f, a>>}
  BY <1>1, ReturnStep DEF AInv
<1>3. ThreadKept(t) BY <1>2, IdleFields DEF ThreadKept
<1>4. CASE th[t].op = "stub" BY <1>2, <1>3, <1>4 DEF BodiesKept, SameBodies
<1>5. CASE th[t].op # "stub"
  <2> DEFINE p == <<th[t].f, a>>
  <2>1. given' = given \cup {p} /\ (p[2] \in Memory => ~OldBody(p[2]))
    BY <1>2, <1>5
  <2> HIDE DEF p
  <2> QED BY <1>3, <2>1 DEF BodiesKept, SameBodies
<1> QED BY <1>4, <1>5

LEMMA GotoKept ==
  ASSUME AInv, SameBodies, NEW t \in Threads,
         NEW pc \in {"lock", "start", "emit", "recompile"}, Goto(t, pc),
         given' = given, ~Late(t)
  PROVE  BodiesKept /\ ThreadKept(t)
<1>1. /\ \A u \in Threads \ {t} : th'[u] = th[u]
      /\ th'[t].pc = pc /\ th'[t].op = th[t].op
      /\ th'[t].f = th[t].f /\ th'[t].at = th[t].at
  BY GotoStep DEF AInv
<1>2. ThreadKept(t) BY <1>1 DEF ThreadKept, Late
<1> QED BY <1>2 DEF BodiesKept, SameBodies

LEMMA OpFacts ==
  ASSUME AInv, NEW t \in Threads, th[t].pc \in {"check", "lock", "patch", "orstub"}
  PROVE  /\ InCall(t) /\ th[t].f \in alive /\ th[t].f \in Globals
         /\ th[t].op # "recompile" /\ ~Late(t)
<1>1. InCall(t) /\ th[t].f \in alive /\ th[t].f \in Globals BY CallFacts
<1> QED BY <1>1 DEF InCall, GetCall, StubCall, RecompileCall, Late

LEMMA CheckMapRelinked ==
  ASSUME AInv, UNCHANGED program, Relinked, NEW t \in Threads, CheckMap(t)
  PROVE  Relinked'
<1>1. /\ th[t].pc = "check" /\ LockFree
      /\ UNCHANGED <<maps, alive, code, lock, job, used>>
  BY DEF CheckMap
<1>2. /\ th[t].f \in alive /\ th[t].f \in Globals
      /\ th[t].op # "recompile" /\ ~Late(t)
  BY <1>1, OpFacts
<1>3. SameBodies BY <1>1, SameMem DEF code
<1>4. BodiesKept /\ ThreadKept(t)
  <2>1. CASE Lookup(maps, th[t].f) # Null
    <3> DEFINE a == Lookup(maps, th[t].f)
    <3>1. Return(t, a) BY <2>1 DEF CheckMap
    <3>2. a \in Locations BY <1>2, LookupType DEF AInv, Types
    <3>3. a \in Memory => ~OldBody(a) BY <1>1, <1>2, MappedIsNew
    <3> HIDE DEF a
    <3> QED BY <1>1, <1>2, <1>3, <3>1, <3>2, <3>3, ReturnKept
  <2>2. CASE Lookup(maps, th[t].f) = Null
    <3>1. Goto(t, "lock") /\ given' = given BY <2>2 DEF CheckMap
    <3> QED BY <1>2, <1>3, <3>1, GotoKept
  <2> QED BY <2>1, <2>2
<1>5. \A f \in Globals : SettledKept(f) BY <1>1, SettledSame DEF code
<1> QED BY <1>4, <1>5, StepKept

(* The mapping of another function changes.                                  *)
LEMMA SettledApart ==
  ASSUME NEW f \in Globals, UNCHANGED emitted,
         NEW g, Settled(f) => g # f,
         Lookup(maps', f) = Lookup(maps, f) \/ g = f,
         Queue' \subseteq Queue \cup {g}, job'.f = job.f \/ job'.f \in Queue \cup {g, None},
         None \notin Globals
  PROVE  SettledKept(f)
BY DEF SettledKept, Settled

LEMMA LockAndCheckRelinked ==
  ASSUME AInv, UNCHANGED program, Relinked, ExternalsDiffer,
         NEW t \in Threads, LockAndCheck(t)
  PROVE  Relinked'
<1>1. /\ th[t].pc = "lock" /\ LockFree
      /\ UNCHANGED <<alive, code, used>>
  BY DEF LockAndCheck
<1>2. /\ th[t].f \in alive /\ th[t].f \in Globals /\ None \notin Globals
      /\ th[t].op # "recompile" /\ ~Late(t)
  BY <1>1, OpFacts, ProgramFacts DEF AInv
<1>3. SameBodies /\ Queue' = Queue BY <1>1, SameMem DEF code, Queue
<1>4. CASE Lookup(maps, th[t].f) # Null
  <2> DEFINE a == Lookup(maps, th[t].f)
  <2>1. Return(t, a) /\ UNCHANGED <<maps, lock, job>> BY <1>4 DEF LockAndCheck
  <2>2. a \in Locations BY <1>2, LookupType DEF AInv, Types
  <2>3. a \in Memory => ~OldBody(a) BY <1>1, <1>2, MappedIsNew
  <2> HIDE DEF a
  <2>4. BodiesKept /\ ThreadKept(t)
    BY <1>1, <1>2, <1>3, <2>1, <2>2, <2>3, ReturnKept
  <2>5. \A f \in Globals : SettledKept(f)
    BY <1>1, <2>1, SettledSame DEF code
  <2> QED BY <2>4, <2>5, StepKept
<1>5. CASE Lookup(maps, th[t].f) = Null /\ th[t].f \in External
  <2> DEFINE a == ExternalAddr[th[t].f]
  <2>1. /\ Return(t, a) /\ UNCHANGED <<lock, job>>
        /\ maps' = addGlobalMapping(maps, th[t].f, a)
    BY <1>5 DEF LockAndCheck
  <2>2. a \in Locations /\ a \notin Memory BY <1>5, ProgramFacts DEF AInv
  <2>3. maps' = Resolve(th[t].f) BY <1>5, <2>1 DEF Resolve
  <2> HIDE DEF a
  <2>4. BodiesKept /\ ThreadKept(t)
    BY <1>1, <1>2, <1>3, <2>1, <2>2, ReturnKept
  <2>5. \A h \in Globals \ {th[t].f} : Lookup(maps', h) = Lookup(maps, h)
    BY <1>5, <2>3, ResolveFacts DEF AInv
  <2>6. \A f \in Globals : SettledKept(f)
    BY <1>1, <1>2, <1>3, <1>5, <2>1, <2>5, SettledFacts, SettledApart DEF code
  <2> QED BY <2>4, <2>6, StepKept
<1>6. CASE Lookup(maps, th[t].f) = Null /\ th[t].f \notin External
  <2>1. /\ job' = Job(th[t].f, FALSE) /\ Goto(t, "start")
        /\ given' = given /\ maps' = maps
    BY <1>6 DEF LockAndCheck
  <2>2. BodiesKept /\ ThreadKept(t) BY <1>2, <1>3, <2>1, GotoKept
  <2>3. job'.f = th[t].f BY <2>1 DEF Job, NoJob
  <2>4. \A f \in Globals : SettledKept(f)
    BY <1>1, <1>2, <1>3, <1>6, <2>1, <2>3, SettledFacts, SettledApart DEF code
  <2> QED BY <2>2, <2>4, StepKept
<1> QED BY <1>4, <1>5, <1>6

(* A function whose code is begun, begun again or called is not settled.     *)
LEMMA StartFunctionRelinked ==
  ASSUME AInv, UNCHANGED program, Relinked, NEW t \in Threads, StartFunction(t)
  PROVE  Relinked'
<1>1. th[t].pc = "start" /\ Goto(t, "emit") /\ ~Late(t)
  BY DEF StartFunction, Late
<1>2. PICK a \in Memory : BodyStarted(job.f, a) BY StartFacts
<1>3. SameBodies /\ given' = given
  BY <1>2 DEF SameBodies, OldBody, BodyStarted, NoCode
<1>4. BodiesKept /\ ThreadKept(t) BY <1>1, <1>3, GotoKept
<1>5. Queue' = Queue BY <1>2 DEF BodyStarted, Queue
<1>6. \A f \in Globals : SettledKept(f)
  BY <1>2, <1>5 DEF BodyStarted, SettledKept, Settled
<1> QED BY <1>4, <1>6, StepKept

LEMMA RetryRelinked ==
  ASSUME AInv, UNCHANGED program, Relinked, NEW t \in Threads, Retry(t)
  PROVE  Relinked'
<1>1. /\ th[t].pc = "emit" /\ Goto(t, "start") /\ ~Late(t)
      /\ UNCHANGED <<maps, pending, job, given>>
  BY DEF Retry, Late
<1>2. /\ emitted[job.f] # Null /\ job.f \in Globals
      /\ mem[emitted[job.f]].jump = Null
  BY <1>1, JobFacts DEF AInv, Session, Tables
<1>3. \A f \in Globals : f # job.f => emitted'[f] = emitted[f]
  BY DEF Retry, AInv, Types
<1>4. emitted[job.f] \in Memory BY <1>2 DEF AInv, Types
<1>5. SameBodies
  BY <1>2, <1>4 DEF SameBodies, OldBody, Retry, Code, AInv, Types
<1>6. BodiesKept /\ ThreadKept(t) BY <1>1, <1>5, GotoKept
<1>7. Queue' = Queue BY <1>1 DEF Queue
<1>8. \A f \in Globals : SettledKept(f)
  BY <1>1, <1>3, <1>7 DEF SettledKept, Settled
<1> QED BY <1>6, <1>8, StepKept

LEMMA EmitDirectCallRelinked ==
  ASSUME AInv, UNCHANGED program, Relinked, ExternalsDiffer,
         NEW t \in Threads, NEW g \in Globals, EmitDirectCall(t, g)
  PROVE  Relinked'
<1>1. /\ th[t].pc = "emit" /\ g \in job.todo
      /\ UNCHANGED <<alive, code, lock, th, given, used>>
  BY DEF EmitDirectCall
<1>2. SameBodies /\ Queue' = Queue BY <1>1, SameMem DEF code, Queue
<1>3. BodiesKept /\ ThreadKept(t)
  BY <1>1, <1>2 DEF BodiesKept, SameBodies, ThreadKept, Late
<1>4. job'.f = job.f
  BY <1>1 DEF EmitDirectCall, Relocate, AInv, Types, JobType
<1>5. maps' = maps \/ (g \in External /\ maps' = Resolve(g))
  BY DEF EmitDirectCall
<1>6. \A h \in Globals \ {g} : Lookup(maps', h) = Lookup(maps, h)
  BY <1>5, ResolveFacts DEF AInv
<1>7. None \notin Globals BY ProgramFacts DEF AInv
<1>8. \A f \in Globals : SettledKept(f)
  <2>1. CASE maps' = maps
    BY <1>1, <1>2, <1>4, <2>1 DEF code, SettledKept, Settled
  <2>2. CASE g \in External
    BY <1>1, <1>2, <1>4, <1>6, <1>7, <2>2, SettledFacts, SettledApart DEF code
  <2> QED BY <1>5, <2>1, <2>2
<1> QED BY <1>3, <1>8, StepKept

LEMMA StubBodies ==
  ASSUME AInv, NEW g, NEW s \in Memory, StubEmitted(g, s)
  PROVE  SameBodies /\ ~OldBody(s) /\ emitted' = emitted
<1>1. ~OldBody(s) /\ ~OldBody(s)' BY DEF StubEmitted, OldBody, NoCode
<1> QED BY <1>1 DEF StubEmitted, SameBodies, OldBody

LEMMA EmitStubCallRelinked ==
  ASSUME AInv, UNCHANGED program, Relinked, ExternalsDiffer,
         NEW t \in Threads, NEW g \in Globals, EmitStubCall(t, g)
  PROVE  Relinked'
<1> SUFFICES ASSUME ~FarStubs PROVE Relinked'
  BY ProgramSame DEF Relinked
<1>1. PICK s \in Memory : getLazyFunctionStub(g, s) /\ Relocate(g, s)
  BY DEF EmitStubCall
<1>2. /\ th[t].pc = "emit" /\ g \in job.todo
      /\ UNCHANGED <<alive, lock, th, given, used>>
      /\ Lookup(maps, g) = Null /\ g \notin External
  BY DEF EmitStubCall
<1>3. /\ lock = t /\ t # NoThread /\ ~Starting /\ job.f \in alive
      /\ job.f \in Globals
  BY <1>2, JobFacts
<1>4. /\ g \in alive /\ job \in JobType /\ pending \in Seq(Globals)
      /\ s \in Locations /\ None \notin Globals
  BY <1>2, <1>3, ProgramFacts DEF AInv, Session, Tables, Types
<1>5. StubEmitted(g, s)
  BY <1>1, <1>3, <1>4, EmitStubFacts DEF AInv, getLazyFunctionStub
<1>6. job'.f = job.f BY <1>1, <1>2, <1>4, RelocateFacts
<1>7. Queue' \subseteq Queue \cup {g}
  <2>1. CASE pending' = pending BY <2>1 DEF Queue
  <2>2. CASE pending' = Append(pending, g) BY <1>4, <2>2, QueueAppend
  <2> QED BY <1>1, <2>1, <2>2 DEF getLazyFunctionStub
<1>8. SameBodies /\ emitted' = emitted BY <1>5, StubBodies
<1>9. BodiesKept /\ ThreadKept(t)
  BY <1>2, <1>8 DEF BodiesKept, SameBodies, ThreadKept, Late
<1>10. \A h \in Globals \ {g} : Lookup(maps', h) = Lookup(maps, h)
  BY <1>5 DEF StubEmitted
<1>11. \A f \in Globals : SettledKept(f)
  BY <1>2, <1>4, <1>6, <1>7, <1>8, <1>10, SettledFacts, SettledApart
<1> QED BY <1>9, <1>11, StepKept

LEMMA GetStubRelinked ==
  ASSUME AInv, UNCHANGED program, Relinked, ExternalsDiffer,
         NEW t \in Threads, GetStub(t)
  PROVE  Relinked'
<1>1. /\ th[t].pc = "orstub" /\ LockFree /\ InCall(t)
      /\ UNCHANGED <<alive, lock, job, used>>
  BY CallFacts DEF GetStub
<1>2. PICK g \in alive : g = th[t].f BY <1>1 DEF InCall
<1>3. th[t].op = "get" /\ Lazily
  BY <1>1 DEF InCall, GetCall, StubCall, RecompileCall
<1>4. /\ g \in Globals /\ Null \in Locations /\ ~Starting
      /\ Memory \subseteq Locations /\ Null \notin Memory /\ None \notin Globals
      /\ Resolver \notin Locations
  BY <1>1, FreeFacts, ProgramFacts DEF AInv
<1>5. CASE /\ g \in External /\ maps' = Resolve(g)
           /\ Return(t, Null) /\ UNCHANGED code
  <2>1. SameBodies /\ Queue' = Queue BY <1>5, SameMem DEF code, Queue
  <2>2. BodiesKept /\ ThreadKept(t)
    BY <1>1, <1>3, <1>4, <1>5, <2>1, ReturnKept
  <2>3. \A h \in Globals \ {g} : Lookup(maps', h) = Lookup(maps, h)
    BY <1>5, ResolveFacts DEF AInv
  <2>4. \A f \in Globals : SettledKept(f)
    BY <1>1, <1>4, <1>5, <2>1, <2>3, SettledFacts, SettledApart DEF code
  <2> QED BY <2>2, <2>4, StepKept
<1>6. ASSUME NEW s \in Memory, Return(t, s), stubOf[g] = s,
             UNCHANGED <<maps, code>>
      PROVE  Relinked'
  <2>1. SameBodies BY <1>6, SameMem DEF code
  <2>2. ~OldBody(s) BY <1>4, <1>6 DEF AInv, Tables, OldBody
  <2>3. BodiesKept /\ ThreadKept(t)
    BY <1>1, <1>3, <1>4, <1>6, <2>1, <2>2, ReturnKept
  <2>4. \A f \in Globals : SettledKept(f)
    BY <1>1, <1>6, SettledSame DEF code
  <2> QED BY <2>3, <2>4, StepKept
<1>7. ASSUME NEW s \in Memory, Return(t, s), getLazyFunctionStub(g, s)
      PROVE  Relinked'
  <2>1. StubEmitted(g, s)
    BY <1>2, <1>4, <1>7, EmitStubFacts DEF AInv, getLazyFunctionStub
  <2>2. SameBodies /\ ~OldBody(s) /\ emitted' = emitted BY <2>1, StubBodies
  <2>3. BodiesKept /\ ThreadKept(t)
    BY <1>1, <1>3, <1>4, <1>7, <2>2, ReturnKept
  <2>4. Queue' = Queue BY <1>3, <1>7 DEF getLazyFunctionStub, Queue
  <2>5. \A h \in Globals : \/ h = g /\ h \in External
                           \/ Lookup(maps', h) = Lookup(maps, h)
    BY <1>3, <2>1 DEF StubEmitted, StubJump
  <2>6. ASSUME NEW f \in Globals PROVE SettledKept(f)
    <3> SUFFICES ASSUME Settled(f) PROVE Settled(f)' BY <2>2 DEF SettledKept
    <3>1. f \notin External BY SettledFacts
    <3>2. Lookup(maps', f) = Lookup(maps, f) BY <2>5, <3>1
    <3> QED BY <1>1, <2>2, <2>4, <3>2 DEF Settled
  <2> QED BY <2>3, <2>6, StepKept
<1> QED BY <1>2, <1>5, <1>6, <1>7 DEF GetStub

LEMMA PatchRelinked ==
  ASSUME AInv, UNCHANGED program, Relinked, NEW t \in Threads, Patch(t)
  PROVE  Relinked'
<1> DEFINE s == th[t].at[1]
           a == th[t].at[2]
<1>1. /\ th[t].pc = "patch" /\ Rewritten(s, a) /\ th' = [th EXCEPT ![t] = Idle]
      /\ UNCHANGED <<maps, alive, emitted, stubOf, callSites, pending, lock, job,
                     given, used>>
  BY DEF Patch, Rewritten
<1>2. InCall(t) /\ th[t].f \in Globals /\ th[t].op # "recompile" /\ ~Late(t)
  BY <1>1, OpFacts
<1>3. s = stubOf[th[t].f] /\ s # Null
  BY <1>1, <1>2 DEF InCall, GetCall, StubCall, RecompileCall
<1>4. s \in Memory /\ mem[s].kind = "stub"
  BY <1>2, <1>3 DEF AInv, Types, Tables
<1>5. a \in Memory
  <2>1. a \in Held(t) BY <1>1, <1>2 DEF Held
  <2> QED BY <1>2, <2>1 DEF InCall, Holding
<1> HIDE DEF s, a
<1>6. a \in Locations BY <1>5, ProgramFacts DEF AInv
<1>7. SameBodies
  BY <1>1, <1>4, <1>6, JumpFacts DEF AInv, Types, SameBodies, OldBody
<1>8. th'[t] = Idle /\ \A u \in Threads \ {t} : th'[u] = th[u]
  BY <1>1 DEF AInv, Types
<1>9. BodiesKept /\ ThreadKept(t)
  BY <1>1, <1>2, <1>7, <1>8, IdleFields DEF BodiesKept, SameBodies, ThreadKept
<1>10. \A f \in Globals : SettledKept(f) BY <1>1, SettledSame
<1> QED BY <1>9, <1>10, StepKept

LEMMA CallsRelinked ==
  ASSUME AInv, UNCHANGED program, Relinked, NEW t \in Threads, NEW f \in Globals,
         \/ getPointerToFunction(t, f) \/ getPointerToFunctionOrStub(t, f)
         \/ \E s \in Memory : CallStub(t, s)
  PROVE  Relinked'
<1>1. /\ th[t] = Idle /\ UNCHANGED <<maps, mem, emitted, pending, job>>
      /\ \/ th' = th
         \/ \E c : c.op # "recompile" /\ th' = [th EXCEPT ![t] = c]
      /\ \/ given' = given
         \/ /\ LockFree /\ f \in alive
            /\ given' = given \cup {<<f, Lookup(maps, f)>>}
  BY DEF getPointerToFunction, getPointerToFunctionOrStub, CallStub, code
<1>2. ThreadKept(t)
  <2>1. /\ \A u \in Threads \ {t} : th'[u] = th[u]
        /\ th'[t].op # "recompile"
    BY <1>1, IdleFields DEF AInv, Types
  <2> QED BY <1>1, <2>1, IdleFields DEF ThreadKept
<1>3. BodiesKept
  <2>1. SameBodies BY <1>1, SameMem
  <2>2. CASE given' = given BY <2>1, <2>2 DEF BodiesKept, SameBodies
  <2>3. CASE given' # given
    <3> DEFINE p == <<f, Lookup(maps, f)>>
    <3>1. given' = given \cup {p} /\ (p[2] \in Memory => ~OldBody(p[2]))
      BY <1>1, <2>3, MappedIsNew
    <3> HIDE DEF p
    <3> QED BY <2>1, <3>1 DEF BodiesKept, SameBodies
  <2> QED BY <2>2, <2>3
<1>4. \A h \in Globals : SettledKept(h) BY <1>1, SettledSame
<1> QED BY <1>2, <1>3, <1>4, StepKept

(* The reverse map is computed. *)
LEMMA AskRelinked ==
  ASSUME AInv, UNCHANGED program, Relinked, Ask
  PROVE  Relinked'
<1>1. /\ UNCHANGED <<mem, emitted, pending, job, th, given>>
      /\ maps' = ComputeReverse(maps)
  BY DEF Ask, code
<1>2. \A f : Lookup(maps', f) = Lookup(maps, f)
  BY <1>1, ComputeMaps DEF Lookup, AInv, Types
<1>3. Queue' = Queue BY <1>1 DEF Queue
<1>4. BodiesKept BY <1>1, SameMem DEF BodiesKept, SameBodies
<1>5. ASSUME ~FarStubs, NEW f \in Globals PROVE Rel(f)'
  <2>1. SettledKept(f) BY <1>1, <1>2, <1>3 DEF SettledKept, Settled
  <2>2. RecompilingKept(f) BY <1>1 DEF RecompilingKept, Recompiles, Late
  <2> QED BY <1>4, <1>5, <2>1, <2>2, BodiesFacts, RelKept DEF Relinked
<1> QED BY <1>5, ProgramSame DEF Relinked

(* The step of a recompilation: of other functions than its own everything   *)
(* that matters stays.                                                       *)
LEMMA OwnStep ==
  ASSUME Relinked, UNCHANGED program, NEW t \in Threads, NEW g \in Globals,
         \A u \in Threads \ {t} : th'[u] = th[u],
         \A f \in Globals \ {g} :
           /\ ~Recompiles(t, f) /\ ~Recompiles(t, f)'
           /\ OldKept(f) /\ SettledKept(f),
         ~FarStubs /\ Rel(g) => Rel(g)'
  PROVE  Relinked'
<1>1. ASSUME ~FarStubs, NEW f \in Globals, f # g PROVE Rel(f)'
  <2>1. ASSUME NEW u \in Threads
        PROVE  /\ Recompiles(u, f)' <=> Recompiles(u, f)
               /\ Recompiles(u, f) =>
                    /\ th'[u].at = th[u].at
                    /\ th'[u].pc = th[u].pc \/ (~Late(u) /\ ~Late(u)')
    BY <1>1 DEF Recompiles
  <2>2. RecompilingKept(f) BY <2>1 DEF RecompilingKept
  <2> QED BY <1>1, <2>2, RelKept DEF Relinked
<1>2. ASSUME ~FarStubs PROVE Rel(g)' BY <1>2 DEF Relinked
<1> QED BY <1>1, <1>2, ProgramSame DEF Relinked

(* The recompilation that a thread is in is the only one of its function.    *)
LEMMA OwnFacts ==
  ASSUME AInv, NEW t \in Threads,
         th[t].pc \in {"unmap", "recompile", "find", "relink"}
  PROVE  /\ InCall(t) /\ RecompileCall(t) /\ th[t].op = "recompile"
         /\ th[t].f \in alive \ External /\ th[t].f \in Globals
         /\ \A u \in Threads : Recompiles(u, th[t].f) => u = t
         /\ \A f : Recompiles(t, f) <=> f = th[t].f
         /\ Recompiled(th[t].f)
<1>1. InCall(t) /\ th[t].f \in alive /\ th[t].f \in Globals BY CallFacts
<1>2. RecompileCall(t) BY <1>1 DEF InCall, GetCall, StubCall, RecompileCall
<1>3. th[t].op = "recompile" /\ th[t].f \notin External
  BY <1>2 DEF RecompileCall
<1>4. \A u \in Threads : Recompiles(u, th[t].f) => u = t
  BY <1>3 DEF AInv, Threading, Recompiles
<1>5. \A f : Recompiles(t, f) <=> f = th[t].f BY <1>3 DEF Recompiles
<1> QED BY <1>1, <1>2, <1>3, <1>4, <1>5 DEF Recompiled

(* Before the new code is there nothing is asked of the function.            *)
LEMMA BeginRelinked ==
  ASSUME AInv, UNCHANGED program, Relinked, NEW t \in Threads,
         DeleteMapping(t) \/ runJITOnFunction(t)
  PROVE  Relinked'
<1>1. /\ th[t].pc \in {"unmap", "recompile"} /\ ~Late(t)
      /\ UNCHANGED <<code, given>>
      /\ Goto(t, "recompile") \/ Goto(t, "start")
  BY DEF DeleteMapping, runJITOnFunction, Late
<1>2. PICK g \in Globals : g = th[t].f BY <1>1, OwnFacts
<1>3. SameBodies /\ Queue' = Queue BY <1>1, SameMem DEF code, Queue
<1>4. BodiesKept /\ ThreadKept(t) BY <1>1, <1>3, GotoKept
<1>5. ~Needs(g)
  BY <1>1, <1>2, OwnFacts DEF Needs, Late
<1>6. /\ \A h \in Globals \ {g} : Lookup(maps', h) = Lookup(maps, h)
      /\ job'.f = job.f \/ job'.f = g
  <2>1. CASE DeleteMapping(t)
    <3>1. maps' = addGlobalMapping(maps, g, Null) /\ job' = job
      BY <1>2, <2>1 DEF DeleteMapping
    <3>2. maps.fwd \in [Globals -> Locations \cup {Absent}]
      BY DEF AInv, Types, MapsType
    <3>3. maps'.fwd = [maps.fwd EXCEPT ![g] = Null]
      <4>1. Null \in Locations BY ProgramFacts DEF AInv
      <4>2. Enter(maps, g, Null).fwd = [maps.fwd EXCEPT ![g] = Null]
        BY <4>1, EnterMaps DEF AInv, Types
      <4> QED BY <3>1, <4>2 DEF addGlobalMapping
    <3> QED BY <3>1, <3>2, <3>3 DEF Lookup
  <2>2. CASE runJITOnFunction(t)
    BY <1>2, <2>2 DEF runJITOnFunction, Job, NoJob
  <2> QED BY <2>1, <2>2
<1>7. \A f \in Globals \ {g} : SettledKept(f)
  BY <1>1, <1>3, <1>6 DEF code, SettledKept, Settled
<1>8. ASSUME ~FarStubs, NEW f \in Globals PROVE Rel(f)'
  BY <1>4, <1>5, <1>7, <1>8, BodiesFacts, ThreadFacts, RelKept DEF Relinked
<1> QED BY <1>8, ProgramSame DEF Relinked

(* What is going to be replaced is the newest code. *)
LEMMA RecompileRelinked ==
  ASSUME AInv, UNCHANGED program, Relinked, NEW t \in Threads, NEW g \in Globals,
         recompileAndRelinkFunction(t, g)
  PROVE  Relinked'
<1> DEFINE o == Lookup(maps, g)
<1>1. /\ th[t] = Idle /\ LockFree /\ g \in alive \ External /\ o # Null
      /\ ~Recompiled(g) /\ UNCHANGED <<maps, alive, code, lock, job, given>>
      /\ th' = [th EXCEPT ![t] = [pc |-> "unmap", op |-> "recompile", f |-> g,
                                  at |-> o]]
  BY DEF recompileAndRelinkFunction
<1>2. o = emitted[g] BY <1>1, FreeFacts
<1> HIDE DEF o
<1>3. /\ th'[t].pc = "unmap" /\ th'[t].op = "recompile" /\ th'[t].f = g
      /\ th'[t].at = o
      /\ \A u \in Threads \ {t} : th'[u] = th[u]
  BY <1>1 DEF AInv, Types
<1>4. \A f \in Globals : ~Recompiles(t, f) /\ (Recompiles(t, f)' <=> f = g)
  BY <1>1, <1>3, IdleFields DEF Recompiles
<1>5. BodiesKept BY <1>1, SameMem DEF code, BodiesKept, SameBodies
<1>6. \A f \in Globals : OldKept(f) /\ SettledKept(f)
  BY <1>1, <1>5, BodiesFacts, SettledSame DEF code
<1>7. ASSUME Rel(g) PROVE Rel(g)'
  <2>1. /\ \A u \in Threads : ~Recompiles(u, g)
        /\ \A u \in Threads : Recompiles(u, g)' <=> u = t
    BY <1>1, <1>3, <1>4 DEF Recompiled, Recompiles
  <2>2. /\ Recompiled(g)' /\ ~Needs(g)' /\ OldCode(t)' = o
    BY <1>3, <2>1 DEF Recompiled, Recompiles, Needs, Late, OldCode
  <2>3. ASSUME NEW b \in Old(g)', NEW c, mem'[b].jump = c
        PROVE  <<g, c>> \in given' /\ (c \in Old(g)' \/ NewestFor(g, c)')
    <3>1. /\ Old(g)' = Old(g) /\ b \in Old(g) /\ mem[b].jump = c
          /\ given' = given
      BY <1>1, <1>6, <2>3 DEF OldKept
    <3>2. <<g, c>> \in given' /\ (c \in Old(g)' \/ NewestFor(g, c))
      BY <1>7, <3>1 DEF Rel
    <3>3. NewestFor(g, c) => c = o BY <1>2, <2>1 DEF NewestFor
    <3>4. c = o => NewestFor(g, c)' BY <2>1, <2>2 DEF NewestFor
    <3> QED BY <3>2, <3>3, <3>4
  <2>4. \A u \in Threads : Recompiles(u, g)' => th'[u].pc # "relink"
    BY <1>3, <2>1
  <2> QED BY <2>2, <2>3, <2>4 DEF Rel
<1> QED BY <1>1, <1>3, <1>4, <1>6, <1>7, OwnStep

(* The new code is there and found. *)
LEMMA FindRelinked ==
  ASSUME AInv, UNCHANGED program, Relinked, NEW t \in Threads, FindNewCode(t)
  PROVE  Relinked'
<1> DEFINE o == th[t].at
           a == Lookup(maps, th[t].f)
           c == [th[t] EXCEPT !.pc = "relink", !.at = <<o, a>>]
<1>1. /\ th[t].pc = "find" /\ LockFree /\ th' = [th EXCEPT ![t] = c]
      /\ UNCHANGED <<maps, alive, code, lock, job, given>>
  BY DEF FindNewCode
<1>2. /\ th[t].op = "recompile" /\ th[t].f \in alive \ External
      /\ \A u \in Threads : Recompiles(u, th[t].f) => u = t
      /\ \A f : Recompiles(t, f) <=> f = th[t].f
      /\ Recompiled(th[t].f) /\ a # Null
  BY <1>1, OwnFacts DEF RecompileCall
<1>3. PICK g \in Globals : g = th[t].f BY <1>1, OwnFacts
<1>4. a = emitted[g] BY <1>1, <1>2, <1>3, FreeFacts
<1>5. /\ c.pc = "relink" /\ c.op = "recompile" /\ c.f = g /\ c.at = <<o, a>>
  BY <1>2, <1>3 DEF AInv, Types, CallType
<1> HIDE DEF c, a
<1>6. th'[t] = c /\ \A u \in Threads \ {t} : th'[u] = th[u]
  BY <1>1 DEF AInv, Types
<1>7. BodiesKept BY <1>1, SameMem DEF code, BodiesKept, SameBodies
<1>8. \A f \in Globals : OldKept(f) /\ SettledKept(f)
  BY <1>1, <1>7, BodiesFacts, SettledSame DEF code
<1>9. \A f \in Globals \ {g} : ~Recompiles(t, f) /\ ~Recompiles(t, f)'
  BY <1>2, <1>3, <1>5, <1>6 DEF Recompiles
<1>10. ASSUME Rel(g) PROVE Rel(g)'
  <2>1. \A u \in Threads : /\ Recompiles(u, g) <=> u = t
                           /\ Recompiles(u, g)' <=> u = t
    BY <1>2, <1>3, <1>5, <1>6 DEF Recompiles
  <2>2. OldCode(t)' = o /\ OldCode(t) = o
    BY <1>1, <1>5, <1>6 DEF OldCode
  <2>3. Needs(g) /\ Recompiled(g)'
    BY <1>1, <2>1 DEF Needs, Late, Recompiled, Recompiles
  <2>4. Settled(g) /\ Settled(g)'
    BY <1>8, <1>10, <2>3 DEF Rel, SettledKept
  <2>5. ASSUME NEW b \in Old(g)', NEW j, mem'[b].jump = j
        PROVE  <<g, j>> \in given' /\ (j \in Old(g)' \/ NewestFor(g, j)')
    <3>1. /\ Old(g)' = Old(g) /\ b \in Old(g) /\ mem[b].jump = j
          /\ given' = given
      BY <1>1, <1>8, <2>5 DEF OldKept
    <3>2. <<g, j>> \in given' /\ (j \in Old(g)' \/ NewestFor(g, j))
      BY <1>10, <3>1 DEF Rel
    <3>3. NewestFor(g, j) => j = o
      BY <1>2, <1>3, <2>1, <2>2 DEF NewestFor
    <3>4. j = o => NewestFor(g, j)' BY <2>1, <2>2 DEF NewestFor
    <3> QED BY <3>2, <3>3, <3>4
  <2>6. ASSUME NEW u \in Threads, Recompiles(u, g)'
        PROVE  th'[u].at[2] = emitted'[g]
    <3>1. u = t BY <2>1, <2>6
    <3>2. emitted'[g] = a BY <1>1, <1>4 DEF code
    <3> QED BY <1>5, <1>6, <3>1, <3>2
  <2> QED BY <2>4, <2>5, <2>6 DEF Rel
<1> QED BY <1>6, <1>8, <1>9, <1>10, OwnStep

(* The end of a compilation. When it was a recompilation, its function is    *)
(* settled now.                                                              *)
LEMMA FinishFunctionRelinked ==
  ASSUME AInv, UNCHANGED program, Relinked, NEW t \in Threads, FinishFunction(t)
  PROVE  Relinked'
<1>1. th[t].pc = "emit" /\ ~Late(t) /\ UNCHANGED <<maps, stubOf, emitted>>
  BY DEF FinishFunction, Late
<1>2. /\ lock = t /\ t # NoThread /\ ~Starting /\ job.f \in Globals
      /\ th[t].f \in Globals /\ InCall(t) /\ th[t].op # "none"
      /\ None \notin Globals /\ Null \notin Memory
  BY <1>1, JobFacts, ProgramFacts DEF AInv
<1>3. SameBodies
  <2>1. BodyFinished BY FinishFacts
  <2>2. job.queued => mem[stubOf[job.f]].kind = "stub"
    BY <1>2 DEF AInv, Session, Tables
  <2> QED BY <2>1, <2>2 DEF BodyFinished, SameBodies, OldBody
<1>4. lock' \in {t, NoThread} /\ \A u \in Threads \ {t} : th'[u] = th[u]
  BY NextFacts
<1>5. CASE lock' = t
  <2>1. /\ job'.f \in Queue /\ Queue' \subseteq Queue /\ th'[t].pc = "start"
        /\ th'[t].op = th[t].op /\ th'[t].f = th[t].f /\ th'[t].at = th[t].at
        /\ given' = given
    BY <1>5, NextFacts
  <2>2. BodiesKept /\ ThreadKept(t)
    BY <1>1, <1>3, <1>4, <2>1 DEF BodiesKept, SameBodies, ThreadKept, Late
  <2>3. \A f \in Globals : SettledKept(f)
    BY <1>1, <2>1 DEF SettledKept, Settled
  <2> QED BY <2>2, <2>3, StepKept
<1>6. CASE lock' = NoThread
  <2>1. Queue' = {} /\ job' = NoJob /\ Lookup(maps, th[t].f) = emitted[th[t].f]
    BY <1>6, NextFacts
  <2>2. job'.f = None BY <2>1 DEF NoJob
  <2>3. \A f \in Globals : SettledKept(f)
    BY <1>1, <1>2, <2>1, <2>2 DEF SettledKept, Settled
  <2>4. CASE th[t].op # "recompile"
    <3>1. \/ /\ th'[t].op = "stub" /\ given' = given
          \/ /\ th'[t] = Idle
             /\ given' = given \cup {<<th[t].f, emitted[th[t].f]>>}
      BY <1>6, <2>4, NextFacts
    <3>2. ThreadKept(t) BY <1>4, <2>4, <3>1, IdleFields DEF ThreadKept
    <3>3. BodiesKept
      <4> DEFINE p == <<th[t].f, emitted[th[t].f]>>
      <4>1. p[2] \in Memory => ~OldBody(p[2])
        BY <1>2 DEF AInv, Tables, OldBody
      <4>2. given' = given \/ given' = given \cup {p} BY <3>1
      <4> HIDE DEF p
      <4> QED BY <1>3, <4>1, <4>2 DEF BodiesKept, SameBodies
    <3> QED BY <2>3, <3>2, <3>3, StepKept
  <2>5. CASE th[t].op = "recompile"
    <3>1. PICK g \in Globals : g = th[t].f BY <1>2
    <3>2. /\ th'[t].pc = "find" /\ th'[t].op = "recompile"
          /\ th'[t].f = g /\ th'[t].at = th[t].at /\ given' = given
      BY <1>6, <2>5, <3>1, NextFacts
    <3>3. BodiesKept BY <1>3, <3>2 DEF BodiesKept, SameBodies
    <3>4. \A f \in Globals : OldKept(f) BY <3>3, BodiesFacts
    <3>5. \A u \in Threads, f \in Globals :
            /\ Recompiles(u, f)' <=> Recompiles(u, f)
            /\ Recompiles(t, f) <=> f = g
      BY <1>4, <2>5, <3>1, <3>2 DEF Recompiles
    <3>6. \A u \in Threads : /\ OldCode(u)' = OldCode(u)
                             /\ th'[u].pc = "relink" => th[u].pc = "relink"
                             /\ th'[u].pc = "relink" => th'[u].at = th[u].at
      BY <1>1, <1>4, <3>2 DEF OldCode
    <3>7. Settled(g)'
      <4>1. emitted[g] # Null BY <1>2, <3>1 DEF AInv, Session
      <4> QED BY <1>1, <1>2, <2>1, <2>2, <3>1, <4>1 DEF Settled
    <3>8. Recompiled(g)' /\ Recompiled(g)
      BY <3>5 DEF Recompiled, Recompiles
    <3>9. ASSUME Rel(g) PROVE Rel(g)'
      <4>1. \A c : NewestFor(g, c) => NewestFor(g, c)'
        BY <3>5, <3>6, <3>8 DEF NewestFor
      <4>2. /\ Old(g)' = {} \/ Old(g)' = Old(g)
            /\ Old(g)' = Old(g) => \A b \in Old(g) : mem'[b].jump = mem[b].jump
        BY <3>3 DEF BodiesKept, Old
      <4>3. \A b \in Old(g)' : \A c :
              mem'[b].jump = c => /\ <<g, c>> \in given'
                                  /\ c \in Old(g)' \/ NewestFor(g, c)'
        BY <3>2, <3>9, <4>1, <4>2 DEF Rel
      <4>4. \A u \in Threads :
              Recompiles(u, g)' /\ th'[u].pc = "relink" => th'[u].at[2] = emitted'[g]
        BY <1>1, <3>5, <3>6, <3>9 DEF Rel
      <4> QED BY <3>7, <4>3, <4>4 DEF Rel
    <3>10. \A f \in Globals \ {g} : ~Recompiles(t, f) /\ ~Recompiles(t, f)'
      BY <3>5
    <3> QED BY <1>4, <2>3, <3>4, <3>9, <3>10, OwnStep
  <2> QED BY <2>4, <2>5
<1> QED BY <1>4, <1>5, <1>6

(* What clients have been given is code of the function they asked for.      *)
GivenKnown == \A f, b : <<f, b>> \in given /\ b \in Memory => mem[b].fn = f

(* The old entry becomes a jump to the newest code. *)
LEMMA RelinkRelinked ==
  ASSUME AInv, GivenKnown, UNCHANGED program, Relinked,
         NEW t \in Threads, Relink(t)
  PROVE  Relinked'
<1>1. th[t].pc = "relink" BY DEF Relink
<1>2. PICK o \in Memory, a \in Memory : o = th[t].at[1] /\ a = th[t].at[2]
  BY <1>1, RelinkFacts DEF Holding
<1>3. PICK g \in Globals : g = th[t].f BY <1>1, OwnFacts
<1>4. /\ th[t].op = "recompile" /\ o # a /\ mem[a].jump = Null
      /\ mem[o].kind = "body" /\ mem[o].fn = g
  BY <1>1, <1>2, <1>3, RelinkFacts DEF Holding
<1>5. a \in Locations /\ a # Null BY ProgramFacts DEF AInv
<1>6. /\ Rewritten(o, a) /\ Return(t, a)
      /\ UNCHANGED <<maps, emitted, pending, job>>
  BY <1>2 DEF Relink, Rewritten
<1>7. /\ \A b \in Memory : /\ mem'[b].kind = mem[b].kind
                           /\ b # o => mem'[b].jump = mem[b].jump
      /\ mem'[o].jump = a
  BY <1>5, <1>6, JumpFacts DEF AInv, Types
<1>8. /\ th'[t] = Idle /\ \A u \in Threads \ {t} : th'[u] = th[u]
      /\ given' = given \cup {<<g, a>>}
  BY <1>3, <1>4, <1>5, <1>6, ReturnStep DEF AInv
<1>9. /\ \A u \in Threads : Recompiles(u, g) <=> u = t
      /\ \A u \in Threads : ~Recompiles(u, g)'
      /\ \A f : ~Recompiles(t, f)'
      /\ \A f \in Globals \ {g} : ~Recompiles(t, f)
  <2>1. /\ \A u \in Threads : Recompiles(u, g) => u = t
        /\ \A f : Recompiles(t, f) <=> f = g
    BY <1>1, <1>3, OwnFacts
  <2>2. \A f : ~Recompiles(t, f)' BY <1>8, IdleFields DEF Recompiles
  <2>3. \A u \in Threads \ {t} : Recompiles(u, g)' <=> Recompiles(u, g)
    BY <1>8 DEF Recompiles
  <2> QED BY <2>1, <2>2, <2>3
<1>10. \A f \in Globals : SettledKept(f) BY <1>6, SettledSame
<1>11. ASSUME NEW f \in Globals \ {g} PROVE OldKept(f)
  <2>1. \A c : <<f, c>> \in given' <=> <<f, c>> \in given BY <1>8
  <2>2. \A b \in Memory : <<f, b>> \in given => b # o
    BY <1>4 DEF GivenKnown
  <2>3. \A b \in Memory : <<f, b>> \in given =>
          (OldBody(b)' <=> OldBody(b)) /\ mem'[b].jump = mem[b].jump
    BY <1>7, <2>2 DEF OldBody
  <2>4. Old(f)' = Old(f) BY <2>1, <2>3 DEF Old
  <2>5. \A b \in Old(f) : mem'[b].jump = mem[b].jump BY <2>3 DEF Old
  <2> QED BY <2>1, <2>4, <2>5 DEF OldKept
<1>12. ASSUME Rel(g) PROVE Rel(g)'
  <2>1. Needs(g) /\ Recompiled(g)
    BY <1>1, <1>4, <1>9 DEF Needs, Late, Recompiled, Recompiles
  <2>2. Settled(g)' BY <1>10, <1>12, <2>1 DEF Rel, SettledKept
  <2>3. a = emitted'[g] BY <1>1, <1>2, <1>6, <1>9, <1>12 DEF Rel
  <2>4. OldCode(t) = o BY <1>1, <1>2 DEF OldCode
  <2>5. NewestFor(g, a)'
    <3>1. ~Recompiled(g)' BY <1>9 DEF Recompiled, Recompiles
    <3> QED BY <2>3, <3>1 DEF NewestFor
  <2>6. \A c : NewestFor(g, c) => c = o BY <1>9, <2>1, <2>4 DEF NewestFor
  <2>7. ~OldBody(a) /\ ~OldBody(a)'
    BY <1>4, <1>7 DEF OldBody
  <2>8. OldBody(o)' BY <1>4, <1>5, <1>7 DEF OldBody
  <2>9. \A b \in Memory : b # o => (OldBody(b)' <=> OldBody(b))
    BY <1>7 DEF OldBody
  <2>10. \A c : <<g, c>> \in given => <<g, c>> \in given' BY <1>8
  <2>11. \A c \in Old(g) : c \in Old(g)'
    BY <2>8, <2>9, <2>10 DEF Old
  <2>12. ASSUME NEW b \in Old(g)', NEW c, mem'[b].jump = c
         PROVE  <<g, c>> \in given' /\ (c \in Old(g)' \/ NewestFor(g, c)')
    <3>1. b \in Memory /\ <<g, b>> \in given' /\ OldBody(b)'
      BY <2>12 DEF Old
    <3>2. CASE b = o
      <4>1. c = a BY <1>7, <2>12, <3>2
      <4>2. <<g, a>> \in given' BY <1>8
      <4> QED BY <2>5, <4>1, <4>2
    <3>3. CASE b # o
      <4>1. b # a BY <2>7, <3>1
      <4>2. <<g, b>> \in given BY <1>8, <3>1, <4>1
      <4>3. b \in Old(g) /\ mem[b].jump = c
        BY <1>7, <2>9, <2>12, <3>1, <3>3, <4>2 DEF Old
      <4>4. <<g, c>> \in given /\ (c \in Old(g) \/ c = o)
        BY <1>12, <2>6, <4>3 DEF Rel
      <4>5. <<g, c>> \in given' BY <1>8, <4>4
      <4>6. c = o => c \in Old(g)' BY <2>8, <4>5 DEF Old
      <4> QED BY <2>11, <4>4, <4>5, <4>6
    <3> QED BY <3>2, <3>3
  <2> QED BY <1>9, <2>2, <2>12 DEF Rel
<1> QED BY <1>8, <1>9, <1>10, <1>11, <1>12, OwnStep

(* Code is freed: no client has an address of it any more. *)
LEMMA ForgetRelinked ==
  ASSUME AInv, GivenKnown, UNCHANGED <<program, pending, job, th>>, Relinked,
         NEW f \in Globals, deallocateMemForFunction(f),
         given' = {p \in given : p[1] # f},
         \A h \in Globals \ {f} : Lookup(maps', h) = Lookup(maps, h),
         \A t \in Threads : th[t].f # f
  PROVE  Relinked'
<1>1. /\ \A h \in Globals \ {f} : emitted'[h] = emitted[h]
      /\ \A b \in Memory : mem[b].fn # f => mem'[b] = mem[b]
  BY DeallocFacts DEF AInv
<1>2. ASSUME ~FarStubs, NEW h \in Globals \ {f} PROVE Rel(h)'
  <2>1. \A c : <<h, c>> \in given' <=> <<h, c>> \in given OBVIOUS
  <2>2. \A b \in Memory : <<h, b>> \in given =>
          (OldBody(b)' <=> OldBody(b)) /\ mem'[b].jump = mem[b].jump
    BY <1>1 DEF GivenKnown, OldBody
  <2>3. Old(h)' = Old(h) BY <2>1, <2>2 DEF Old
  <2>4. \A b \in Old(h) : mem'[b].jump = mem[b].jump BY <2>2 DEF Old
  <2>5. OldKept(h) BY <2>1, <2>3, <2>4 DEF OldKept
  <2>6. Queue' = Queue BY DEF Queue
  <2>7. SettledKept(h) BY <1>1, <2>6 DEF SettledKept, Settled
  <2>8. RecompilingKept(h) BY DEF RecompilingKept, Recompiles, Late
  <2> QED BY <1>2, <2>5, <2>7, <2>8, RelKept DEF Relinked
<1>3. Rel(f)'
  <2>1. Old(f)' = {} BY DEF Old
  <2>2. \A t \in Threads : ~Recompiles(t, f)' BY DEF Recompiles
  <2>3. ~Needs(f)' BY <2>1, <2>2 DEF Needs
  <2> QED BY <2>1, <2>2, <2>3 DEF Rel
<1> QED BY <1>2, <1>3, ProgramSame DEF Relinked

LEMMA FreeRelinked ==
  ASSUME AInv, GivenKnown, UNCHANGED program, Relinked, NEW f \in Globals,
         freeMachineCodeForFunction(f) \/ DeleteFunction(f)
  PROVE  Relinked'
<1>1. maps.fwd \in [Globals -> Locations \cup {Absent}]
  BY DEF AInv, Types, MapsType
<1>2. /\ UNCHANGED <<pending, job, th>> /\ deallocateMemForFunction(f)
      /\ given' = {p \in given : p[1] # f}
  BY DEF freeMachineCodeForFunction, DeleteFunction
<1>3. maps'.fwd = [maps.fwd EXCEPT ![f] = Absent]
  BY RemoveMaps, OnDeleteMaps
     DEF freeMachineCodeForFunction, DeleteFunction, updateGlobalMapping, AInv, Types
<1>4. \A h \in Globals \ {f} : Lookup(maps', h) = Lookup(maps, h)
  BY <1>1, <1>3 DEF Lookup
<1>5. \A t \in Threads : th[t].f # f
  BY IdleFields, ProgramFacts DEF freeMachineCodeForFunction, DeleteFunction, Alone, AInv
<1> QED BY <1>2, <1>4, <1>5, ForgetRelinked

LEMMA NextRelinked ==
  ASSUME ExternalsDiffer, AInv, GivenKnown, Relinked, [Next]_vars
  PROVE  Relinked'
<1>1. CASE UNCHANGED vars
  <2>1. UNCHANGED <<program, maps, mem, emitted, pending, job, th, given>>
    BY <1>1 DEF vars, code
  <2>2. BodiesKept BY <2>1, SameMem DEF BodiesKept, SameBodies
  <2>3. ASSUME ~FarStubs, NEW f \in Globals PROVE Rel(f)'
    <3>1. SettledKept(f) BY <2>1, SettledSame
    <3>2. RecompilingKept(f) BY <2>1 DEF RecompilingKept, Recompiles, Late
    <3> QED BY <2>2, <2>3, <3>1, <3>2, BodiesFacts, RelKept DEF Relinked
  <2> QED BY <2>1, <2>3, ProgramSame DEF Relinked
<1>2. ASSUME NEW t \in Threads, Progress(t) PROVE Relinked'
  <2>1. UNCHANGED program BY <1>2 DEF Progress
  <2>2. CASE CheckMap(t) BY <2>1, <2>2, CheckMapRelinked
  <2>3. CASE LockAndCheck(t) BY <2>1, <2>3, LockAndCheckRelinked
  <2>4. CASE StartFunction(t) BY <2>1, <2>4, StartFunctionRelinked
  <2>5. ASSUME NEW g \in Globals, EmitDirectCall(t, g) PROVE Relinked'
    BY <2>1, <2>5, EmitDirectCallRelinked
  <2>6. ASSUME NEW g \in Globals, EmitStubCall(t, g) PROVE Relinked'
    BY <2>1, <2>6, EmitStubCallRelinked
  <2>7. CASE FinishFunction(t) BY <2>1, <2>7, FinishFunctionRelinked
  <2>8. CASE Patch(t) BY <2>1, <2>8, PatchRelinked
  <2>9. CASE Relink(t) BY <2>1, <2>9, RelinkRelinked
  <2>10. CASE GetStub(t) BY <2>1, <2>10, GetStubRelinked
  <2>11. CASE DeleteMapping(t) \/ runJITOnFunction(t)
    BY <2>1, <2>11, BeginRelinked
  <2>12. CASE FindNewCode(t) BY <2>1, <2>12, FindRelinked
  <2> QED
    BY <1>2, <2>2, <2>3, <2>4, <2>5, <2>6, <2>7, <2>8, <2>9, <2>10, <2>11, <2>12
       DEF Progress
<1>3. ASSUME NEW t \in Threads, Retry(t), UNCHANGED program PROVE Relinked'
  BY <1>3, RetryRelinked
<1>4. ASSUME NEW t \in Threads, NEW f \in Globals, UNCHANGED program,
             \/ getPointerToFunction(t, f) \/ getPointerToFunctionOrStub(t, f)
      PROVE  Relinked'
  BY <1>4, CallsRelinked
<1>5. ASSUME NEW t \in Threads, NEW f \in Globals, UNCHANGED program,
             recompileAndRelinkFunction(t, f)
      PROVE  Relinked'
  BY <1>5, RecompileRelinked
<1>6. ASSUME NEW t \in Threads, NEW s \in Memory, CallStub(t, s), UNCHANGED program
      PROVE  Relinked'
  <2>1. mem[s].kind = "stub" /\ mem[s].fn \in Globals
    <3>1. s \in callSites BY <1>6 DEF CallStub
    <3> QED BY <3>1, ProgramFacts DEF AInv, Tables
  <2>2. \E f \in Globals : \E x \in Memory : CallStub(t, x) BY <1>6, <2>1
  <2> QED BY <1>6, <2>2, CallsRelinked
<1>7. ASSUME NEW f \in Globals, UNCHANGED program,
             freeMachineCodeForFunction(f) \/ DeleteFunction(f)
      PROVE  Relinked'
  BY <1>7, FreeRelinked
<1>8. ASSUME Ask, UNCHANGED program PROVE Relinked'
  BY <1>8, AskRelinked
<1> QED BY <1>1, <1>2, <1>3, <1>4, <1>5, <1>6, <1>7, <1>8 DEF Next

LEMMA AlwaysRelinked ==
  ASSUME StubsAreLazy, ExternalsDiffer, FreeStubbed = FALSE
  PROVE  Spec => [](BInv /\ Relinked)
<1>1. Init => Relinked
  <2> SUFFICES ASSUME Init, NEW f \in Globals PROVE Rel(f)
    BY DEF Relinked
  <2>1. Old(f) = {} /\ \A t \in Threads : ~Recompiles(t, f)
    BY IdleFields DEF Init, Old, Recompiles
  <2> QED BY <2>1 DEF Rel, Needs
<1>2. ASSUME BInv PROVE GivenKnown
  <2>1. PICK L, W \in SUBSET (alive \X Locations) : Complete(L, W)
    BY <1>2 DEF BInv
  <2>2. AInv /\ LeadOn(L, {}) /\ given \subseteq L
    BY <1>2, <2>1 DEF BInv, Complete, Covered
  <2>3. ASSUME NEW f, NEW b, <<f, b>> \in given, b \in Memory
        PROVE  mem[b].fn = f
    <3>1. <<f, b>> \in L /\ f \in alive BY <2>2, <2>3
    <3>2. Leads(f, b, L, {}) BY <2>2, <3>1 DEF LeadOn
    <3> QED BY <2>2, <2>3, <3>1, <3>2, LeadsToCode
  <2> QED BY <2>3 DEF GivenKnown
<1>3. BInv /\ Relinked /\ [Next]_vars => Relinked'
  BY <1>2, NextRelinked DEF BInv
<1> QED BY <1>1, <1>3, AlwaysBInv, PTL DEF Spec

(* Jumps from overwritten code stay with the code of its function, and end.  *)
LEMMA OldEnds ==
  ASSUME AInv, NEW d \in [Memory -> Nat], Ranked(d), NEW f \in Globals, Rel(f),
         ~Recompiled(f), NEW b \in Old(f)
  PROVE  Destination(b) = emitted[f]
<1> DEFINE X == Old(f) \cup {emitted[f]}
<1>1. Settled(f)
  <2>1. Needs(f) BY DEF Needs
  <2> QED BY <2>1 DEF Rel
<1>2. emitted[f] \in Memory /\ mem[emitted[f]].jump = Null
  BY <1>1, SettledFacts
<1>3. \A c : ~ (\E t \in Threads : Recompiles(t, f) /\ c = OldCode(t))
  BY DEF Recompiled, Recompiles
<1>4. \A c \in Old(f) : c \in Memory /\ mem[c].jump \in X /\ mem[c].jump # Null
  BY <1>3 DEF Rel, NewestFor, Old, OldBody
<1>5. \A c \in X : Follow(c) \in X BY <1>2, <1>4 DEF Follow
<1>6. X \subseteq Memory BY <1>2, <1>4
<1> DEFINE T == Trace(b)
<1>7. /\ Destination(b) = T[Size] /\ T[0] = b
      /\ \A n \in Nat : n + 1 <= Size => T[n + 1] = Follow(T[n])
  BY TraceFacts
<1> HIDE DEF T
<1>8. PICK N \in Nat : N = Size BY SizeFacts
<1> DEFINE S == {n \in Nat : n <= N => T[n] \in X}
<1>9. b \in X OBVIOUS
<1> HIDE DEF X
<1>10. 0 \in S BY <1>7, <1>9
<1>11. ASSUME NEW n \in Nat, n \in S PROVE n + 1 \in S
  <2>1. CASE n + 1 <= N
    <3>1. n <= N BY <1>8, <2>1
    <3>2. T[n] \in X BY <1>11, <3>1
    <3>3. T[n + 1] = Follow(T[n]) BY <1>7, <1>8, <2>1
    <3>4. T[n + 1] \in X BY <1>5, <3>2, <3>3
    <3> QED BY <3>4
  <2>2. CASE ~(n + 1 <= N) BY <2>2
  <2> QED BY <2>1, <2>2
<1>12. N \in S
  <2> HIDE DEF S
  <2> QED BY <1>8, <1>10, <1>11, NatSet
<1>13. Destination(b) \in X
  <2>1. N <= N BY <1>8
  <2> QED BY <1>7, <1>8, <1>12, <2>1
<1>14. Final(Destination(b)) BY JumpsEnd
<1>15. Resolver \notin Memory BY ProgramFacts DEF AInv
<1>16. Destination(b) \notin Old(f)
  BY <1>4, <1>6, <1>14, <1>15 DEF Final
<1> QED BY <1>13, <1>16 DEF X

(* An address that was returned for a function and has been overwritten when *)
(* it was recompiled leads to the newest code of the function, whatever      *)
(* other threads compiled between the steps (recompileAndRelinkFunction).    *)
THEOREM RelinkedToNewest ==
  ASSUME StubsAreLazy, ExternalsDiffer, FreeStubbed = FALSE
  PROVE  Spec => []PointersReachCurrentCode
<1>1. ASSUME BInv, Relinked PROVE PointersReachCurrentCode
  <2>1. PICK d \in [Memory -> Nat] : Ranked(d) BY <1>1 DEF BInv
  <2>2. AInv BY <1>1 DEF BInv
  <2> SUFFICES ASSUME ~FarStubs, NEW p \in given, p[2] \in Memory,
                      mem[p[2]].kind = "body", mem[p[2]].jump # Null,
                      ~Recompiled(p[1])
               PROVE  Destination(p[2]) = emitted[p[1]]
    BY DEF PointersReachCurrentCode
  <2>3. PICK f \in Globals, b \in Locations : p = <<f, b>>
    BY <2>2 DEF AInv, Types
  <2>4. b \in Old(f) /\ ~Recompiled(f) /\ Rel(f)
    BY <1>1, <2>3 DEF Old, OldBody, Relinked
  <2>5. Destination(b) = emitted[f] BY <2>1, <2>2, <2>4, OldEnds
  <2> QED BY <2>3, <2>5
<1>2. BInv /\ Relinked => PointersReachCurrentCode BY <1>1
<1> QED BY <1>2, AlwaysRelinked, PTL

-----------------------------------------------------------------------------
(* The global mappings on their own, which the JIT and other clients enter,  *)
(* update, clear and look up (GlobalMapping).                                *)

(* The two maps have their types... *)
Shape(M) ==
  M \in [fwd : [Globals -> Addrs \cup {Null, Absent}],
         rev : [Addrs \cup {Null} -> Globals \cup {None}]]

(* ...no two globals share an address, and the reverse map, when in use, has *)
(* exactly the entries of the forward map.                                   *)
Agree(M) ==
  /\ Shape(M)
  /\ \A g \in Globals : M.fwd[g] # Null
  /\ \A g, h \in Globals : M.fwd[g] \in Addrs /\ M.fwd[g] = M.fwd[h] => g = h
  /\ M.rev[Null] = None
  /\ ReverseInUse(M) =>
       \A a \in Addrs, g \in Globals : M.rev[a] = g <=> M.fwd[g] = a

IInv ==
  /\ Agree(maps)
  /\ alive \subseteq Globals
  /\ \A g \in Globals \ alive : maps.fwd[g] = Absent
  /\ answer \in (Addrs \cup {Null}) \X (Globals \cup {None})
-----------------------------------------------------------------------------
(* The empty maps, as after clearAllGlobalMappings, agree.                   *)
LEMMA EmptyAgrees == Agree(Empty)
BY GlobalMapsAssumption DEF Agree, Shape, Empty, ReverseInUse

(* What entering a mapping does to a pair of maps that agree. *)
LEMMA EnterAgrees ==
  ASSUME NEW M, Agree(M), NEW g \in Globals, NEW a \in Addrs,
         M.fwd[g] = Absent, \A h \in Globals : M.fwd[h] # a,
         NEW U, U = Enter(M, g, a)
  PROVE  Agree(U) /\ U.fwd = [M.fwd EXCEPT ![g] = a]
<1>1. /\ Shape(U) /\ U.fwd = [M.fwd EXCEPT ![g] = a]
      /\ U.rev = IF ReverseInUse(M) THEN [M.rev EXCEPT ![a] = g] ELSE M.rev
  BY DEF Agree, Shape, Enter
<1>2. /\ \A h \in Globals : U.fwd[h] # Null
      /\ \A h, k \in Globals : U.fwd[h] \in Addrs /\ U.fwd[h] = U.fwd[k] => h = k
      /\ U.rev[Null] = None
  BY <1>1, GlobalMapsAssumption DEF Agree, Shape
<1>3. ReverseInUse(U) => ReverseInUse(M)
  BY <1>1 DEF ReverseInUse
<1>4. ASSUME ReverseInUse(M), NEW b \in Addrs, NEW h \in Globals
      PROVE  U.rev[b] = h <=> U.fwd[h] = b
  BY <1>1, <1>4, GlobalMapsAssumption DEF Agree, Shape
<1> QED
  BY <1>1, <1>2, <1>3, <1>4 DEF Agree

(* What removing a mapping does, also one that does not exist. *)
LEMMA RemoveAgrees ==
  ASSUME NEW M, Agree(M), NEW g \in Globals
  PROVE  /\ Agree(RemoveMapping(M, g))
         /\ RemoveMapping(M, g).fwd = [M.fwd EXCEPT ![g] = Absent]
<1> DEFINE U == RemoveMapping(M, g)
<1>1. Lookup(M, g) \in Addrs \cup {Null}
  BY DEF Agree, Shape, Lookup
<1>2. /\ Shape(U) /\ U.fwd = [M.fwd EXCEPT ![g] = Absent]
      /\ U.rev = [M.rev EXCEPT ![Lookup(M, g)] = None]
  BY <1>1 DEF Agree, Shape, RemoveMapping, EraseReverse
<1> HIDE DEF U
<1>3. /\ \A h \in Globals : U.fwd[h] # Null
      /\ \A h, k \in Globals : U.fwd[h] \in Addrs /\ U.fwd[h] = U.fwd[k] => h = k
      /\ U.rev[Null] = None
  BY <1>1, <1>2, GlobalMapsAssumption DEF Agree, Shape
<1>4. ReverseInUse(U) => ReverseInUse(M)
  BY <1>1, <1>2 DEF ReverseInUse, Agree, Shape
<1>5. ASSUME ReverseInUse(M), NEW b \in Addrs, NEW h \in Globals
      PROVE  U.rev[b] = h <=> U.fwd[h] = b
  BY <1>1, <1>2, <1>5, GlobalMapsAssumption DEF Agree, Shape, Lookup
<1> QED
  BY <1>2, <1>3, <1>4, <1>5 DEF Agree, U

(* Replacing a mapping is removing it and entering the new one. *)
LEMMA UpdateAgrees ==
  ASSUME NEW M, Agree(M), NEW g \in Globals, NEW a \in Addrs,
         \A h \in Globals \ {g} : M.fwd[h] # a
  PROVE  /\ Agree(updateGlobalMapping(M, g, a))
         /\ updateGlobalMapping(M, g, a).fwd = [M.fwd EXCEPT ![g] = a]
<1> PICK R : R = RemoveMapping(M, g)
  OBVIOUS
<1> DEFINE E == IF Lookup(M, g) # Null THEN EraseReverse(M, g) ELSE M
<1>0. Agree(R)
  BY RemoveAgrees
<1>1. R.fwd = [M.fwd EXCEPT ![g] = Absent]
  BY RemoveAgrees
<1> PICK U : U = Enter(R, g, a)
  OBVIOUS
<1>2. Agree(U) /\ U.fwd = [R.fwd EXCEPT ![g] = a]
  <2>1. R.fwd[g] = Absent /\ \A h \in Globals : R.fwd[h] # a
    BY <1>1, GlobalMapsAssumption DEF Agree, Shape
  <2> QED
    BY <1>0, <2>1, EnterAgrees
<1>3. E.rev = R.rev /\ E.fwd = M.fwd
  BY DEF RemoveMapping, EraseReverse, Agree, Shape
<1>4. Enter(E, g, a) = Enter(R, g, a)
  BY <1>0, <1>1, <1>3 DEF Enter, ReverseInUse, Agree, Shape
<1>5. updateGlobalMapping(M, g, a) = Enter(E, g, a)
  BY GlobalMapsAssumption DEF updateGlobalMapping, Withdrawn
<1> QED
  BY <1>0, <1>1, <1>2, <1>4, <1>5 DEF Agree, Shape

(* Clearing the globals of a module, which resets the reverse entries of their *)
(* addresses, leaves maps that agree.                                        *)
LEMMA ClearModuleAgrees ==
  ASSUME NEW M, Agree(M), NEW gs \in SUBSET Globals
  PROVE  Agree(clearGlobalMappingsFromModule(M, gs))
<1> DEFINE U == clearGlobalMappingsFromModule(M, gs)
<1>1. /\ Shape(U)
      /\ U.fwd = [g \in Globals |-> IF g \in gs THEN Absent ELSE M.fwd[g]]
      /\ U.rev = [a \in Addrs \cup {Null} |->
                    IF \E g \in gs : Lookup(M, g) = a THEN None ELSE M.rev[a]]
  BY DEF Agree, Shape, clearGlobalMappingsFromModule
<1> HIDE DEF U
<1>2. /\ \A h \in Globals : U.fwd[h] # Null
      /\ \A h, k \in Globals : U.fwd[h] \in Addrs /\ U.fwd[h] = U.fwd[k] => h = k
      /\ U.rev[Null] = None
  BY <1>1, GlobalMapsAssumption DEF Agree, Shape
<1>3. ReverseInUse(U) => ReverseInUse(M)
  BY <1>1 DEF ReverseInUse
<1>4. ASSUME ReverseInUse(M), NEW b \in Addrs, NEW h \in Globals
      PROVE  U.rev[b] = h <=> U.fwd[h] = b
  <2>1. \A g \in Globals : Lookup(M, g) = b <=> M.fwd[g] = b
    BY GlobalMapsAssumption DEF Agree, Lookup
  <2> QED
    BY <1>1, <1>4, <2>1, GlobalMapsAssumption DEF Agree, Shape
<1> QED
  BY <1>1, <1>2, <1>3, <1>4 DEF Agree, U

(* Computing the reverse map changes nothing else, and an address is then    *)
(* found in it exactly if some global is there.                              *)
LEMMA ComputeAgrees ==
  ASSUME NEW M, Agree(M)
  PROVE  /\ Agree(ComputeReverse(M))
         /\ ComputeReverse(M).fwd = M.fwd
         /\ \A a \in Addrs : ComputeReverse(M).rev[a] =
              IF \E g \in Globals : M.fwd[g] = a
                THEN CHOOSE g \in Globals : M.fwd[g] = a ELSE None
<1> DEFINE at(a) == IF \E g \in Globals : M.fwd[g] = a
                      THEN CHOOSE g \in Globals : M.fwd[g] = a ELSE None
<1>1. /\ \A a : at(a) \in Globals \cup {None}
      /\ \A a : at(a) \in Globals => M.fwd[at(a)] = a
      /\ at(Null) = None
  BY GlobalMapsAssumption DEF Agree
<1>2. \A a \in Addrs, g \in Globals : at(a) = g <=> M.fwd[g] = a
  <2> SUFFICES ASSUME NEW a \in Addrs, NEW g \in Globals
               PROVE  at(a) = g <=> M.fwd[g] = a
    OBVIOUS
  <2>1. M.fwd[g] = a => at(a) \in Globals
    OBVIOUS
  <2> HIDE DEF at
  <2> QED
    BY <1>1, <2>1 DEF Agree
<1>3. CASE ReverseInUse(M)
  <2>1. \A a \in Addrs : M.rev[a] = at(a)
    <3> SUFFICES ASSUME NEW a \in Addrs PROVE M.rev[a] = at(a)
      OBVIOUS
    <3>1. /\ M.rev[a] \in Globals \cup {None} /\ at(a) \in Globals \cup {None}
          /\ \A g \in Globals : M.rev[a] = g <=> at(a) = g
      <4> HIDE DEF at
      <4> QED BY <1>1, <1>2, <1>3 DEF Agree, Shape
    <3> HIDE DEF at
    <3> QED BY <3>1
  <2> QED
    BY <1>3, <2>1 DEF ComputeReverse
<1>4. CASE ~ReverseInUse(M)
  <2> DEFINE U == ComputeReverse(M)
  <2>1. /\ U.fwd = M.fwd /\ U.rev = [a \in Addrs \cup {Null} |-> at(a)]
        /\ U = [fwd |-> U.fwd, rev |-> U.rev]
    BY <1>4 DEF ComputeReverse, Agree, Shape
  <2> HIDE DEF U, at
  <2>2. Agree(U)
    BY <1>1, <1>2, <2>1 DEF Agree, Shape
  <2> QED
    BY <2>1, <2>2 DEF U, at
<1> QED
  BY <1>3, <1>4
-----------------------------------------------------------------------------
(* The engine starts with empty maps.                                        *)
LEMMA InitIInv == MapsInit => IInv
BY EmptyAgrees, GlobalMapsAssumption
   DEF MapsInit, IInv, Empty, NoAnswer

(* Every call of a client, and the destruction or creation of a global, keeps *)
(* the maps in agreement.                                                    *)
LEMMA NextIInv ==
  ASSUME NullMappings = FALSE, SharedAddresses = FALSE, IInv, [MapsNext]_mapVars
  PROVE  IInv'
<1> USE DEF IInv
<1>0. Agree(maps) /\ NoAnswer \in (Addrs \cup {Null}) \X (Globals \cup {None})
  BY DEF NoAnswer
<1>1. ASSUME NEW g \in Globals, NEW a \in Addrs \cup {Null}, Add(g, a)
      PROVE  IInv'
  <2>1. a \in Addrs /\ maps.fwd[g] = Absent /\ \A h \in Globals : maps.fwd[h] # a
    BY <1>0, <1>1, GlobalMapsAssumption
       DEF Add, Asked, Lookup, Agree
  <2>2. Agree(maps') /\ maps'.fwd = [maps.fwd EXCEPT ![g] = a]
    BY <1>0, <1>1, <2>1, EnterAgrees DEF Add, addGlobalMapping
  <2> QED
    BY <1>0, <1>1, <2>2 DEF Add
<1>2. ASSUME NEW g \in Globals, NEW a \in Addrs \cup {Null}, Update(g, a)
      PROVE  IInv'
  <2>1. CASE a = Null
    <3>1. maps' = RemoveMapping(maps, g)
      BY <1>2, <2>1 DEF Update, updateGlobalMapping
    <3>2. Agree(maps') /\ maps'.fwd = [maps.fwd EXCEPT ![g] = Absent]
      BY <1>0, <3>1, RemoveAgrees
    <3> QED
      BY <1>0, <1>2, <3>2 DEF Update
  <2>2. CASE a \in Addrs
    <3>1. \A h \in Globals \ {g} : maps.fwd[h] # a
      BY <1>2, <2>2, GlobalMapsAssumption DEF Update, Asked
    <3>2. Agree(maps') /\ maps'.fwd = [maps.fwd EXCEPT ![g] = a]
      BY <1>0, <1>2, <2>2, <3>1, UpdateAgrees DEF Update
    <3> QED
      BY <1>0, <1>2, <3>2 DEF Update
  <2> QED
    BY <2>1, <2>2
<1>3. CASE ClearAll
  BY <1>0, <1>3, EmptyAgrees DEF ClearAll, Empty
<1>4. ASSUME NEW gs \in SUBSET Globals, ClearModule(gs)
      PROVE  IInv'
  <2>1. Agree(maps')
    BY <1>0, <1>4, ClearModuleAgrees DEF ClearModule
  <2>2. \A g \in Globals : maps.fwd[g] = Absent => maps'.fwd[g] = Absent
    BY <1>4 DEF ClearModule, clearGlobalMappingsFromModule
  <2> QED
    BY <1>0, <1>4, <2>1, <2>2 DEF ClearModule
<1>5. ASSUME NEW a \in Addrs, AskAt(a)
      PROVE  IInv'
  <2>1. Agree(maps') /\ maps'.fwd = maps.fwd
    BY <1>0, <1>5, ComputeAgrees DEF AskAt
  <2>2. answer' = <<a, maps'.rev[a]>> /\ maps'.rev[a] \in Globals \cup {None}
    BY <1>5, <2>1 DEF AskAt, getGlobalValueAtAddress, Agree, Shape
  <2>3. answer' \in (Addrs \cup {Null}) \X (Globals \cup {None})
    BY <2>2
  <2> QED
    BY <1>0, <1>5, <2>1, <2>3 DEF AskAt
<1>6. ASSUME NEW g \in Globals, Destroy(g)
      PROVE  IInv'
  <2>1. Agree(maps') /\ maps'.fwd = [maps.fwd EXCEPT ![g] = Absent]
    <3>1. CASE maps.fwd[g] = Absent
      BY <1>0, <1>6, <3>1 DEF Destroy, onDelete, Agree, Shape
    <3>2. CASE maps.fwd[g] # Absent
      <4>1. maps' = RemoveMapping(maps, g)
        BY <1>6, <3>2 DEF Destroy, onDelete
      <4> QED
        BY <1>0, <4>1, RemoveAgrees
    <3> QED
      BY <3>1, <3>2
  <2> QED
    BY <1>0, <1>6, <2>1 DEF Destroy, Agree, Shape
<1>7. ASSUME NEW g \in Globals, Create(g)
      PROVE  IInv'
  BY <1>0, <1>7 DEF Create
<1>8. CASE UNCHANGED mapVars
  BY <1>8 DEF mapVars
<1> QED
  BY <1>1, <1>2, <1>3, <1>4, <1>5, <1>6, <1>7, <1>8 DEF MapsNext
-----------------------------------------------------------------------------
(* The maps, the set of live globals and the last answer keep their types:   *)
(* no sequence of calls makes the engine store a value of another kind.      *)
THEOREM MapsTyped ==
  ASSUME NullMappings = FALSE, SharedAddresses = FALSE
  PROVE  MapsSpec => []MapsTypeOK
<1>1. IInv => MapsTypeOK
  BY DEF IInv, Agree, Shape, MapsTypeOK
<1> QED
  BY InitIInv, NextIInv, <1>1, PTL DEF MapsSpec

(* A reverse map in use is the inverse of the forward map, and nothing is    *)
(* mapped once it is destroyed, for any number of globals and addresses.     *)
THEOREM MapsAgree ==
  ASSUME NullMappings = FALSE, SharedAddresses = FALSE
  PROVE  MapsSpec => [](ReverseIsInverse /\ DestroyedAreUnmapped)
<1>1. IInv => ReverseIsInverse
  BY DEF IInv, Agree, ReverseIsInverse
<1>2. ASSUME IInv PROVE DestroyedAreUnmapped
  <2>1. ASSUME NEW a \in Addrs \cup {Null}, maps.rev[a] \notin alive \cup {None}
        PROVE  FALSE
    <3>1. maps.rev[a] \in Globals /\ maps.rev[a] # None /\ a \in Addrs
      BY <1>2, <2>1 DEF IInv, Agree, Shape
    <3>2. maps.fwd[maps.rev[a]] = a
      BY <1>2, <3>1 DEF IInv, Agree, ReverseInUse
    <3> QED
      BY <1>2, <2>1, <3>1, <3>2, GlobalMapsAssumption DEF IInv
  <2> QED
    BY <1>2, <2>1 DEF IInv, DestroyedAreUnmapped
<1> QED
  BY InitIInv, NextIInv, <1>1, <1>2, PTL DEF MapsSpec
-----------------------------------------------------------------------------
(* The address of a global in the address book. *)
LEMMA BookAddress ==
  ASSUME NEW M, Agree(M), NEW g \in Globals, NEW a \in Addrs
  PROVE  Lookup(M, g) = a <=> M.fwd[g] = a
BY GlobalMapsAssumption DEF Agree, Lookup

(* Every such step is a step of the address book or leaves it as it is.      *)
LEMMA StepImplementsBook ==
  ASSUME NullMappings = FALSE, SharedAddresses = FALSE, IInv, [MapsNext]_mapVars
  PROVE  [Book!Next]_(Book!vars)
<1>0. Agree(maps)
  BY DEF IInv
<1> DEFINE address == [g \in Globals |-> Lookup(maps, g)]
<1>1. ASSUME NEW g \in Globals, NEW a \in Addrs, answer' = NoAnswer,
             maps'.fwd = [maps.fwd EXCEPT ![g] = a],
             \A h \in Globals \ {g} : maps.fwd[h] # a
      PROVE  Book!Next
  <2>1. address' = [address EXCEPT ![g] = a]
    <3>1. \A h \in Globals :
            Lookup(maps, h)' = IF h = g THEN a ELSE Lookup(maps, h)
      BY <1>0, <1>1, GlobalMapsAssumption DEF Agree, Shape, Lookup
    <3> QED
      BY <3>1
  <2>2. \A h \in Globals \ {g} : address[h] # a
    BY <1>0, <1>1, BookAddress
  <2>3. Book!Put(g, a)
    BY <1>1, <2>1, <2>2 DEF Book!Put, Book!NoAnswer, NoAnswer
  <2> QED
    BY <2>3 DEF Book!Next
<1>2. ASSUME NEW gs \in SUBSET Globals, answer' = NoAnswer,
             maps'.fwd = [g \in Globals |-> IF g \in gs THEN Absent ELSE maps.fwd[g]]
      PROVE  Book!Next
  <2>1. address' = [g \in Globals |-> IF g \in gs THEN Null ELSE address[g]]
    BY <1>2 DEF Lookup
  <2>2. Book!Remove(gs)
    BY <1>2, <2>1 DEF Book!Remove, Book!NoAnswer, NoAnswer
  <2> QED
    BY <2>2 DEF Book!Next
<1>3. ASSUME NEW g \in Globals, NEW a \in Addrs \cup {Null}, Add(g, a)
      PROVE  Book!Next
  <2>1. a \in Addrs /\ maps.fwd[g] = Absent /\ \A h \in Globals : maps.fwd[h] # a
    BY <1>0, <1>3, GlobalMapsAssumption
       DEF Add, Asked, Lookup, Agree
  <2>2. maps'.fwd = [maps.fwd EXCEPT ![g] = a]
    BY <1>0, <1>3, <2>1, EnterAgrees DEF Add, addGlobalMapping
  <2> QED
    BY <1>1, <1>3, <2>1, <2>2 DEF Add
<1>4. ASSUME NEW g \in Globals, maps' = RemoveMapping(maps, g),
             answer' = NoAnswer
      PROVE  Book!Next
  <2>1. maps'.fwd = [maps.fwd EXCEPT ![g] = Absent]
    BY <1>0, <1>4, RemoveAgrees
  <2>2. maps'.fwd = [h \in Globals |-> IF h \in {g} THEN Absent ELSE maps.fwd[h]]
    BY <1>0, <2>1 DEF Agree, Shape
  <2> QED
    BY <1>2, <1>4, <2>2
<1>5. ASSUME NEW g \in Globals, NEW a \in Addrs \cup {Null}, Update(g, a)
      PROVE  Book!Next
  <2>1. CASE a = Null
    BY <1>4, <1>5, <2>1 DEF Update, updateGlobalMapping
  <2>2. CASE a \in Addrs
    <3>1. \A h \in Globals \ {g} : maps.fwd[h] # a
      BY <1>5, <2>2, GlobalMapsAssumption DEF Update, Asked
    <3>2. maps'.fwd = [maps.fwd EXCEPT ![g] = a]
      BY <1>0, <1>5, <2>2, <3>1, UpdateAgrees DEF Update
    <3> QED
      BY <1>1, <1>5, <2>2, <3>1, <3>2 DEF Update
  <2> QED
    BY <2>1, <2>2
<1>6. CASE ClearAll
  BY <1>2, <1>6 DEF ClearAll, Empty
<1>7. ASSUME NEW gs \in SUBSET Globals, ClearModule(gs)
      PROVE  Book!Next
  BY <1>2, <1>7 DEF ClearModule, clearGlobalMappingsFromModule
<1>8. ASSUME NEW a \in Addrs, AskAt(a)
      PROVE  Book!Next
  <2>1. maps'.fwd = maps.fwd
    BY <1>0, <1>8, ComputeAgrees DEF AskAt
  <2>2. address' = address
    BY <2>1 DEF Lookup
  <2>3. \A g \in Globals : address[g] = a <=> maps.fwd[g] = a
    BY <1>0, BookAddress
  <2>4. Book!At(a) = IF \E g \in Globals : maps.fwd[g] = a
                       THEN CHOOSE g \in Globals : maps.fwd[g] = a ELSE None
    BY <2>3 DEF Book!At
  <2>5. ComputeReverse(maps).rev[a] = IF \E g \in Globals : maps.fwd[g] = a
                       THEN CHOOSE g \in Globals : maps.fwd[g] = a ELSE None
    BY <1>0, ComputeAgrees
  <2>6. answer' = <<a, Book!At(a)>>
    BY <1>8, <2>4, <2>5 DEF AskAt, getGlobalValueAtAddress
  <2>7. Book!Ask(a)
    BY <2>2, <2>6 DEF Book!Ask
  <2> QED
    BY <2>7 DEF Book!Next
<1>9. ASSUME NEW g \in Globals, Destroy(g)
      PROVE  Book!Next
  <2>1. maps'.fwd = [h \in Globals |-> IF h \in {g} THEN Absent ELSE maps.fwd[h]]
    <3>1. CASE maps.fwd[g] = Absent
      BY <1>0, <1>9, <3>1 DEF Destroy, onDelete, Agree, Shape
    <3>2. CASE maps.fwd[g] # Absent
      <4>1. maps' = RemoveMapping(maps, g)
        BY <1>9, <3>2 DEF Destroy, onDelete
      <4>2. maps'.fwd = [maps.fwd EXCEPT ![g] = Absent]
        BY <1>0, <4>1, RemoveAgrees
      <4> QED
        BY <1>0, <4>2 DEF Agree, Shape
    <3> QED
      BY <3>1, <3>2
  <2> QED
    BY <1>2, <1>9, <2>1 DEF Destroy
<1>10. ASSUME NEW g \in Globals, Create(g)
       PROVE  Book!Next
  <2> PICK gs \in SUBSET Globals : gs = {}
    OBVIOUS
  <2>1. maps'.fwd = [h \in Globals |-> IF h \in gs THEN Absent ELSE maps.fwd[h]]
    BY <1>0, <1>10 DEF Create, Agree, Shape
  <2> QED
    BY <1>2, <1>10, <2>1 DEF Create
<1>11. CASE UNCHANGED mapVars
  <2>1. address' = address
    BY <1>11 DEF mapVars, Lookup
  <2> QED
    BY <1>11, <2>1 DEF mapVars, Book!vars
<1> QED
  BY <1>3, <1>5, <1>6, <1>7, <1>8, <1>9, <1>10, <1>11 DEF MapsNext

(* The two maps with their lazily computed half implement one address book:  *)
(* a client cannot tell when, or whether, the reverse map was computed.      *)
THEOREM MappingRefinesBook ==
  ASSUME NullMappings = FALSE, SharedAddresses = FALSE
  PROVE  MapsSpec => ImplementsAddressBook
<1>1. MapsInit => Book!Init
  BY DEF MapsInit, Empty, Lookup, NoAnswer,
         Book!Init, Book!NoAnswer
<1> QED
  BY InitIInv, NextIInv, StepImplementsBook, <1>1, PTL
     DEF MapsSpec, ImplementsAddressBook, Book!Spec
=============================================================================
