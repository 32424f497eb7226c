----------------------------- MODULE PassManager -----------------------------
(* The pass manager: scheduling of the passes a client adds and of the       *)
(* analyses they require, module and function pass managers, invalidation,   *)
(* last users and the release of results (lib/VMCore/PassManager.cpp,        *)
(* include/llvm/PassManagers.h). A pass is the number of its creation; the   *)
(* one MPPassManager is Top, FPPassManagers are passes that Top runs.        *)
EXTENDS Naturals, Sequences, SequencesExt, FiniteSets

CONSTANTS Analyses,      \* identities of the passes that others may require
          Transforms,    \* those of them that are no analyses (isAnalysis)
          Usage,         \* Usage[a]: what getAnalysisUsage says of a
          ClientUsages,  \* what it may say of a pass of the client
          FPManager,     \* identity of every FPPassManager
          MaxAdds, MaxRuns, MaxFunctions

Top == 0
NoPass == 0

AnalysisUsages ==
  [level : {"module", "function"}, requires : Seq(Analyses),
   transitive : Seq(Analyses), preserves : SUBSET Analyses, all : BOOLEAN]

(* A module pass requires no function pass (it would be run on the fly). A   *)
(* pass of the client is an identity of its own, its number.                 *)
ASSUME UsageAssumption ==
  /\ {MaxAdds, MaxRuns, MaxFunctions} \subseteq Nat /\ Transforms \subseteq Analyses
  /\ DOMAIN Usage = Analyses /\ FPManager \notin Analyses \cup 1..MaxAdds
  /\ \A n \in 1..MaxAdds : n \notin Analyses
  /\ \A u \in {Usage[a] : a \in Analyses} \cup ClientUsages :
       /\ u \in AnalysisUsages
       /\ ToSet(u.transitive) \subseteq ToSet(u.requires)
       /\ u.level = "module" =>
            \A a \in ToSet(u.requires) : Usage[a].level = "module"

VARIABLES
  phase,       \* "building", "running", or "unable" to go on (unreachable)
  passes,      \* every pass made: its identity, usage and manager
  top,         \* top of activeStack: Top, or the FPPassManager above it
  frames,      \* the activations of schedulePass
  available,   \* the AvailableAnalysis maps: entries of all managers
  inherited,   \* FPPassManagers whose InheritedAnalysis is filled in
  lastUser,    \* LastUser
  lastUses,    \* InversedLastUser: pairs <<user, pass>>
  impls,       \* AnalysisImpls of the resolvers
  result,      \* the result that each pass holds
  at,          \* the pass that runs next, and the function
  count        \* how many passes the client has added, and runs there were

vars == <<phase, passes, top, frames, available, inherited, lastUser, lastUses,
          impls, result, at, count>>
plan == <<passes, top, frames, lastUser>>

Entry(m, id, p) == [in |-> m, id |-> id, pass |-> p]
NoResult == [of |-> -1, fresh |-> FALSE]
Nowhere == [pass |-> NoPass, function |-> 0]
ManagerUsage == [level |-> "module", requires |-> <<>>, transitive |-> <<>>,
                 preserves |-> {}, all |-> TRUE]
Frame(id, u) == [id |-> id, use |-> u, next |-> 1, again |-> FALSE]

IsManager(p) == passes[p].id = FPManager

Init ==
  /\ phase = "building" /\ passes = <<>> /\ top = Top /\ frames = <<>>
  /\ available = {} /\ inherited = {} /\ lastUser = <<>> /\ lastUses = {}
  /\ impls = <<>> /\ result = <<>> /\ at = Nowhere
  /\ count = [adds |-> 0, runs |-> 0, functions |-> 0]
-----------------------------------------------------------------------------
(* findAnalysisPass of the top level manager: the module pass manager first, *)
(* then the others in the order of their creation.                           *)
FindPass(av, id) ==
  LET found == {e \in av : e.id = id} IN
  IF found = {} THEN NoPass
  ELSE (CHOOSE e \in found : \A d \in found : e.in <= d.in).pass

(* findAnalysisPass of a manager, which looks at its own map first.          *)
FindFrom(av, m, id) ==
  LET own == {e \in av : e.in = m /\ e.id = id} IN
  IF own = {} THEN FindPass(av, id) ELSE (CHOOSE e \in own : TRUE).pass

(* recordAvailableAnalysis, initializeAnalysisInfo.                          *)
Record(av, m, id, p) ==
  {e \in av : e.in # m \/ e.id # id} \cup {Entry(m, id, p)}
Forget(av, m) == {e \in av : e.in # m}

(* Mutant: the maps of the parent managers are left alone. *)
RemoveOwnNotPreserved(av, m, ms, u) ==
  {e \in av : u.all \/ e.in # m \/ e.id \in u.preserves}

(* removeNotPreservedAnalysis of manager m, which inherits from ms.          *)
RemoveNotPreserved(av, m, ms, u) ==
  {e \in av : u.all \/ e.in \notin {m} \cup ms \/ e.id \in u.preserves}

InheritedBy(m) == IF m \in inherited THEN {Top, top} ELSE {}
-----------------------------------------------------------------------------
(* setLastUser. The passes that an analysis requires transitively are used   *)
(* as long as it is, and so is whatever it was the last to use. The recursion*)
(* along what is required only ever names p and, for passes of the level     *)
(* above, its manager m: it comes to what the passes it begins with rely on. *)
Depth(m) == IF m = Top THEN 1 ELSE 2

RelyOn(av, analyses) ==
  LET found == {e.pass : e \in {e \in av : e.id \in Analyses}}
      IsClosed(qs) == \A q \in qs : \A id \in ToSet(passes[q].use.transitive) :
                        FindPass(av, id) \in qs \cup {NoPass}
  IN {q \in found : \A qs \in SUBSET found :
                      analyses \subseteq qs /\ IsClosed(qs) => q \in qs}

(* The assertion "Expected analysis pass to exist." fails.                   *)
Dangles(av, analyses) ==
  \E q \in RelyOn(av, analyses) :
    \E id \in ToSet(passes[q].use.transitive) : FindPass(av, id) = NoPass

NewLastUser(used, p, m) ==
  LET User(q) == IF Depth(passes[q].manager) = Depth(m) THEN p ELSE m
  IN [q \in DOMAIN lastUser \cup {p} |->
        IF q = p THEN p
        ELSE IF q \in used THEN User(q)
        ELSE IF lastUser[q] \in used THEN User(lastUser[q]) ELSE lastUser[q]]

(* Mutant: what the analyses used last themselves is not handed on.         *)
SetLastUserOnly(av, analyses, p, m) ==
  [q \in DOMAIN lastUser \cup {p} |->
     IF q \in analyses
       THEN IF Depth(passes[q].manager) = Depth(m) THEN p ELSE m
     ELSE IF q = p THEN p ELSE lastUser[q]]

SetLastUser(av, analyses, p, m) == NewLastUser(RelyOn(av, analyses), p, m)
-----------------------------------------------------------------------------
(* The client adds a pass: PassManager::add, which calls schedulePass.       *)
Add(id, u) ==
  /\ phase = "building" /\ frames = <<>> /\ count.adds < MaxAdds
  /\ frames' = <<Frame(id, u)>>
  /\ count' = [count EXCEPT !.adds = @ + 1]
  /\ UNCHANGED <<phase, passes, top, available, inherited, lastUser, lastUses,
                 impls, result, at>>

AddAnalysis(a) == Add(a, Usage[a])
AddClientPass(u) == Add(count.adds + 1, u)

Current == Last(frames)

(* Mutant: only required analyses are looked for. *)
IsAvailableAndRequired(f) ==
  /\ f.id \in Analyses \ Transforms /\ FindPass(available, f.id) # NoPass
  /\ Len(frames) > 1

IsAvailable(f) ==
  f.id \in Analyses \ Transforms /\ FindPass(available, f.id) # NoPass

(* An analysis that is available is not scheduled again.                     *)
Skip ==
  /\ frames # <<>> /\ IsAvailable(Current)
  /\ frames' = Front(frames)
  /\ UNCHANGED <<phase, passes, top, available, inherited, lastUser, lastUses,
                 impls, result, at, count>>

(* The next required analysis from position i that is not available.         *)
MissingFrom(f) == {i \in f.next..Len(f.use.requires) :
                     FindPass(available, f.use.requires[i]) = NoPass}
NextMissing(f) == CHOOSE i \in MissingFrom(f) : \A j \in MissingFrom(f) : i <= j

(* A required analysis is missing and is scheduled first. One of a higher    *)
(* level may end the function pass manager that holds those found before, so *)
(* that all are to be looked at again.                                       *)
ScheduleRequired ==
  /\ frames # <<>> /\ ~IsAvailable(Current) /\ MissingFrom(Current) # {}
  /\ LET i == NextMissing(Current)  a == Current.use.requires[i]
         caller == [Current EXCEPT !.next = i + 1,
                      !.again = @ \/ Current.use.level # Usage[a].level]
     IN frames' = Append(Front(frames) \o <<caller>>, Frame(a, Usage[a]))
  /\ UNCHANGED <<phase, passes, top, available, inherited, lastUser, lastUses,
                 impls, result, at, count>>

(* Mutant: checkAnalysis is not reset. *)
RecheckForever ==
  /\ frames # <<>> /\ ~IsAvailable(Current)
  /\ MissingFrom(Current) = {} /\ Current.again
  /\ frames' = Append(Front(frames), [Current EXCEPT !.next = 1])
  /\ UNCHANGED <<phase, passes, top, available, inherited, lastUser, lastUses,
                 impls, result, at, count>>

Recheck ==
  /\ frames # <<>> /\ ~IsAvailable(Current)
  /\ MissingFrom(Current) = {} /\ Current.again
  /\ frames' = Append(Front(frames),
                      [Current EXCEPT !.next = 1, !.again = FALSE])
  /\ UNCHANGED <<phase, passes, top, available, inherited, lastUser, lastUses,
                 impls, result, at, count>>

Schedulable ==
  frames # <<>> /\ ~IsAvailable(Current)
    /\ MissingFrom(Current) = {} /\ ~Current.again

NewPass(id, u, m) == [id |-> id, use |-> u, manager |-> m]

(* PMDataManager::add of manager m, which inherits from ms, with the maps    *)
(* av. What the pass requires of a higher level is last used by m itself. A  *)
(* requirement that is not there cannot be provided any more.                *)
AddTo(m, ms, av, made) ==
  LET u == Current.use
      required == {FindFrom(av, m, id) :
                     id \in ToSet(u.requires) \cup ToSet(u.transitive)}
      p == Len(passes) + Len(made) + 1
  IN IF NoPass \in required \/ Dangles(av, required)
     THEN /\ phase' = "unable" /\ frames' = <<>>
          /\ UNCHANGED <<passes, top, available, inherited, lastUser, impls, result>>
     ELSE /\ lastUser' = SetLastUser(av, required, p, m)
          /\ available' = Record(RemoveNotPreserved(av, m, ms, u),
                                 m, Current.id, p)
          /\ passes' = passes \o made \o <<NewPass(Current.id, u, m)>>
          /\ impls' = impls \o [q \in 1..Len(made) + 1 |-> <<>>]
          /\ result' = result \o [q \in 1..Len(made) + 1 |-> NoResult]
          /\ frames' = Front(frames)
          /\ top' = m
          /\ inherited' = (inherited \ ({top} \ {m}))
                           \cup {q \in {m} : made # <<>>}
          /\ UNCHANGED phase

(* ModulePass::assignPassManager: the function pass manager is popped.       *)
AssignModulePass ==
  /\ Schedulable /\ Current.use.level = "module"
  /\ AddTo(Top, {}, IF top = Top THEN available ELSE Forget(available, top), <<>>)
  /\ UNCHANGED <<lastUses, at, count>>

(* FunctionPass::assignPassManager: there is a function pass manager, or one *)
(* is made, becomes a pass of the module pass manager and inherits from it.  *)
AssignFunctionPass ==
  /\ Schedulable /\ Current.use.level = "function"
  /\ LET m == Len(passes) + 1 IN
     \/ /\ top # Top
        /\ AddTo(top, InheritedBy(top), available, <<>>)
     \/ /\ top = Top
        /\ AddTo(m, {Top}, Record(available, Top, FPManager, m),
                 <<NewPass(FPManager, ManagerUsage, Top)>>)
  /\ UNCHANGED <<lastUses, at, count>>

Schedule == Skip \/ ScheduleRequired \/ Recheck
            \/ AssignModulePass \/ AssignFunctionPass
-----------------------------------------------------------------------------
(* Running: the passes of the module pass manager in turn, and where one is  *)
(* a function pass manager, for each function all of its passes in turn.     *)
PassAfter(m, p) ==
  LET rest == {q \in 1..Len(passes) : q > p /\ passes[q].manager = m} IN
  IF rest = {} THEN NoPass ELSE CHOOSE q \in rest : \A r \in rest : q <= r

(* PassManagerImpl::run, with initializeAllAnalysisInfo.                     *)
StartRun ==
  /\ phase = "building" /\ frames = <<>> /\ count.runs < MaxRuns
  /\ phase' = "running"
  /\ \E n \in 0..MaxFunctions :
       count' = [count EXCEPT !.runs = @ + 1, !.functions = n]
  /\ available' = {} /\ inherited' = {}
  /\ lastUses' = lastUses \cup {<<lastUser[p], p>> : p \in DOMAIN lastUser}
  /\ at' = [pass |-> PassAfter(Top, NoPass), function |-> 0]
  /\ UNCHANGED <<plan, impls, result>>

(* initializeAnalysisImpl: the first implementation found is kept.           *)
Implementations(p) ==
  LET Found(id) == FindFrom(available, passes[p].manager, id)
      ids == {id \in ToSet(passes[p].use.requires) : Found(id) # NoPass}
  IN [id \in ids \cup DOMAIN impls[p] |->
        IF id \in DOMAIN impls[p] THEN impls[p][id] ELSE Found(id)]

LastUsesOf(p) == {q \in 1..Len(passes) : <<p, q>> \in lastUses}

(* Mutant: the last user is taken for the only one. *)
FreeNotOwn(p, m, av, held) ==
  /\ result' = [q \in DOMAIN held |->
                  IF q \in LastUsesOf(p) \ {p} THEN NoResult ELSE held[q]]
  /\ available' = {e \in av : e.in # m \/
                     e.id \notin {passes[q].id : q \in LastUsesOf(p) \ {p}}}

(* removeDeadPasses and freePass: what p was the last to use is released.    *)
FreeDead(p, m, av, held) ==
  /\ result' = [q \in DOMAIN held |->
                  IF q \in LastUsesOf(p) THEN NoResult ELSE held[q]]
  /\ available' = {e \in av : e.in # m \/
                     e.id \notin {passes[q].id : q \in LastUsesOf(p)}}

(* A pass runs, on the module or on a function, and spoils the results that  *)
(* it does not claim to preserve.                                            *)
RunPass(p, function) ==
  LET u == passes[p].use
      m == passes[p].manager
      held == [q \in DOMAIN result |->
                 IF q = p THEN [of |-> function, fresh |-> TRUE]
                 ELSE IF u.all \/ passes[q].id \in u.preserves THEN result[q]
                 ELSE [result[q] EXCEPT !.fresh = FALSE]]
  IN /\ impls' = [impls EXCEPT ![p] = Implementations(p)]
     /\ FreeDead(p, m, Record(RemoveNotPreserved(available, m, InheritedBy(m), u),
                              m, passes[p].id, p), held)

Running(p) == phase = "running" /\ at.pass = p /\ p # NoPass

(* One turn of the loop of MPPassManager::runOnModule.                       *)
RunModulePass(p) ==
  /\ Running(p) /\ passes[p].manager = Top /\ ~IsManager(p)
  /\ RunPass(p, 0)
  /\ at' = [at EXCEPT !.pass = PassAfter(Top, p)]
  /\ UNCHANGED <<phase, plan, inherited, lastUses, count>>

(* One turn of the loop of FPPassManager::runOnFunction.                     *)
RunFunctionPass(p) ==
  LET m == passes[p].manager IN
  /\ Running(p) /\ m # Top
  /\ RunPass(p, at.function)
  /\ at' = [at EXCEPT !.pass = IF PassAfter(m, p) = NoPass THEN m
                               ELSE PassAfter(m, p)]
  /\ UNCHANGED <<phase, plan, inherited, lastUses, count>>

(* FPPassManager::runOnModule turns to the next function.                    *)
NextFunction(m) ==
  /\ Running(m) /\ IsManager(m) /\ at.function < count.functions
  /\ inherited' = inherited \cup {m}
  /\ at' = [pass |-> PassAfter(m, NoPass), function |-> at.function + 1]
  /\ UNCHANGED <<phase, plan, available, lastUses, impls, result, count>>

(* It has run on all: the rest of its turn in MPPassManager::runOnModule.    *)
FinishFunctions(m) ==
  /\ Running(m) /\ IsManager(m) /\ at.function = count.functions
  /\ FreeDead(m, Top, Record(available, Top, FPManager, m), result)
  /\ at' = [pass |-> PassAfter(Top, m), function |-> 0]
  /\ UNCHANGED <<phase, plan, inherited, lastUses, impls, count>>

EndRun ==
  /\ phase = "running" /\ at.pass = NoPass
  /\ phase' = "building"
  /\ UNCHANGED <<plan, available, inherited, lastUses, impls, result, at, count>>

Run == \/ EndRun
       \/ \E p \in 1..Len(passes) :
            \/ RunModulePass(p) \/ RunFunctionPass(p)
            \/ NextFunction(p) \/ FinishFunctions(p)

Next == \/ \E a \in Analyses : AddAnalysis(a)
        \/ \E u \in ClientUsages : AddClientPass(u)
        \/ Schedule \/ StartRun \/ Run

Spec == Init /\ [][Next]_vars

(* The client's thread goes on: weak fairness of Schedule and of Run. Where a *)
(* pass is assigned or run the formula names the states in which that is     *)
(* enabled, which TLC is slow to find out by itself.                         *)
AssignsOrRuns == Schedulable \/ phase = "running"
FairSpec == /\ Spec /\ WF_vars(Skip \/ ScheduleRequired \/ Recheck)
            /\ []<>~AssignsOrRuns \/ []<><<AssignsOrRuns>>_vars
-----------------------------------------------------------------------------
Ids == Analyses \cup 1..MaxAdds \cup {FPManager}

TypeOK ==
  /\ phase \in {"building", "running", "unable"}
  /\ \A p \in 1..Len(passes) :
       /\ passes[p].id \in Ids /\ passes[p].manager \in 0..Len(passes)
       /\ DOMAIN impls[p] \subseteq Analyses
       /\ result[p].of \in -1..MaxFunctions
  /\ top = Top \/ IsManager(top)
  /\ \A e \in available :
       /\ e.in = Top \/ IsManager(e.in)
       /\ passes[e.pass].id = e.id /\ passes[e.pass].manager = e.in
  /\ inherited \subseteq {p \in 1..Len(passes) : IsManager(p)}
  /\ DOMAIN lastUser = {p \in 1..Len(passes) : ~IsManager(p)}

IsHeldFor(q, function) ==
  result[q].of = IF passes[q].use.level = "module" THEN 0 ELSE function

IsReadyFor(id, p) ==
  /\ id \in DOMAIN Implementations(p)
  /\ IsHeldFor(Implementations(p)[id], at.function)
  /\ result[Implementations(p)[id]].fresh
KeptBy(id, m) ==
  \A q \in 1..Len(passes) : passes[q].manager = m =>
    passes[q].use.all \/ id \in passes[q].use.preserves

(* id was scheduled again while pass q still had a user to come. Where id is *)
(* that of q, freePass will take the new pass out of the map with q; where q *)
(* relies on id, it is the new one that setLastUser keeps.                   *)
Renewed(q, id) ==
  \E r \in DOMAIN lastUser : q < r /\ r <= lastUser[q] /\ passes[r].id = id
Outlived ==
  {id \in Analyses : \E q \in DOMAIN lastUser : passes[q].id = id /\ Renewed(q, id)}

(* "All Required analyses should be available to the pass as it runs": when  *)
(* a pass runs, whatever it requires is connected to it and holds a result   *)
(* for the function at hand, or the module, that is neither released nor     *)
(* made out of date by a pass in between. Excepted is what has been Outlived *)
(* and, from the second function on, a pass of the module that function      *)
(* passes of the same manager do not preserve: there the code fails          *)
(* (freePass, AllRequiredAreReady). The maps are well formed throughout.     *)
RequiredAreReady ==
  TypeOK /\ \A p \in 1..Len(passes) : Running(p) =>
    \A id \in ToSet(passes[p].use.requires) \ Outlived :
      \/ IsReadyFor(id, p)
      \/ /\ Usage[id].level = "module" /\ at.function > 1
         /\ ~KeptBy(id, passes[p].manager)

AllRequiredAreReady ==
  \A p \in 1..Len(passes) : Running(p) =>
    \A id \in ToSet(passes[p].use.requires) : IsReadyFor(id, p)

(* The passes that p uses while it runs, and those that q goes on to use.    *)
UsedBy(p) ==
  LET ids == ToSet(passes[p].use.requires) \cap DOMAIN Implementations(p)
  IN {Implementations(p)[id] : id \in ids \ Outlived}
ReliesOn(q) ==
  LET ids == ToSet(passes[q].use.transitive) \cap DOMAIN impls[q]
  IN {impls[q][id] : id \in {id \in ids \ Outlived : ~Renewed(q, id)}}

(* "The transitively required pass should be alive as long as the requiring  *)
(* pass is": while a pass runs, not only what it uses is held, for the       *)
(* function at hand or the module, but whatever that requires transitively,  *)
(* through any number of others (setLastUser). Excepted is what has been     *)
(* Outlived, or Renewed while that was kept.                                 *)
AliveWhenUsed ==
  \A p \in 1..Len(passes) : Running(p) =>
    \E qs \in SUBSET {q \in 1..Len(passes) : IsHeldFor(q, at.function)} :
      UsedBy(p) \subseteq qs /\ \A q \in qs : ReliesOn(q) \subseteq qs

(* Every result is released: none is left when the passes have run, and none *)
(* of another function is held by a pass that runs (the tests count).        *)
NothingIsLeaked ==
  \A p \in 1..Len(passes) :
    result[p] # NoResult => phase = "running" /\ at.pass # p

(* "Each pass must be run exactly once, since nothing invalidates them": up  *)
(* to the first run, an analysis is only scheduled again in a manager when a *)
(* pass in between does not preserve it (findAnalysisPass, the maps).        *)
NoWorkIsRepeated ==
  count.runs = 0 =>
    \A p, q \in 1..Len(passes) :
      /\ p < q /\ passes[p].id = passes[q].id
      /\ passes[p].id \in Analyses \ Transforms
      /\ passes[p].manager = passes[q].manager
      => \E r \in p+1..q-1 : ~passes[r].use.all
                             /\ passes[p].id \notin passes[r].use.preserves

(* Adding a pass comes to an end, although required analyses are looked at   *)
(* again whenever the manager may have changed, and so does a run.           *)
CallsReturn == /\ frames # <<>> ~> frames = <<>>
               /\ phase = "running" ~> phase # "running"
=============================================================================
