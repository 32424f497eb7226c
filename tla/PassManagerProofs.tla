-------------------------- MODULE PassManagerProofs --------------------------
(* Proofs about the pass manager, for any analyses, any usages and any number *)
(* of passes, runs and functions: its maps are well formed, no work is        *)
(* repeated, every result is released, what a pass requires is ready, and     *)
(* what that relies on is alive.                                              *)
EXTENDS PassManager, SequenceTheorems, FiniteSetTheorems, WellFoundedInduction,
        TLAPS

Made == 1..Len(passes)
Id(p) == passes[p].id
Manager(p) == passes[p].manager
Keeps(p, id) == passes[p].use.all \/ id \in passes[p].use.preserves

(* What a pass with an identity says of itself. *)
Declared(id, u) ==
  IF id \in Analyses THEN u = Usage[id]
  ELSE IF id = FPManager THEN u = ManagerUsage ELSE u \in ClientUsages

PassType ==
  {p \in [id : Ids, use : AnalysisUsages, manager : Nat] : Declared(p.id, p.use)}
FrameType ==
  {f \in [id : Analyses \cup 1..MaxAdds, use : AnalysisUsages, next : Nat \ {0},
          again : BOOLEAN] : Declared(f.id, f.use)}
EntryType == [in : Nat, id : Ids, pass : Nat \ {0}]
ImplsType == UNION {[ids -> Nat \ {0}] : ids \in SUBSET Analyses}
ResultType == [of : -1..MaxFunctions, fresh : BOOLEAN]

Types ==
  /\ phase \in {"building", "running", "unable"}
  /\ passes \in Seq(PassType) /\ top \in {Top} \cup Made
  /\ frames \in Seq(FrameType) /\ (phase # "building" => frames = <<>>)
  /\ available \subseteq EntryType /\ inherited \subseteq Made
  /\ DOMAIN lastUser = {p \in Made : ~IsManager(p)}
  /\ impls \in Seq(ImplsType) /\ Len(impls) = Len(passes)
  /\ result \in Seq(ResultType) /\ Len(result) = Len(passes)
  /\ at \in [pass : {NoPass} \cup Made, function : 0..MaxFunctions]
  /\ count \in [adds : 0..MaxAdds, runs : 0..MaxRuns, functions : 0..MaxFunctions]

(* Managers are passes of Top, none is empty, and the passes of one follow it *)
(* without a gap; the one on top of the stack is the last.                    *)
Nesting ==
  /\ \A p \in Made : IsManager(p) =>
       p + 1 \in Made /\ Manager(p) = Top /\ Manager(p + 1) = p
  /\ \A p \in Made : IF Manager(p) = Top THEN passes[p].use.level = "module"
       ELSE /\ Manager(p) \in 1..(p - 1) /\ IsManager(Manager(p))
            /\ passes[p].use.level = "function"
            /\ \A q \in Manager(p) + 1..p : Manager(q) = Manager(p)
  /\ top # Top => IsManager(top) /\ \A p \in Made : p > top => Manager(p) = top
  /\ \A m \in inherited : IsManager(m)

(* Where the pass is that runs next, and on which function. *)
Position ==
  phase = "running" /\ at.pass # NoPass =>
    /\ at.function <= count.functions
    /\ ~IsManager(at.pass) => (Manager(at.pass) = Top <=> at.function = 0)

(* An entry is of a pass of its manager, and of one only. *)
WellFormed(av, ps) ==
  /\ \A e \in av : /\ e.pass \in 1..Len(ps)
                   /\ ps[e.pass].id = e.id /\ ps[e.pass].manager = e.in
  /\ \A e, d \in av : e.in = d.in /\ e.id = d.id => e = d
Entries == WellFormed(available, passes)

Structure == Types /\ Nesting /\ Position /\ Entries
-----------------------------------------------------------------------------
(* A set of naturals that is not empty has a least member. *)
LEMMA LeastNat ==
  ASSUME NEW T \in SUBSET Nat, T # {}
  PROVE  \E x \in T : \A y \in T : x <= y
<1>1. PICK x \in T : \A y \in T : ~(<<y, x>> \in OpToRel(<, Nat))
  BY NatLessThanWellFounded, WFMin
<1>2. \A y \in T : ~(y < x)
  BY <1>1 DEF OpToRel
<1> QED
  BY <1>2

(* What the two lookups find: an entry of the analysis, in the manager's own  *)
(* map or otherwise in that of the first manager that has one.                *)
LEMMA FindPassFacts ==
  ASSUME NEW av \in SUBSET EntryType, NEW id
  PROVE  \/ FindPass(av, id) = NoPass /\ \A e \in av : e.id # id
         \/ \E e \in av : /\ e.id = id /\ e.pass = FindPass(av, id)
                          /\ \A d \in av : d.id = id => e.in <= d.in
<1> DEFINE found == {e \in av : e.id = id}
<1>1. CASE found = {}
  BY <1>1 DEF FindPass
<1>2. CASE found # {}
  <2>1. {d.in : d \in found} \in SUBSET Nat /\ {d.in : d \in found} # {}
    BY <1>2 DEF EntryType
  <2>2. \E e \in found : \A d \in found : e.in <= d.in
    <3> HIDE DEF found
    <3>1. PICK x \in {d.in : d \in found} : \A y \in {d.in : d \in found} : x <= y
      BY <2>1, LeastNat
    <3> QED
      BY <3>1
  <2> DEFINE e == CHOOSE e \in found : \A d \in found : e.in <= d.in
  <2>3. e \in found /\ \A d \in found : e.in <= d.in
    BY <2>2
  <2>4. FindPass(av, id) = e.pass
    BY <1>2 DEF FindPass
  <2> HIDE DEF e
  <2> QED
    BY <2>3, <2>4
<1> QED
  BY <1>1, <1>2

LEMMA FindFromFacts ==
  ASSUME NEW av \in SUBSET EntryType, NEW m, NEW id
  PROVE  \/ FindFrom(av, m, id) = NoPass /\ \A e \in av : e.id # id
         \/ \E e \in av : e.id = id /\ e.in = m /\ e.pass = FindFrom(av, m, id)
         \/ /\ \A e \in av : e.id = id => e.in # m
            /\ \E e \in av : /\ e.id = id /\ e.pass = FindFrom(av, m, id)
                             /\ \A d \in av : d.id = id => e.in <= d.in
<1> DEFINE own == {e \in av : e.in = m /\ e.id = id}
<1>1. CASE own = {}
  BY <1>1, FindPassFacts DEF FindFrom
<1>2. CASE own # {}
  <2> DEFINE e == CHOOSE e \in own : TRUE
  <2>1. e \in own
    BY <1>2
  <2>2. FindFrom(av, m, id) = e.pass
    BY <1>2 DEF FindFrom
  <2> HIDE DEF e
  <2> QED
    BY <2>1, <2>2
<1> QED
  BY <1>1, <1>2

(* The next pass of a manager. *)
LEMMA PassAfterFacts ==
  ASSUME NEW m, NEW p \in Nat, passes \in Seq(PassType)
  PROVE  \/ /\ PassAfter(m, p) = NoPass
            /\ \A q \in Made : Manager(q) = m => q <= p
         \/ /\ PassAfter(m, p) \in Made /\ PassAfter(m, p) > p
            /\ Manager(PassAfter(m, p)) = m
            /\ \A q \in Made : Manager(q) = m /\ q > p => PassAfter(m, p) <= q
<1> DEFINE rest == {q \in Made : q > p /\ Manager(q) = m}
<1>0. PassAfter(m, p) = IF rest = {} THEN NoPass
                        ELSE CHOOSE q \in rest : \A r \in rest : q <= r
  BY DEF PassAfter, Made, Manager
<1>1. CASE rest = {}
  BY <1>0, <1>1 DEF Made
<1>2. CASE rest # {}
  <2>0. rest \in SUBSET Nat
    BY DEF Made
  <2>1. \E q \in rest : \A r \in rest : q <= r
    <3> HIDE DEF rest
    <3> QED
      BY <1>2, <2>0, LeastNat
  <2> DEFINE q == CHOOSE q \in rest : \A r \in rest : q <= r
  <2>2. q \in rest /\ \A r \in rest : q <= r
    BY <2>1
  <2>3. PassAfter(m, p) = q
    BY <1>0, <1>2
  <2> HIDE DEF q
  <2> QED
    BY <2>2, <2>3
<1> QED
  BY <1>1, <1>2

(* What is declared of the analyses and of the passes of clients. *)
LEMMA Declarations ==
  /\ \A a \in Analyses : Usage[a] \in AnalysisUsages /\ Declared(a, Usage[a])
  /\ \A n \in 1..MaxAdds, u \in ClientUsages :
       u \in AnalysisUsages /\ Declared(n, u)
  /\ \A n \in 1..MaxAdds : n # FPManager /\ n \notin Analyses
  /\ FPManager \notin Analyses /\ MaxAdds \in Nat /\ MaxRuns \in Nat
  /\ MaxFunctions \in Nat
BY UsageAssumption DEF Declared

LEMMA FrontAndLast ==
  ASSUME NEW S, NEW s \in Seq(S), s # <<>>
  PROVE  Last(s) \in S /\ Front(s) \in Seq(S) /\ Len(s) \in Nat \ {0}
<1>1. Len(s) \in Nat \ {0}
  OBVIOUS
<1> QED
  BY <1>1, SubSeqProperties DEF Last, Front
-----------------------------------------------------------------------------
(* The steps by which a pass is added, up to its assignment to a manager,    *)
(* only move the activations of schedulePass.                                *)
Moves == \/ \E a \in Analyses : AddAnalysis(a)
         \/ \E u \in ClientUsages : AddClientPass(u)
         \/ Skip \/ ScheduleRequired \/ Recheck

LEMMA FrameUpdate ==
  ASSUME NEW f \in FrameType, NEW i \in Nat \ {0}, NEW b \in BOOLEAN
  PROVE  [f EXCEPT !.next = i, !.again = b] \in FrameType
<1> DEFINE g == [f EXCEPT !.next = i, !.again = b]
<1>1. /\ g \in [id : Analyses \cup 1..MaxAdds, use : AnalysisUsages,
                next : Nat \ {0}, again : BOOLEAN]
      /\ g.id = f.id /\ g.use = f.use
  BY DEF FrameType
<1> HIDE DEF g
<1>2. g \in FrameType
  BY <1>1 DEF FrameType
<1> QED
  BY <1>2 DEF g

LEMMA MoveFacts ==
  ASSUME Types, Moves
  PROVE  /\ UNCHANGED <<phase, passes, top, available, inherited, lastUser,
                        lastUses, impls, result, at>>
         /\ phase = "building" /\ frames' \in Seq(FrameType)
         /\ count' \in [adds : 0..MaxAdds, runs : 0..MaxRuns,
                        functions : 0..MaxFunctions]
         /\ count'.runs = count.runs /\ count'.functions = count.functions
<1>1. ASSUME NEW id \in Analyses \cup 1..MaxAdds, NEW u, Add(id, u),
             u \in AnalysisUsages, Declared(id, u)
      PROVE  frames' \in Seq(FrameType)
  BY <1>1 DEF Add, Frame, FrameType
<1>2. ASSUME frames # <<>>
      PROVE  /\ Current \in FrameType /\ Front(frames) \in Seq(FrameType)
             /\ phase = "building"
  BY <1>2, FrontAndLast DEF Types, Current
<1>3. ASSUME NEW a \in Analyses, AddAnalysis(a)
      PROVE  frames' \in Seq(FrameType)
  BY <1>1, <1>3, Declarations DEF AddAnalysis
<1>4. ASSUME NEW u \in ClientUsages, AddClientPass(u)
      PROVE  frames' \in Seq(FrameType)
  <2>1. count.adds + 1 \in 1..MaxAdds
    BY <1>4, Declarations DEF AddClientPass, Add, Types
  <2> QED
    BY <1>1, <1>4, <2>1, Declarations DEF AddClientPass
<1>5. ASSUME Skip PROVE frames' \in Seq(FrameType)
  BY <1>2, <1>5 DEF Skip
<1>6. ASSUME ScheduleRequired PROVE frames' \in Seq(FrameType)
  <2> DEFINE i == NextMissing(Current)  a == Current.use.requires[i]
             caller == [Current EXCEPT !.next = i + 1,
                          !.again = @ \/ Current.use.level # Usage[a].level]
  <2>1. /\ Current \in FrameType /\ Front(frames) \in Seq(FrameType)
        /\ frames' = Append(Front(frames) \o <<caller>>, Frame(a, Usage[a]))
        /\ MissingFrom(Current) # {}
    BY <1>2, <1>6 DEF ScheduleRequired
  <2>2. MissingFrom(Current) \in SUBSET Nat
    BY <2>1 DEF MissingFrom, FrameType
  <2>3. i \in MissingFrom(Current)
    BY <2>1, <2>2, LeastNat DEF NextMissing
  <2>4. i \in Nat \ {0} /\ a \in Analyses
    BY <2>1, <2>3 DEF MissingFrom, FrameType, AnalysisUsages
  <2>5. caller \in FrameType
    <3>1. (Current.again \/ Current.use.level # Usage[a].level) \in BOOLEAN
      BY <2>1 DEF FrameType
    <3>2. i + 1 \in Nat \ {0}
      BY <2>4
    <3> HIDE DEF i, a
    <3> QED
      BY <2>1, <3>1, <3>2, FrameUpdate
  <2>6. Frame(a, Usage[a]) \in FrameType
    BY <2>4, Declarations DEF FrameType, Frame
  <2> HIDE DEF i, a, caller
  <2> QED
    BY <2>1, <2>5, <2>6
<1>7. ASSUME Recheck PROVE frames' \in Seq(FrameType)
  <2>1. Current \in FrameType
    BY <1>2, <1>7 DEF Recheck
  <2>2. [Current EXCEPT !.next = 1, !.again = FALSE] \in FrameType
    <3>1. 1 \in Nat \ {0} /\ FALSE \in BOOLEAN
      OBVIOUS
    <3> QED
      BY <2>1, <3>1, FrameUpdate, Zenon
  <2> QED
    BY <1>2, <1>7, <2>2 DEF Recheck
<1>8. frames' \in Seq(FrameType)
  BY <1>3, <1>4, <1>5, <1>6, <1>7 DEF Moves
<1>9. /\ UNCHANGED <<phase, passes, top, available, inherited, lastUser,
                     lastUses, impls, result, at>>
      /\ count' = count \/ (phase = "building" /\ count.adds < MaxAdds
                            /\ count' = [count EXCEPT !.adds = @ + 1])
  BY DEF Moves, AddAnalysis, AddClientPass, Add, Skip, ScheduleRequired, Recheck
<1>10. phase = "building"
  BY <1>2 DEF Moves, AddAnalysis, AddClientPass, Add, Skip, ScheduleRequired, Recheck
<1> QED
  BY <1>8, <1>9, <1>10, Declarations DEF Types
-----------------------------------------------------------------------------
(* An assignment to manager m, which inherits from ms, with the maps av, made *)
(* the function pass manager that it takes; or a requirement is not there.   *)
Required(av, m) ==
  {FindFrom(av, m, id) :
     id \in ToSet(Current.use.requires) \cup ToSet(Current.use.transitive)}

Assigns(m, ms, av, made) ==
  /\ Schedulable /\ NoPass \notin Required(av, m) /\ ~Dangles(av, Required(av, m))
  /\ AddTo(m, ms, av, made) /\ UNCHANGED <<lastUses, at, count>>
  /\ \/ /\ Current.use.level = "module" /\ m = Top /\ ms = {} /\ made = <<>>
        /\ av = IF top = Top THEN available ELSE Forget(available, top)
     \/ /\ Current.use.level = "function" /\ m = top /\ top # Top
        /\ ms = InheritedBy(top) /\ made = <<>> /\ av = available
     \/ /\ Current.use.level = "function" /\ top = Top /\ m = Len(passes) + 1
        /\ ms = {Top} /\ made = <<NewPass(FPManager, ManagerUsage, Top)>>
        /\ av = Record(available, Top, FPManager, m)

Fails ==
  /\ Schedulable /\ phase' = "unable" /\ frames' = <<>>
  /\ UNCHANGED <<passes, top, available, inherited, lastUser, lastUses, impls,
                 result, at, count>>

LEMMA AssignCases ==
  ASSUME Types, AssignModulePass \/ AssignFunctionPass
  PROVE  Fails \/ \E m, ms, av, made : Assigns(m, ms, av, made)
<1>1. ASSUME NEW m, NEW ms, NEW av, NEW made, AddTo(m, ms, av, made),
             UNCHANGED <<lastUses, at, count>>, Schedulable
      PROVE  NoPass \in Required(av, m) \/ Dangles(av, Required(av, m)) => Fails
  BY <1>1 DEF AddTo, Required, Fails
<1>2. ASSUME AssignModulePass
      PROVE  Fails \/ Assigns(Top, {}, IF top = Top THEN available
                                       ELSE Forget(available, top), <<>>)
  BY <1>1, <1>2 DEF AssignModulePass, Assigns
<1>3. ASSUME AssignFunctionPass, top # Top
      PROVE  Fails \/ Assigns(top, InheritedBy(top), available, <<>>)
  BY <1>1, <1>3 DEF AssignFunctionPass, Assigns
<1>4. ASSUME AssignFunctionPass, top = Top
      PROVE  Fails \/ Assigns(Len(passes) + 1, {Top},
                        Record(available, Top, FPManager, Len(passes) + 1),
                        <<NewPass(FPManager, ManagerUsage, Top)>>)
  BY <1>1, <1>4 DEF AssignFunctionPass, Assigns
<1> QED
  BY <1>2, <1>3, <1>4

LEMMA AppendedFacts ==
  ASSUME NEW S, NEW s \in Seq(S), NEW e \in S, NEW d \in S
  PROVE  /\ s \o <<>> \o <<e>> \in Seq(S) /\ Len(s \o <<>> \o <<e>>) = Len(s) + 1
         /\ \A i \in 1..Len(s) : (s \o <<>> \o <<e>>)[i] = s[i]
         /\ (s \o <<>> \o <<e>>)[Len(s) + 1] = e
         /\ s \o <<d>> \o <<e>> \in Seq(S) /\ Len(s \o <<d>> \o <<e>>) = Len(s) + 2
         /\ \A i \in 1..Len(s) : (s \o <<d>> \o <<e>>)[i] = s[i]
         /\ (s \o <<d>> \o <<e>>)[Len(s) + 1] = d
         /\ (s \o <<d>> \o <<e>>)[Len(s) + 2] = e
<1>1. /\ s \o <<>> = s /\ s \o <<>> \in Seq(S)
  BY ConcatEmptySeq
<1>2. s \o <<d>> \in Seq(S) /\ Len(s \o <<d>>) = Len(s) + 1
  OBVIOUS
<1>3. \A i \in 1..Len(s) + 1 : (s \o <<d>>)[i] = IF i = Len(s) + 1 THEN d ELSE s[i]
  OBVIOUS
<1>4. ASSUME NEW t \in Seq(S)
      PROVE  /\ t \o <<e>> \in Seq(S) /\ Len(t \o <<e>>) = Len(t) + 1
             /\ \A i \in 1..Len(t) : (t \o <<e>>)[i] = t[i]
             /\ (t \o <<e>>)[Len(t) + 1] = e
  OBVIOUS
<1>5. /\ s \o <<>> \o <<e>> \in Seq(S) /\ Len(s \o <<>> \o <<e>>) = Len(s) + 1
      /\ \A i \in 1..Len(s) : (s \o <<>> \o <<e>>)[i] = s[i]
      /\ (s \o <<>> \o <<e>>)[Len(s) + 1] = e
  BY <1>1, <1>4
<1>6. PICK t \in Seq(S) : t = s \o <<d>>
  BY <1>2
<1>7. /\ t \o <<e>> \in Seq(S) /\ Len(t \o <<e>>) = Len(s) + 2
      /\ \A i \in 1..Len(s) : (t \o <<e>>)[i] = s[i]
      /\ (t \o <<e>>)[Len(s) + 1] = d
      /\ (t \o <<e>>)[Len(s) + 2] = e
  <2>1. /\ Len(s) \in Nat /\ Len(t) = Len(s) + 1 /\ t[Len(s) + 1] = d
        /\ \A i \in 1..Len(s) : t[i] = s[i] /\ i \in 1..Len(t)
        /\ Len(s) + 1 \in 1..Len(t) /\ Len(t) + 1 = Len(s) + 2
    BY <1>2, <1>3, <1>6
  <2> QED
    BY <1>4, <2>1
<1> QED
  BY <1>5, <1>6, <1>7

LEMMA AppendedAll ==
  ASSUME NEW S, NEW s \in Seq(S), NEW e \in S, NEW n \in Nat, NEW t,
         t \in [1..n -> {e}]
  PROVE  /\ s \o t \in Seq(S) /\ Len(s \o t) = Len(s) + n
         /\ \A i \in 1..Len(s) : (s \o t)[i] = s[i]
         /\ \A i \in Len(s) + 1..Len(s) + n : (s \o t)[i] = e
<1>0. t \in Seq(S) /\ Len(t) = n /\ \A i \in 1..n : t[i] = e
  OBVIOUS
<1>1. /\ s \o t \in Seq(S) /\ Len(s \o t) = Len(s) + n /\ Len(s) \in Nat
      /\ \A i \in 1..Len(s) + n :
           (s \o t)[i] = IF i <= Len(s) THEN s[i] ELSE t[i - Len(s)]
  BY <1>0
<1>2. ASSUME NEW i \in 1..Len(s) PROVE (s \o t)[i] = s[i]
  BY <1>1
<1>3. ASSUME NEW i \in Len(s) + 1..Len(s) + n PROVE (s \o t)[i] = e
  <2>1. i \in 1..Len(s) + n /\ ~(i <= Len(s)) /\ i - Len(s) \in 1..n
    BY <1>1
  <2> QED
    BY <1>0, <1>1, <2>1
<1> QED
  BY <1>1, <1>2, <1>3

(* What an assignment does: p is the pass that it makes, last in manager m,  *)
(* which is the one made before it if it is new.                             *)
LEMMA AssignFacts ==
  ASSUME Types, NEW m, NEW ms, NEW av, NEW made, Assigns(m, ms, av, made)
  PROVE  LET n == Len(passes)  p == Len(passes') IN
         /\ phase = "building" /\ UNCHANGED <<phase, lastUses, at, count>>
         /\ Current \in FrameType /\ frames' \in Seq(FrameType) /\ top' = m
         /\ n \in Nat /\ n < p /\ p \in {n + 1, n + 2} /\ m \in 0..p - 1
         /\ p = n + Len(made) + 1
         /\ m = Top \/ m = top \/ (m = n + 1 /\ top = Top)
         /\ m = n + 1 <=> p = n + 2
         /\ passes' \in Seq(PassType) /\ \A q \in Made : passes'[q] = passes[q]
         /\ passes'[p] = NewPass(Current.id, Current.use, m)
         /\ \A q \in 1..p : q \notin Made /\ q # p =>
              q = m /\ q = n + 1 /\ passes'[q] = NewPass(FPManager, ManagerUsage, Top)
         /\ impls' \in Seq(ImplsType) /\ Len(impls') = p
         /\ result' \in Seq(ResultType) /\ Len(result') = p
         /\ \A q \in Made : impls'[q] = impls[q] /\ result'[q] = result[q]
         /\ \A q \in 1..p \ Made : impls'[q] = <<>> /\ result'[q] = NoResult
<1> DEFINE n == Len(passes)  f == NewPass(FPManager, ManagerUsage, Top)
           e == NewPass(Current.id, Current.use, m)
<1>1. /\ Schedulable /\ NoPass \notin Required(av, m) /\ ~Dangles(av, Required(av, m))
      /\ AddTo(m, ms, av, made)
      /\ UNCHANGED <<lastUses, at, count>>
      /\ \/ m = Top /\ made = <<>>
         \/ m = top /\ top # Top /\ made = <<>>
         \/ top = Top /\ m = n + 1 /\ made = <<f>>
  BY DEF Assigns
<1>2. /\ n \in Nat /\ phase = "building" /\ Current \in FrameType
      /\ Front(frames) \in Seq(FrameType)
  <2>1. frames # <<>> /\ frames \in Seq(FrameType) /\ phase = "building"
    BY <1>1 DEF Types, Schedulable
  <2> QED
    BY <2>1, FrontAndLast DEF Types, Current
<1>3. /\ phase' = phase /\ frames' = Front(frames) /\ top' = m
      /\ passes' = passes \o made \o <<e>>
      /\ impls' = impls \o [q \in 1..Len(made) + 1 |-> <<>>]
      /\ result' = result \o [q \in 1..Len(made) + 1 |-> NoResult]
  BY <1>1 DEF AddTo, Required
<1>4. m \in 0..n + 1 /\ top \in 0..n
  BY <1>1, <1>2 DEF Types, Made, Top
<1>5. e \in PassType /\ f \in PassType
  <2>1. ManagerUsage \in AnalysisUsages
    <3>1. <<>> \in Seq(Analyses) /\ {} \in SUBSET Analyses
      OBVIOUS
    <3> QED
      BY <3>1 DEF AnalysisUsages, ManagerUsage
  <2>2. f \in PassType
    BY <2>1, Declarations DEF PassType, NewPass, Declared, Ids, Top
  <2>3. e \in PassType
    BY <1>2, <1>4 DEF PassType, NewPass, FrameType, Ids
  <2> QED
    BY <2>2, <2>3
<1>6. /\ Len(made) \in {0, 1} /\ (Len(made) = 1 <=> m = n + 1)
      /\ made = <<>> \/ made = <<f>>
  <2>1. Len(<<>>) = 0 /\ Len(<<f>>) = 1
    OBVIOUS
  <2> HIDE DEF f, e
  <2>2. CASE made = <<>>
    BY <1>1, <1>2, <1>4, <2>1, <2>2 DEF Top
  <2>3. CASE made = <<f>>
    <3>1. m = n + 1
      BY <1>1, <2>1, <2>3
    <3> QED
      BY <1>2, <2>1, <2>3, <3>1
  <2> QED
    BY <1>1, <2>2, <2>3
<1>7. /\ passes' \in Seq(PassType) /\ Len(passes') = n + Len(made) + 1
      /\ \A q \in Made : passes'[q] = passes[q]
      /\ passes'[n + Len(made) + 1] = e
      /\ made = <<f>> => passes'[n + 1] = f
  <2> HIDE DEF e, f
  <2>1. passes \in Seq(PassType)
    BY DEF Types
  <2>2. CASE made = <<>>
    BY <1>2, <1>3, <1>5, <2>1, <2>2, AppendedFacts DEF Made
  <2>3. CASE made = <<f>>
    BY <1>2, <1>3, <1>5, <2>1, <2>3, AppendedFacts DEF Made
  <2> QED
    BY <1>6, <2>2, <2>3
<1>8. PICK k \in {1, 2} : k = Len(made) + 1 /\ (k = 2 <=> m = n + 1)
  <2>1. CASE Len(made) = 0
    BY <1>6, <2>1
  <2>2. CASE Len(made) = 1
    BY <1>6, <2>2
  <2> QED
    BY <1>6, <2>1, <2>2
<1>10. /\ <<>> \in ImplsType /\ NoResult \in ResultType
  <2>1. <<>> \in [{} -> Nat \ {0}]
    OBVIOUS
  <2>2. <<>> \in ImplsType
    BY <2>1 DEF ImplsType
  <2>3. NoResult \in ResultType
    BY Declarations DEF NoResult, ResultType
  <2> QED
    BY <2>2, <2>3
<1>11. /\ impls \in Seq(ImplsType) /\ Len(impls) = n
       /\ result \in Seq(ResultType) /\ Len(result) = n
  BY DEF Types
<1>12. /\ impls' \in Seq(ImplsType) /\ Len(impls') = n + k
       /\ \A q \in Made : impls'[q] = impls[q]
       /\ \A q \in n + 1..n + k : impls'[q] = <<>>
  <2>1. PICK t \in [1..Len(made) + 1 -> {<<>>}] : impls' = impls \o t
    BY <1>3
  <2>2. t \in [1..k -> {<<>>}] /\ k \in Nat
    BY <1>8, <2>1
  <2>3. /\ impls \o t \in Seq(ImplsType) /\ Len(impls \o t) = n + k
        /\ \A q \in 1..n : (impls \o t)[q] = impls[q]
        /\ \A q \in n + 1..n + k : (impls \o t)[q] = <<>>
    BY <1>10, <1>11, <2>2, AppendedAll
  <2> QED
    BY <2>1, <2>3 DEF Made
<1>13. /\ result' \in Seq(ResultType) /\ Len(result') = n + k
       /\ \A q \in Made : result'[q] = result[q]
       /\ \A q \in n + 1..n + k : result'[q] = NoResult
  <2>1. PICK t \in [1..Len(made) + 1 -> {NoResult}] : result' = result \o t
    BY <1>3
  <2>2. t \in [1..k -> {NoResult}] /\ k \in Nat
    BY <1>8, <2>1
  <2>3. /\ result \o t \in Seq(ResultType) /\ Len(result \o t) = n + k
        /\ \A q \in 1..n : (result \o t)[q] = result[q]
        /\ \A q \in n + 1..n + k : (result \o t)[q] = NoResult
    BY <1>10, <1>11, <2>2, AppendedAll
  <2> QED
    BY <2>1, <2>3 DEF Made
<1> HIDE DEF e, f
<1>14. PICK p : p = Len(passes')
  OBVIOUS
<1>15. /\ p = n + k /\ p = n + Len(made) + 1 /\ (made # <<>> => made = <<f>> /\ k = 2)
  <2>1. made = <<f>> => Len(made) = 1
    OBVIOUS
  <2> QED
    BY <1>2, <1>6, <1>7, <1>8, <1>14, <2>1
<1>16. /\ n < p /\ p \in {n + 1, n + 2} /\ m \in 0..p - 1 /\ (m = n + 1 <=> p = n + 2)
  BY <1>2, <1>4, <1>8, <1>15
<1>17. /\ m = Top \/ m = top \/ (m = n + 1 /\ top = Top)
       /\ \A q \in 1..p : q \notin Made /\ q # p =>
            q = m /\ q = n + 1 /\ passes'[q] = f
  <2>1. made = <<>> => k = 1
    BY <1>8
  <2> QED
    BY <1>1, <1>2, <1>6, <1>7, <1>8, <1>15, <2>1 DEF Made
<1>18. \A q \in 1..p \ Made : q \in n + 1..n + k
  BY <1>2, <1>8, <1>15 DEF Made
<1> QED
  BY <1>1, <1>2, <1>3, <1>7, <1>12, <1>13, <1>14, <1>15, <1>16, <1>17, <1>18 DEF e, f
-----------------------------------------------------------------------------
(* What removing and recording entries leaves. *)
LEMMA RemoveFacts ==
  ASSUME NEW av, NEW m, NEW ms, NEW u
  PROVE  RemoveNotPreserved(av, m, ms, u) \subseteq av /\ Forget(av, m) \subseteq av
BY DEF RemoveNotPreserved, Forget

LEMMA RecordFacts ==
  ASSUME NEW av \in SUBSET EntryType, NEW m \in Nat, NEW id \in Ids,
         NEW p \in Nat \ {0}
  PROVE  /\ Record(av, m, id, p) \subseteq EntryType
         /\ Record(av, m, id, p) \subseteq av \cup {Entry(m, id, p)}
         /\ \A e \in Record(av, m, id, p) :
              e.in = m /\ e.id = id => e = Entry(m, id, p)
         /\ Entry(m, id, p) \in EntryType
         /\ Entry(m, id, p).in = m /\ Entry(m, id, p).id = id
         /\ Entry(m, id, p).pass = p
BY DEF Record, Entry, EntryType

(* A pass runs. *)
Runs(p) ==
  /\ phase = "running" /\ at.pass = p /\ p \in Made /\ ~IsManager(p)
  /\ RunPass(p, at.function) /\ UNCHANGED <<phase, plan, inherited, lastUses, count>>
  /\ at' = [at EXCEPT !.pass =
              IF Manager(p) # Top /\ PassAfter(Manager(p), p) = NoPass
              THEN Manager(p) ELSE PassAfter(Manager(p), p)]

LEMMA RunsCases ==
  ASSUME Structure, NEW p \in Made, RunModulePass(p) \/ RunFunctionPass(p)
  PROVE  Runs(p)
<1>1. phase = "running" /\ at.pass = p /\ p # NoPass
  BY DEF RunModulePass, RunFunctionPass, Running
<1>2. CASE RunModulePass(p)
  <2>1. Manager(p) = Top /\ ~IsManager(p)
    BY <1>2 DEF RunModulePass, Manager
  <2>2. at.function = 0
    BY <1>1, <2>1 DEF Structure, Position
  <2> QED
    BY <1>1, <1>2, <2>1, <2>2 DEF RunModulePass, Runs
<1>3. CASE RunFunctionPass(p)
  <2>1. Manager(p) # Top
    BY <1>3 DEF RunFunctionPass, Manager
  <2>2. ~IsManager(p)
    BY <2>1 DEF Structure, Nesting
  <2> QED
    BY <1>1, <1>3, <2>1, <2>2 DEF RunFunctionPass, Runs, Manager
<1> QED
  BY <1>2, <1>3

LEMMA ImplementationsType ==
  ASSUME Types, NEW p \in Made
  PROVE  /\ Implementations(p) \in ImplsType
         /\ [impls EXCEPT ![p] = Implementations(p)] \in Seq(ImplsType)
         /\ impls[p] \in ImplsType
<1> DEFINE Found(id) == FindFrom(available, passes[p].manager, id)
           ids == {id \in ToSet(passes[p].use.requires) : Found(id) # NoPass}
<1>1. /\ passes[p] \in PassType /\ impls[p] \in ImplsType
      /\ available \in SUBSET EntryType
  BY DEF Types, Made
<1>2. PICK D \in SUBSET Analyses : impls[p] \in [D -> Nat \ {0}]
  BY <1>1 DEF ImplsType
<1>3. ids \subseteq Analyses
  BY <1>1 DEF PassType, AnalysisUsages, ToSet
<1>4. \A id : Found(id) # NoPass => Found(id) \in Nat \ {0}
  BY <1>1, FindFromFacts DEF EntryType
<1>5. Implementations(p) = [id \in ids \cup D |->
                              IF id \in D THEN impls[p][id] ELSE Found(id)]
  BY <1>2 DEF Implementations
<1> HIDE DEF Found
<1>6. Implementations(p) \in [ids \cup D -> Nat \ {0}]
  BY <1>2, <1>4, <1>5
<1>7. Implementations(p) \in ImplsType
  BY <1>2, <1>3, <1>6 DEF ImplsType
<1> QED
  BY <1>1, <1>7 DEF Types, Made

(* What running a pass does. *)
LEMMA RunsFacts ==
  ASSUME Types, NEW p, Runs(p)
  PROVE  LET av == Record(RemoveNotPreserved(available, Manager(p),
                                  InheritedBy(Manager(p)), passes[p].use),
                          Manager(p), Id(p), p) IN
         /\ p \in Made /\ Manager(p) \in Nat /\ Id(p) \in Ids
         /\ impls' = [impls EXCEPT ![p] = Implementations(p)]
         /\ impls' \in Seq(ImplsType) /\ Len(impls') = Len(passes)
         /\ result' \in Seq(ResultType) /\ Len(result') = Len(passes)
         /\ \A q \in Made : result'[q] =
              IF q \in LastUsesOf(p) THEN NoResult
              ELSE IF q = p THEN [of |-> at.function, fresh |-> TRUE]
              ELSE IF Keeps(p, Id(q)) THEN result[q]
              ELSE [result[q] EXCEPT !.fresh = FALSE]
         /\ available' = {e \in av : e.in # Manager(p) \/
                            e.id \notin {Id(q) : q \in LastUsesOf(p)}}
         /\ av \subseteq EntryType /\ available' \subseteq av
         /\ av \subseteq available \cup {Entry(Manager(p), Id(p), p)}
<1> DEFINE u == passes[p].use  m == Manager(p)  function == at.function
           held == [q \in DOMAIN result |->
                     IF q = p THEN [of |-> function, fresh |-> TRUE]
                     ELSE IF u.all \/ passes[q].id \in u.preserves THEN result[q]
                     ELSE [result[q] EXCEPT !.fresh = FALSE]]
           rest == RemoveNotPreserved(available, m, InheritedBy(m), u)
           av == Record(rest, m, Id(p), p)
<1>1. /\ p \in Made /\ passes[p] \in PassType /\ DOMAIN result = Made
      /\ \A q \in Made : result[q] \in ResultType
      /\ function \in 0..MaxFunctions /\ MaxFunctions \in Nat
      /\ available \subseteq EntryType
  BY Declarations DEF Types, Runs, Made
<1>2. /\ impls' = [impls EXCEPT ![p] = Implementations(p)]
      /\ FreeDead(p, m, av, held)
  BY DEF Runs, RunPass, Manager, Id
<1>3. m \in Nat /\ Id(p) \in Ids
  BY <1>1 DEF PassType, Manager, Id
<1>4. impls' \in Seq(ImplsType) /\ Len(impls') = Len(passes)
  BY <1>1, <1>2, ImplementationsType DEF Types
<1>5. DOMAIN held = Made /\ \A q \in Made : held[q] \in ResultType
  <2>1. function \in -1..MaxFunctions
    BY <1>1
  <2>2. [of |-> function, fresh |-> TRUE] \in ResultType
    BY <2>1 DEF ResultType
  <2>3. \A r \in ResultType : [r EXCEPT !.fresh = FALSE] \in ResultType
    BY DEF ResultType
  <2> QED
    BY <1>1, <2>2, <2>3
<1>6. /\ result' = [q \in Made |-> IF q \in LastUsesOf(p) THEN NoResult ELSE held[q]]
      /\ available' = {e \in av : e.in # m \/ e.id \notin {Id(q) : q \in LastUsesOf(p)}}
  <2> HIDE DEF held, av, m
  <2> QED
    BY <1>2, <1>5 DEF FreeDead, Id
<1>7. NoResult \in ResultType
  BY <1>1 DEF NoResult, ResultType
<1>8. result' \in Seq(ResultType) /\ Len(result') = Len(passes)
  <2> HIDE DEF held
  <2>1. result' \in [1..Len(passes) -> ResultType] /\ Len(passes) \in Nat
    BY <1>5, <1>6, <1>7 DEF Made, Types
  <2> QED
    BY <2>1
<1>9. \A q \in Made : result'[q] =
        IF q \in LastUsesOf(p) THEN NoResult
        ELSE IF q = p THEN [of |-> at.function, fresh |-> TRUE]
        ELSE IF Keeps(p, Id(q)) THEN result[q]
        ELSE [result[q] EXCEPT !.fresh = FALSE]
  BY <1>1, <1>6 DEF Keeps, Id
<1>10. /\ av \subseteq EntryType
       /\ av \subseteq available \cup {Entry(m, Id(p), p)}
  <2>1. rest \in SUBSET EntryType /\ rest \subseteq available /\ p \in Nat \ {0}
    BY <1>1, <1>3, RemoveFacts DEF Made
  <2> HIDE DEF rest, m
  <2> QED
    BY <1>3, <2>1, RecordFacts
<1> HIDE DEF held
<1> QED
  BY <1>1, <1>2, <1>3, <1>4, <1>6, <1>8, <1>9, <1>10

(* The turn of a function pass manager ends. *)
LEMMA FinishFacts ==
  ASSUME Types, NEW m \in Made, FinishFunctions(m)
  PROVE  LET av == Record(available, Top, FPManager, m) IN
         /\ phase = "running" /\ at.pass = m /\ IsManager(m)
         /\ at' = [pass |-> PassAfter(Top, m), function |-> 0]
         /\ UNCHANGED <<phase, plan, inherited, lastUses, impls, count>>
         /\ result' \in Seq(ResultType) /\ Len(result') = Len(passes)
         /\ \A q \in Made :
              result'[q] = IF q \in LastUsesOf(m) THEN NoResult ELSE result[q]
         /\ available' = {e \in av : e.in # Top \/
                            e.id \notin {Id(q) : q \in LastUsesOf(m)}}
         /\ av \subseteq EntryType /\ available' \subseteq av
         /\ av \subseteq available \cup {Entry(Top, FPManager, m)}
<1> DEFINE av == Record(available, Top, FPManager, m)
<1>1. /\ Running(m) /\ IsManager(m)
      /\ at' = [pass |-> PassAfter(Top, m), function |-> 0]
      /\ UNCHANGED <<phase, plan, inherited, lastUses, impls, count>>
      /\ FreeDead(m, Top, av, result)
  BY DEF FinishFunctions
<1>2. /\ DOMAIN result = Made /\ Len(passes) \in Nat
      /\ \A q \in Made : result[q] \in ResultType
      /\ available \in SUBSET EntryType /\ MaxFunctions \in Nat
  BY Declarations DEF Types, Made
<1>3. /\ result' = [q \in Made |-> IF q \in LastUsesOf(m) THEN NoResult ELSE result[q]]
      /\ available' = {e \in av : e.in # Top \/
                         e.id \notin {Id(q) : q \in LastUsesOf(m)}}
  BY <1>1, <1>2 DEF FreeDead, Id
<1>4. NoResult \in ResultType
  BY <1>2 DEF NoResult, ResultType
<1>5. result' \in [1..Len(passes) -> ResultType]
  BY <1>2, <1>3, <1>4 DEF Made
<1>6. result' \in Seq(ResultType) /\ Len(result') = Len(passes)
  BY <1>2, <1>5
<1>7. /\ av \subseteq EntryType
      /\ av \subseteq available \cup {Entry(Top, FPManager, m)}
  <2>1. Top \in Nat /\ FPManager \in Ids /\ m \in Nat \ {0}
    BY DEF Top, Ids, Made
  <2> QED
    BY <1>2, <2>1, RecordFacts
<1> HIDE DEF av
<1> QED
  BY <1>1, <1>3, <1>6, <1>7 DEF av, Running

LEMMA WellFormedFacts ==
  ASSUME NEW ps, NEW av \in SUBSET EntryType, WellFormed(av, ps)
  PROVE  /\ \A bv \in SUBSET av : WellFormed(bv, ps)
         /\ \A p \in Nat \ {0}, m \in Nat, id \in Ids :
              p \in 1..Len(ps) /\ ps[p].manager = m /\ ps[p].id = id =>
                WellFormed(Record(av, m, id, p), ps)
<1>1. \A bv \in SUBSET av : WellFormed(bv, ps)
  BY DEF WellFormed
<1>2. ASSUME NEW p \in Nat \ {0}, NEW m \in Nat, NEW id \in Ids,
             p \in 1..Len(ps), ps[p].manager = m, ps[p].id = id
      PROVE  WellFormed(Record(av, m, id, p), ps)
  <2> DEFINE rv == Record(av, m, id, p)  e == Entry(m, id, p)
  <2>1. /\ rv \subseteq av \cup {e} /\ e.in = m /\ e.id = id /\ e.pass = p
        /\ \A d \in rv : d.in = m /\ d.id = id => d = e
    BY RecordFacts
  <2> HIDE DEF rv, e
  <2>2. WellFormed(rv, ps)
    BY <1>2, <2>1 DEF WellFormed
  <2> QED
    BY <2>2 DEF rv
<1> QED
  BY <1>1, <1>2
-----------------------------------------------------------------------------
(* The kinds of steps there are. *)
Steps ==
  \/ Moves \/ Fails \/ \E m, ms, av, made : Assigns(m, ms, av, made)
  \/ StartRun \/ EndRun \/ UNCHANGED vars
  \/ \E p \in Made : Runs(p) \/ NextFunction(p) \/ FinishFunctions(p)

LEMMA StepCases ==
  ASSUME Structure, [Next]_vars
  PROVE  Steps
<1>1. CASE Schedule
  BY <1>1, AssignCases DEF Schedule, Steps, Moves, Structure
<1>2. CASE Run
  BY <1>2, RunsCases DEF Run, Steps, Made
<1> QED
  BY <1>1, <1>2 DEF Next, Steps, Moves

LEMMA StructureInit == Init => Structure
<1> SUFFICES ASSUME Init PROVE Structure
  OBVIOUS
<1>1. Made = {}
  BY DEF Init, Made
<1>2. Types
  BY <1>1, Declarations DEF Init, Types, NoPass, Nowhere
<1> QED
  BY <1>1, <1>2 DEF Init, Structure, Nesting, Position, Entries, WellFormed

LEMMA StructureMoves ==
  ASSUME Structure, Moves
  PROVE  Structure'
<1>1. /\ UNCHANGED <<phase, passes, top, available, inherited, lastUser,
                     lastUses, impls, result, at>>
      /\ phase = "building" /\ frames' \in Seq(FrameType)
      /\ count' \in [adds : 0..MaxAdds, runs : 0..MaxRuns,
                     functions : 0..MaxFunctions]
      /\ count'.functions = count.functions
  BY MoveFacts DEF Structure
<1>2. Types'
  BY <1>1 DEF Structure, Types, Made, IsManager
<1> QED
  BY <1>1, <1>2
     DEF Structure, Nesting, Position, Entries, Made, IsManager, Manager

LEMMA StructureSame ==
  ASSUME Structure, Fails \/ EndRun \/ UNCHANGED vars
  PROVE  Structure'
<1>1. /\ UNCHANGED <<passes, top, available, inherited, lastUser, lastUses,
                     impls, result, at, count>>
      /\ \/ phase' = phase /\ frames' = frames
         \/ phase' = "unable" /\ frames' = <<>>
         \/ phase' = "building" /\ frames' = frames
  BY DEF Fails, EndRun, vars, plan
<1>2. <<>> \in Seq(FrameType)
  OBVIOUS
<1>3. Types'
  BY <1>1, <1>2 DEF Structure, Types, Made, IsManager
<1> QED
  BY <1>1, <1>3
     DEF Structure, Nesting, Position, Entries, Made, IsManager, Manager

(* The entries after an assignment, and the domain of the last users. *)
LEMMA AssignEntries ==
  ASSUME Structure, NEW m, NEW ms, NEW av, NEW made, Assigns(m, ms, av, made)
  PROVE  LET n == Len(passes)  p == Len(passes')
             left == RemoveNotPreserved(av, m, ms, Current.use) IN
         /\ av \in SUBSET EntryType /\ WellFormed(av, passes')
         /\ \A e \in av : e \in available \/ (made # <<>> /\ e = Entry(Top, FPManager, m))
         /\ available' = Record(left, m, Current.id, p)
         /\ left \subseteq av /\ left \in SUBSET EntryType
         /\ available' \subseteq EntryType /\ WellFormed(available', passes')
         /\ available' \subseteq left \cup {Entry(m, Current.id, p)}
         /\ lastUser' = SetLastUser(av, Required(av, m), p, m)
         /\ NoPass \notin Required(av, m)
<1> DEFINE n == Len(passes)  p == Len(passes')
           left == RemoveNotPreserved(av, m, ms, Current.use)
<1>1. /\ Current \in FrameType /\ n \in Nat /\ n < p /\ p \in Nat \ {0}
      /\ m \in Nat /\ p = n + Len(made) + 1
      /\ \A q \in Made : passes'[q] = passes[q]
      /\ passes'[p] = NewPass(Current.id, Current.use, m)
      /\ \A q \in 1..p : q \notin Made /\ q # p =>
           q = m /\ q = n + 1 /\ passes'[q] = NewPass(FPManager, ManagerUsage, Top)
  BY AssignFacts DEF Structure
<1>2. WellFormed(available, passes')
  BY <1>1 DEF Structure, Entries, WellFormed, Made
<1>3. available \in SUBSET EntryType
  BY DEF Structure, Types
<1>4. /\ av \in SUBSET EntryType /\ WellFormed(av, passes')
      /\ \A e \in av : e \in available \/ (made # <<>> /\ e = Entry(Top, FPManager, m))
  <2>1. CASE av \subseteq available
    BY <1>2, <1>3, <2>1, WellFormedFacts
  <2>2. CASE /\ m = n + 1 /\ made = <<NewPass(FPManager, ManagerUsage, Top)>>
             /\ av = Record(available, Top, FPManager, m)
    <3>1. m # p /\ m \in 1..p /\ m \notin Made /\ m \in Nat \ {0}
      <4>1. Len(made) = 1
        BY <2>2
      <4> HIDE DEF n, p
      <4>2. m # p /\ m \in 1..p /\ m \in Nat \ {0}
        BY <1>1, <2>2, <4>1
      <4> QED
        BY <1>1, <2>2, <4>2 DEF Made, n
    <3>2. passes'[m].id = FPManager /\ passes'[m].manager = Top
      BY <1>1, <3>1 DEF NewPass
    <3>3. Top \in Nat /\ FPManager \in Ids
      BY DEF Top, Ids
    <3>4. WellFormed(av, passes')
      BY <1>2, <1>3, <2>2, <3>1, <3>2, <3>3, WellFormedFacts
    <3>5. av \subseteq available \cup {Entry(Top, FPManager, m)} /\ av \subseteq EntryType
      BY <1>3, <2>2, <3>1, <3>3, RecordFacts
    <3> QED
      BY <2>2, <3>4, <3>5
  <2> QED
    BY <2>1, <2>2, RemoveFacts DEF Assigns
<1>5. left \subseteq av
  BY RemoveFacts
<1>6. /\ available' = Record(left, m, Current.id, p)
      /\ lastUser' = SetLastUser(av, Required(av, m), p, m)
      /\ NoPass \notin Required(av, m)
  <2>1. /\ available' = Record(left, m, Current.id, Len(passes) + Len(made) + 1)
        /\ lastUser' = SetLastUser(av, Required(av, m), Len(passes) + Len(made) + 1, m)
        /\ NoPass \notin Required(av, m)
    BY DEF Assigns, AddTo, Required
  <2> QED
    BY <1>1, <2>1
<1> HIDE DEF left
<1>7. left \in SUBSET EntryType /\ Current.id \in Ids
  BY <1>1, <1>4, <1>5 DEF FrameType, Ids
<1>8. /\ available' \subseteq EntryType
      /\ available' \subseteq left \cup {Entry(m, Current.id, p)}
  BY <1>1, <1>6, <1>7, RecordFacts
<1>9. WellFormed(available', passes')
  <2>1. WellFormed(left, passes')
    BY <1>4, <1>5, WellFormedFacts
  <2>2. p \in 1..Len(passes') /\ passes'[p].manager = m /\ passes'[p].id = Current.id
    BY <1>1 DEF NewPass
  <2> QED
    BY <1>1, <1>6, <1>7, <2>1, <2>2, WellFormedFacts
<1> QED
  BY <1>4, <1>5, <1>6, <1>7, <1>8, <1>9 DEF left

LEMMA StructureAssign ==
  ASSUME Structure, NEW m, NEW ms, NEW av, NEW made, Assigns(m, ms, av, made)
  PROVE  Structure'
<1> DEFINE n == Len(passes)  f == NewPass(FPManager, ManagerUsage, Top)
<1>1. PICK p : p = Len(passes')
  OBVIOUS
<1>2. /\ phase = "building" /\ UNCHANGED <<phase, lastUses, at, count>>
      /\ Current \in FrameType /\ frames' \in Seq(FrameType) /\ top' = m
      /\ n \in Nat /\ n < p /\ p \in {n + 1, n + 2} /\ m \in 0..p - 1
      /\ m = Top \/ m = top \/ (m = n + 1 /\ top = Top)
      /\ m = n + 1 <=> p = n + 2
      /\ passes' \in Seq(PassType) /\ \A q \in Made : passes'[q] = passes[q]
      /\ passes'[p] = NewPass(Current.id, Current.use, m)
      /\ \A q \in 1..p : q \notin Made /\ q # p => q = m /\ q = n + 1 /\ passes'[q] = f
      /\ impls' \in Seq(ImplsType) /\ Len(impls') = p
      /\ result' \in Seq(ResultType) /\ Len(result') = p
  BY <1>1, AssignFacts DEF Structure
<1>3. /\ available' \subseteq EntryType /\ WellFormed(available', passes')
      /\ lastUser' = SetLastUser(av, Required(av, m), p, m)
  BY <1>1, AssignEntries
<1>4. /\ Current.id # FPManager /\ f.id = FPManager /\ f.manager = Top
      /\ f.use.level = "module"
  BY <1>2, Declarations DEF FrameType, NewPass, ManagerUsage
<1>5. /\ p \in Nat /\ Made' = 1..p /\ Made \subseteq 1..p /\ p \in 1..p
      /\ \A q \in 1..p : q \in Made \/ q = p \/ (q = m /\ m = n + 1)
      /\ \A q \in Made : q <= n
  BY <1>1, <1>2 DEF Made
<1>6. /\ \A q \in Made : /\ IsManager(q)' = IsManager(q)
                         /\ Manager(q)' = Manager(q)
      /\ ~IsManager(p)' /\ Manager(p)' = m
      /\ m = n + 1 => IsManager(m)' /\ Manager(m)' = Top
                      /\ passes'[m].use.level = "module"
  <2>1. m = n + 1 => m \in 1..p /\ m \notin Made /\ m # p
    BY <1>2 DEF Made
  <2> QED
    BY <1>2, <1>4, <1>5, <2>1 DEF IsManager, Manager, NewPass
<1>7. DOMAIN lastUser' = {q \in Made' : ~IsManager(q)'}
  <2>1. DOMAIN lastUser' = DOMAIN lastUser \cup {p}
    BY <1>3 DEF SetLastUser, NewLastUser
  <2> QED
    BY <1>5, <1>6, <2>1 DEF Structure, Types
<1>8. /\ inherited' \subseteq inherited \cup {q \in {m} : m = n + 1}
  <2>1. /\ inherited' = (inherited \ ({top} \ {m})) \cup {q \in {m} : made # <<>>}
        /\ made # <<>> => m = n + 1
    BY DEF Assigns, AddTo, Required
  <2> QED
    BY <2>1
<1>9. inherited' \subseteq Made' /\ \A q \in inherited' : IsManager(q)'
  <2>1. m = n + 1 => m \in 1..p
    BY <1>2
  <2> QED
    BY <1>5, <1>6, <1>8, <2>1 DEF Structure, Types, Nesting
<1>10. Types'
  <2>1. top' \in {Top} \cup Made'
    BY <1>2, <1>5 DEF Top
  <2>2. at' \in [pass : {NoPass} \cup Made', function : 0..MaxFunctions]
    BY <1>2, <1>5 DEF Structure, Types
  <2> QED
    BY <1>1, <1>2, <1>3, <1>7, <1>9, <2>1, <2>2 DEF Structure, Types
<1>11. \/ m = Top /\ Current.use.level = "module"
       \/ m # Top /\ Current.use.level = "function"
  BY <1>2 DEF Assigns, Top
<1>12. ASSUME NEW q \in 1..p, IsManager(q)'
       PROVE  q + 1 \in 1..p /\ Manager(q)' = Top /\ Manager(q + 1)' = q
  <2>1. CASE q \in Made
    BY <1>5, <1>6, <1>12, <2>1 DEF Structure, Nesting
  <2>2. CASE q = m /\ m = n + 1
    BY <1>2, <1>5, <1>6, <2>2
  <2> QED
    BY <1>5, <1>6, <1>12, <2>1, <2>2
<1>13. ASSUME m # Top
       PROVE  /\ m \in 1..p - 1 /\ IsManager(m)'
              /\ \A q \in m + 1..p : Manager(q)' = m
  <2>1. CASE m = n + 1
    BY <1>2, <1>6, <2>1
  <2>2. CASE m = top /\ m # n + 1
    <3>1. m \in Made /\ IsManager(m) /\ \A q \in Made : q > m => Manager(q) = m
      BY <1>13, <2>2 DEF Structure, Types, Nesting
    <3>2. p = n + 1
      BY <1>2, <2>2
    <3> QED
      BY <1>2, <1>5, <1>6, <3>1, <3>2 DEF Made
  <2> QED
    BY <1>2, <1>13, <2>1, <2>2
<1>14. ASSUME NEW q \in 1..p
       PROVE  IF Manager(q)' = Top THEN passes'[q].use.level = "module"
              ELSE /\ Manager(q)' \in 1..(q - 1) /\ IsManager(Manager(q))'
                   /\ passes'[q].use.level = "function"
                   /\ \A r \in Manager(q)' + 1..q : Manager(r)' = Manager(q)'
  <2>1. CASE q = p
    BY <1>2, <1>6, <1>11, <1>13, <2>1 DEF NewPass, Manager, IsManager
  <2>2. CASE q = m /\ m = n + 1
    BY <1>6, <2>2
  <2>3. CASE q \in Made
    <3>1. /\ passes'[q] = passes[q] /\ Manager(q)' = Manager(q) /\ q \in Nat
      BY <1>2, <1>6, <2>3 DEF Made
    <3>2. CASE Manager(q) = Top
      BY <2>3, <3>1, <3>2 DEF Structure, Nesting
    <3>3. CASE Manager(q) # Top
      <4>1. /\ Manager(q) \in 1..q - 1 /\ IsManager(Manager(q))
            /\ passes[q].use.level = "function"
            /\ \A r \in Manager(q) + 1..q : Manager(r) = Manager(q)
        BY <2>3, <3>3 DEF Structure, Nesting
      <4>2. Manager(q) \in Made /\ \A r \in Manager(q) + 1..q : r \in Made
        BY <1>2, <2>3, <4>1 DEF Made
      <4>3. IsManager(Manager(q))'
        BY <1>2, <3>1, <4>1, <4>2 DEF IsManager
      <4> QED
        BY <1>6, <3>1, <3>3, <4>1, <4>2, <4>3
    <3> QED
      BY <3>2, <3>3
  <2> QED
    BY <1>5, <2>1, <2>2, <2>3
<1>15. Nesting'
  <2>1. top' # Top => IsManager(top)' /\ \A q \in Made' : q > top' => Manager(q)' = top'
    <3> SUFFICES ASSUME top' # Top
                 PROVE  IsManager(top)' /\ \A q \in Made' : q > top' => Manager(q)' = top'
      OBVIOUS
    <3>1. IsManager(m)' /\ \A q \in Made' : q > m => Manager(q)' = m
      BY <1>2, <1>5, <1>13
    <3>2. IsManager(top)'
      BY <1>2, <3>1 DEF IsManager
    <3> QED
      BY <1>2, <3>1, <3>2
  <2> QED
    BY <1>5, <1>9, <1>12, <1>14, <2>1 DEF Nesting
<1> QED
  BY <1>1, <1>2, <1>3, <1>10, <1>15 DEF Structure, Position, Entries

(* A step of a run leaves the plan as it is. *)
LEMMA StructureRun ==
  ASSUME Structure, UNCHANGED <<passes, top, frames, lastUser>>,
         phase' = "running", frames = <<>>,
         available' \subseteq EntryType, WellFormed(available', passes),
         inherited' \subseteq Made, \A m \in inherited' : IsManager(m),
         impls' \in Seq(ImplsType), Len(impls') = Len(passes),
         result' \in Seq(ResultType), Len(result') = Len(passes),
         at' \in [pass : {NoPass} \cup Made, function : 0..MaxFunctions],
         count' \in [adds : 0..MaxAdds, runs : 0..MaxRuns, functions : 0..MaxFunctions],
         at'.pass # NoPass =>
           /\ at'.function <= count'.functions
           /\ ~IsManager(at'.pass) => (Manager(at'.pass) = Top <=> at'.function = 0)
  PROVE  Structure'
<1>1. Made' = Made /\ \A p : IsManager(p)' = IsManager(p) /\ Manager(p)' = Manager(p)
  BY DEF Made, IsManager, Manager
<1>2. Types'
  BY <1>1 DEF Structure, Types
<1>3. Nesting'
  BY <1>1 DEF Structure, Nesting
<1>4. Position' /\ Entries'
  BY DEF Position, Entries, IsManager, Manager
<1> QED
  BY <1>2, <1>3, <1>4 DEF Structure

LEMMA StructureRunning ==
  ASSUME Structure,
         StartRun \/ \E p \in Made : Runs(p) \/ NextFunction(p) \/ FinishFunctions(p)
  PROVE  Structure'
<1>0. /\ passes \in Seq(PassType) /\ available \in SUBSET EntryType
      /\ WellFormed(available, passes) /\ Len(passes) \in Nat /\ NoPass \in Nat
      /\ Top \in Nat /\ (phase = "running" => frames = <<>>)
      /\ \A p \in Made : passes[p] \in PassType /\ p \in Nat \ {0}
  BY DEF Structure, Types, Entries, Made, NoPass, Top
<1>1. ASSUME StartRun PROVE Structure'
  <2>1. /\ UNCHANGED <<passes, top, frames, lastUser, impls, result>>
        /\ phase' = "running" /\ frames = <<>> /\ available' = {} /\ inherited' = {}
        /\ at' = [pass |-> PassAfter(Top, NoPass), function |-> 0]
    BY <1>1 DEF StartRun, plan
  <2>2. count' \in [adds : 0..MaxAdds, runs : 0..MaxRuns, functions : 0..MaxFunctions]
    <3>1. PICK n \in 0..MaxFunctions :
            count' = [count EXCEPT !.runs = @ + 1, !.functions = n]
      BY <1>1 DEF StartRun
    <3>2. count.runs \in 0..MaxRuns /\ count.runs < MaxRuns /\ MaxRuns \in Nat
      BY <1>1, Declarations DEF StartRun, Structure, Types
    <3>3. count.runs + 1 \in 0..MaxRuns
      BY <3>2
    <3> QED
      BY <3>1, <3>3 DEF Structure, Types
  <2>3. \/ PassAfter(Top, NoPass) = NoPass
        \/ PassAfter(Top, NoPass) \in Made /\ Manager(PassAfter(Top, NoPass)) = Top
    BY <1>0, PassAfterFacts
  <2>4. at'.pass # NoPass => at'.function = 0 /\ Manager(at'.pass) = Top
    BY <2>1, <2>3
  <2>5. /\ at' \in [pass : {NoPass} \cup Made, function : 0..MaxFunctions]
        /\ 0 <= count'.functions /\ WellFormed(available', passes)
    BY <2>1, <2>2, <2>3, Declarations DEF WellFormed
  <2> QED
    BY <2>1, <2>2, <2>4, <2>5, StructureRun DEF Structure, Types
<1>2. ASSUME NEW p \in Made, Runs(p) PROVE Structure'
  <2> DEFINE m == Manager(p)
             av == Record(RemoveNotPreserved(available, m, InheritedBy(m),
                                             passes[p].use), m, Id(p), p)
  <2>1. /\ m \in Nat /\ Id(p) \in Ids
        /\ impls' \in Seq(ImplsType) /\ Len(impls') = Len(passes)
        /\ result' \in Seq(ResultType) /\ Len(result') = Len(passes)
        /\ av \subseteq EntryType /\ available' \subseteq av
    BY <1>2, RunsFacts DEF Structure
  <2>2. WellFormed(av, passes)
    <3>1. WellFormed(RemoveNotPreserved(available, m, InheritedBy(m),
                                        passes[p].use), passes)
      BY <1>0, RemoveFacts, WellFormedFacts
    <3>2. RemoveNotPreserved(available, m, InheritedBy(m), passes[p].use)
            \in SUBSET EntryType
      BY <1>0, RemoveFacts
    <3>3. p \in Nat \ {0} /\ p \in 1..Len(passes)
      BY <1>0 DEF Made
    <3> QED
      BY <2>1, <3>1, <3>2, <3>3, WellFormedFacts DEF Manager, Id
  <2>3. WellFormed(available', passes)
    BY <2>1, <2>2, WellFormedFacts
  <2>4. /\ phase = "running" /\ at.pass = p /\ ~IsManager(p)
        /\ UNCHANGED <<phase, passes, top, frames, lastUser, inherited, count>>
        /\ at' = [at EXCEPT !.pass = IF m # Top /\ PassAfter(m, p) = NoPass
                                     THEN m ELSE PassAfter(m, p)]
    BY <1>2 DEF Runs, plan
  <2>5. /\ at.function <= count.functions /\ at.function \in 0..MaxFunctions
        /\ (m = Top <=> at.function = 0) /\ p # NoPass
        /\ at \in [pass : {NoPass} \cup Made, function : 0..MaxFunctions]
    BY <1>0, <2>4 DEF Structure, Types, Position, NoPass
  <2>6. \/ PassAfter(m, p) = NoPass
        \/ PassAfter(m, p) \in Made /\ Manager(PassAfter(m, p)) = m
    BY <1>0, PassAfterFacts
  <2>7. m # Top => m \in Made /\ IsManager(m)
    <3>1. m # Top => m \in 1..p - 1 /\ IsManager(m)
      BY DEF Structure, Nesting
    <3> QED
      BY <1>0, <3>1 DEF Made
  <2>8. /\ at'.function = at.function
        /\ \/ at'.pass = NoPass
           \/ at'.pass \in Made /\ (Manager(at'.pass) = m \/ IsManager(at'.pass))
        /\ at' \in [pass : {NoPass} \cup Made, function : 0..MaxFunctions]
    <3> HIDE DEF m
    <3> QED
      BY <2>4, <2>5, <2>6, <2>7
  <2>9. at'.pass # NoPass =>
          /\ at'.function <= count'.functions
          /\ ~IsManager(at'.pass) => (Manager(at'.pass) = Top <=> at'.function = 0)
    BY <2>4, <2>5, <2>8
  <2> HIDE DEF av, m
  <2> QED
    BY <1>0, <2>1, <2>3, <2>4, <2>8, <2>9, StructureRun DEF Structure, Types, Nesting
<1>3. ASSUME NEW m \in Made, NextFunction(m) PROVE Structure'
  <2>1. /\ phase = "running" /\ IsManager(m) /\ at.function < count.functions
        /\ UNCHANGED <<phase, passes, top, frames, lastUser, available, impls,
                       result, count>>
        /\ inherited' = inherited \cup {m}
        /\ at' = [pass |-> PassAfter(m, NoPass), function |-> at.function + 1]
    BY <1>3 DEF NextFunction, Running, plan
  <2>2. \/ PassAfter(m, NoPass) = NoPass
        \/ PassAfter(m, NoPass) \in Made /\ Manager(PassAfter(m, NoPass)) = m
    BY <1>0, PassAfterFacts
  <2>3. /\ at.function \in 0..MaxFunctions /\ count.functions \in 0..MaxFunctions
        /\ MaxFunctions \in Nat /\ m # Top
    BY <1>0, Declarations DEF Structure, Types, Top
  <2>4. at' \in [pass : {NoPass} \cup Made, function : 0..MaxFunctions]
    BY <2>1, <2>2, <2>3
  <2>5. at'.pass # NoPass =>
          /\ at'.function <= count'.functions
          /\ ~IsManager(at'.pass) => (Manager(at'.pass) = Top <=> at'.function = 0)
    BY <2>1, <2>2, <2>3
  <2> QED
    BY <1>0, <2>1, <2>4, <2>5, StructureRun DEF Structure, Types, Nesting
<1>4. ASSUME NEW m \in Made, FinishFunctions(m) PROVE Structure'
  <2> DEFINE av == Record(available, Top, FPManager, m)
  <2>1. /\ phase = "running" /\ IsManager(m)
        /\ at' = [pass |-> PassAfter(Top, m), function |-> 0]
        /\ UNCHANGED <<phase, passes, top, frames, lastUser, inherited, impls, count>>
        /\ result' \in Seq(ResultType) /\ Len(result') = Len(passes)
        /\ av \subseteq EntryType /\ available' \subseteq av
    BY <1>4, FinishFacts DEF Structure, plan
  <2>2. /\ passes[m].id = FPManager /\ passes[m].manager = Top /\ FPManager \in Ids
    BY <2>1 DEF IsManager, Structure, Nesting, Manager, Ids
  <2>3. WellFormed(av, passes)
    <3>1. m \in Nat \ {0} /\ m \in 1..Len(passes)
      BY <1>0 DEF Made
    <3> QED
      BY <1>0, <2>2, <3>1, WellFormedFacts
  <2> HIDE DEF av
  <2>4. WellFormed(available', passes)
    BY <2>1, <2>3, WellFormedFacts
  <2>5. \/ PassAfter(Top, m) = NoPass
        \/ PassAfter(Top, m) \in Made /\ Manager(PassAfter(Top, m)) = Top
    BY <1>0, PassAfterFacts
  <2>6. count.functions \in 0..MaxFunctions /\ MaxFunctions \in Nat
    BY Declarations DEF Structure, Types
  <2>7. /\ at' \in [pass : {NoPass} \cup Made, function : 0..MaxFunctions]
        /\ at'.function <= count'.functions /\ at'.function = 0
        /\ at'.pass # NoPass => Manager(at'.pass) = Top
    BY <2>1, <2>5, <2>6
  <2> QED
    BY <1>0, <2>1, <2>4, <2>7, StructureRun DEF Structure, Types, Nesting
<1> QED
  BY <1>1, <1>2, <1>3, <1>4

LEMMA StructureNext ==
  ASSUME Structure, [Next]_vars
  PROVE  Structure'
BY StepCases, StructureMoves, StructureSame, StructureAssign, StructureRunning DEF Steps

LEMMA AlwaysStructure == Spec => []Structure
BY StructureInit, StructureNext, PTL DEF Spec

(* The types of the variables, and the shape of the managers' maps: whatever *)
(* passes are added and run, an entry is of a pass that its manager has.     *)
THEOREM PassManagerTyped == Spec => []TypeOK
<1>1. ASSUME Structure PROVE TypeOK
  <2>1. ASSUME NEW p \in Made
        PROVE  /\ passes[p].id \in Ids /\ passes[p].manager \in 0..Len(passes)
               /\ DOMAIN impls[p] \subseteq Analyses
               /\ result[p].of \in -1..MaxFunctions
    <3>1. /\ passes[p] \in PassType /\ impls[p] \in ImplsType
          /\ result[p] \in ResultType /\ p \in Nat /\ p <= Len(passes)
          /\ Len(passes) \in Nat
      BY <1>1 DEF Structure, Types, Made
    <3>2. Manager(p) = Top \/ Manager(p) \in 1..p - 1
      BY <1>1 DEF Structure, Nesting
    <3> QED
      BY <3>1, <3>2 DEF PassType, ImplsType, ResultType, Manager, Top
  <2>2. ASSUME NEW e \in available
        PROVE  /\ e.in = Top \/ IsManager(e.in)
               /\ passes[e.pass].id = e.id /\ passes[e.pass].manager = e.in
    BY <1>1, <2>2 DEF Structure, Entries, WellFormed, Nesting, Manager, Made
  <2>3. inherited \subseteq {p \in Made : IsManager(p)}
    BY <1>1 DEF Structure, Types, Nesting
  <2> QED
    BY <1>1, <2>1, <2>2, <2>3 DEF Structure, Types, Nesting, TypeOK, Made
<1> QED
  BY <1>1, AlwaysStructure, PTL
-----------------------------------------------------------------------------
(* Up to the first run, an analysis scheduled in a manager that still takes  *)
(* passes is in its map, or a later pass does not preserve it.               *)
Remembered ==
  /\ phase = "running" => count.runs # 0
  /\ count.runs = 0 =>
       \A p \in Made : Id(p) \in Analyses /\ Manager(p) \in {Top, top} =>
         \/ \E e \in available : e.in = Manager(p) /\ e.id = Id(p)
         \/ \E r \in p + 1..Len(passes) : ~Keeps(r, Id(p))

LEMMA RememberedAssign ==
  ASSUME Structure, Remembered, NoWorkIsRepeated, NEW m, NEW ms, NEW av, NEW made,
         Assigns(m, ms, av, made)
  PROVE  Remembered' /\ NoWorkIsRepeated'
<1> DEFINE n == Len(passes)  u == Current.use
           left == RemoveNotPreserved(av, m, ms, u)
<1>1. PICK p : p = Len(passes')
  OBVIOUS
<1>2. /\ phase = "building" /\ UNCHANGED <<phase, count>> /\ top' = m
      /\ n \in Nat /\ n < p /\ p \in Nat /\ p \in {n + 1, n + 2}
      /\ m = Top \/ m = top \/ m = n + 1
      /\ passes'[p] = NewPass(Current.id, u, m)
      /\ \A q \in Made : passes'[q] = passes[q]
      /\ \A q \in 1..p : q \notin Made /\ q # p =>
           passes'[q] = NewPass(FPManager, ManagerUsage, Top)
  BY <1>1, AssignFacts DEF Structure
<1>3. /\ available' = Record(left, m, Current.id, p)
      /\ \A e \in available : e.in \in {Top, m} /\ e.id \in Analyses => e \in av
  <2>1. available' = Record(left, m, Current.id, p)
    BY <1>1, AssignEntries
  <2>2. ASSUME NEW e \in available, e.in \in {Top, m}, e.id \in Analyses
        PROVE  e \in av
    <3>1. e.id # FPManager
      BY <2>2, Declarations
    <3> QED
      BY <2>2, <3>1 DEF Assigns, Forget, Record
  <2> QED
    BY <2>1, <2>2
<1>4. Made' = 1..p /\ \A q \in Made : q \in 1..p /\ q <= n /\ q < p
  BY <1>1, <1>2 DEF Made
<1>5. ASSUME NEW q \in Made, Id(q) \in Analyses, Manager(q) \in {Top, m}, count.runs = 0
      PROVE  \/ \E e \in available : e.in = Manager(q) /\ e.id = Id(q)
             \/ \E r \in q + 1..n : ~Keeps(r, Id(q))
  <2>1. Manager(q) # n + 1
    <3>1. Manager(q) = Top \/ Manager(q) \in 1..q - 1
      BY DEF Structure, Nesting
    <3> QED
      BY <1>2, <1>4, <3>1 DEF Top
  <2> QED
    BY <1>2, <1>5, <2>1 DEF Remembered
<1>6. ASSUME NEW q \in Made, NEW r \in q + 1..n, ~Keeps(r, Id(q))
      PROVE  r \in q + 1..p - 1 /\ ~Keeps(r, Id(q))' /\ Id(q)' = Id(q)
  <2>1. r \in Made /\ r \in q + 1..p - 1
    BY <1>2, <1>4 DEF Made
  <2> QED
    BY <1>2, <1>6, <2>1 DEF Keeps, Id
<1>7. \A q \in Made : Id(q)' = Id(q) /\ Manager(q)' = Manager(q)
  BY <1>2 DEF Id, Manager
<1>8. \A q \in 1..p \ Made : q = p \/ Id(q)' = FPManager
  BY <1>2 DEF Id, NewPass
<1>9. /\ Id(p)' = Current.id /\ Manager(p)' = m
      /\ \A id : Keeps(p, id)' <=> u.all \/ id \in u.preserves
  BY <1>2 DEF Id, Manager, Keeps, NewPass
<1>10. Remembered'
  <2> SUFFICES ASSUME count.runs = 0, NEW q \in 1..p, Id(q)' \in Analyses,
                      Manager(q)' \in {Top, m}
               PROVE  \/ \E e \in available' : e.in = Manager(q)' /\ e.id = Id(q)'
                      \/ \E r \in q + 1..p : ~Keeps(r, Id(q))'
    BY <1>1, <1>2, <1>4 DEF Remembered, Keeps
  <2>1. CASE q = p
    <3>1. Entry(m, Current.id, p) \in available'
      BY <1>3 DEF Record
    <3> QED
      BY <1>9, <2>1, <3>1 DEF Entry
  <2>2. CASE q \in Made
    <3>1. CASE \E r \in q + 1..n : ~Keeps(r, Id(q))
      <4>1. PICK r \in q + 1..p - 1 : ~Keeps(r, Id(q))'
        BY <1>6, <2>2, <3>1
      <4>2. r \in q + 1..p
        BY <1>2, <1>4, <2>2, <4>1
      <4> QED
        BY <4>1, <4>2
    <3>2. ASSUME NEW e \in available, e.in = Manager(q), e.id = Id(q)
          PROVE  \/ \E d \in available' : d.in = Manager(q) /\ d.id = Id(q)
                 \/ ~Keeps(p, Id(q))'
      <4>1. e \in av
        BY <1>3, <1>7, <2>2, <3>2
      <4>2. CASE u.all \/ e.id \in u.preserves
        <5>1. e \in left
          BY <4>1, <4>2 DEF RemoveNotPreserved
        <5>2. CASE e.in = m /\ e.id = Current.id
          <6>1. Entry(m, Current.id, p) \in available'
            BY <1>3 DEF Record
          <6>2. /\ Entry(m, Current.id, p).in = Manager(q)
                /\ Entry(m, Current.id, p).id = Id(q)
            BY <3>2, <5>2 DEF Entry
          <6> QED
            BY <6>1, <6>2
        <5>3. CASE ~(e.in = m /\ e.id = Current.id)
          BY <1>3, <3>2, <5>1, <5>3 DEF Record
        <5> QED
          BY <5>2, <5>3
      <4>3. CASE ~(u.all \/ e.id \in u.preserves)
        <5>1. passes'[p].use = u /\ passes'[q].id = e.id
          BY <1>2, <2>2, <3>2 DEF NewPass, Id
        <5> QED
          BY <4>3, <5>1 DEF Keeps, Id
      <4> QED
        BY <4>2, <4>3
    <3>3. p \in q + 1..p /\ Id(q)' = Id(q) /\ Manager(q)' = Manager(q)
      BY <1>2, <1>4, <1>7, <2>2
    <3>4. (~Keeps(p, Id(q))') => \E r \in q + 1..p : ~Keeps(r, Id(q))'
      BY <3>3
    <3> QED
      BY <1>5, <2>2, <3>1, <3>2, <3>3, <3>4
  <2> QED
    BY <1>8, <2>1, <2>2, Declarations
<1>11. NoWorkIsRepeated'
  <2> SUFFICES ASSUME count.runs = 0, NEW q \in 1..p, NEW s \in 1..p, q < s,
                      Id(q)' = Id(s)', Id(q)' \in Analyses \ Transforms, Manager(q)' = Manager(s)'
               PROVE  \E r \in q + 1..s - 1 : ~Keeps(r, Id(q))'
    BY <1>1, <1>2, <1>4 DEF NoWorkIsRepeated, Id, Manager, Keeps
  <2>1. q \in Made
    BY <1>4, <1>8, Declarations
  <2>2. CASE s \in Made
    <3>1. PICK r \in q + 1..s - 1 : ~Keeps(r, Id(q))
      BY <1>7, <2>1, <2>2 DEF NoWorkIsRepeated, Id, Manager, Keeps, Made
    <3>2. r \in q + 1..n
      BY <1>4, <2>1, <2>2, <1>2 DEF Made
    <3> QED
      BY <1>6, <2>1, <3>1, <3>2
  <2>3. CASE s = p
    <3>1. Manager(q) = m /\ Id(q) = Current.id
      BY <1>7, <1>9, <2>1, <2>3
    <3>2. \A e \in available : e.id # Current.id
      <4>1. FindPass(available, Current.id) = NoPass
        BY <1>7, <2>1, <3>1 DEF Assigns, Schedulable, IsAvailable
      <4>2. available \in SUBSET EntryType /\ \A e \in available : e.pass # NoPass
        BY DEF Structure, Types, EntryType, NoPass
      <4> QED
        BY <4>1, <4>2, FindPassFacts
    <3>3. PICK r \in q + 1..n : ~Keeps(r, Id(q))
      BY <1>5, <1>7, <2>1, <3>1, <3>2
    <3> QED
      BY <1>6, <2>1, <2>3, <3>3
  <2> QED
    BY <1>8, <2>2, <2>3, Declarations
<1> QED
  BY <1>10, <1>11

LEMMA RememberedNext ==
  ASSUME Structure, Remembered, NoWorkIsRepeated, [Next]_vars
  PROVE  Remembered' /\ NoWorkIsRepeated'
<1>1. CASE Moves
  BY <1>1, MoveFacts DEF Structure, Remembered, NoWorkIsRepeated, Made, Id, Manager, Keeps
<1>2. CASE Fails \/ UNCHANGED vars
  BY <1>2 DEF Fails, vars, Remembered, NoWorkIsRepeated, Made, Id, Manager, Keeps
<1>3. ASSUME StartRun PROVE count'.runs # 0
  BY <1>3 DEF StartRun, Structure, Types
<1>4. CASE EndRun \/ \E p \in Made : Runs(p) \/ NextFunction(p) \/ FinishFunctions(p)
  <2>1. phase = "running" /\ count' = count /\ count.runs # 0
    BY <1>4 DEF EndRun, Runs, NextFunction, FinishFunctions, Running, Remembered
  <2> QED
    BY <2>1 DEF Remembered, NoWorkIsRepeated
<1>5. CASE StartRun
  BY <1>3, <1>5 DEF Remembered, NoWorkIsRepeated
<1> QED
  BY <1>1, <1>2, <1>4, <1>5, StepCases, RememberedAssign DEF Steps

(* No analysis is scheduled twice in a manager before the first run, unless  *)
(* a pass in between does not preserve it (findAnalysisPass).                *)
THEOREM NothingIsScheduledTwice == Spec => []NoWorkIsRepeated
<1>1. Init => Remembered /\ NoWorkIsRepeated
  BY DEF Init, Remembered, NoWorkIsRepeated, Made
<1> QED
  BY <1>1, AlwaysStructure, RememberedNext, PTL DEF Spec
-----------------------------------------------------------------------------
(* The last user of a pass comes after it, in the same manager; a function   *)
(* pass manager stands for its passes where they use one of its own level.   *)
Users ==
  \A q \in DOMAIN lastUser :
    lastUser[q] \in Made /\ q <= lastUser[q] /\ Manager(lastUser[q]) = Manager(q)

(* The inverse of the last users, as of this or an earlier run. *)
Uses ==
  /\ lastUses \subseteq Made \X Made
  /\ \A p, q \in Made :
       <<p, q>> \in lastUses => Manager(p) = Manager(q) /\ ~IsManager(q)
  /\ phase = "running" => \A q \in DOMAIN lastUser : <<lastUser[q], q>> \in lastUses

(* Only managers that still take passes have entries while passes are added. *)
Here == phase = "building" => \A e \in available : e.in \in {Top, top}

(* The turn of Top. *)
TopPass == IF at.pass = NoPass THEN Len(passes) + 1
           ELSE IF Manager(at.pass) = Top THEN at.pass ELSE Manager(at.pass)

(* A result is held from the turn of its pass to that of its last user.      *)
Awaited(q) ==
  IF Manager(q) = Top THEN q < TopPass /\ TopPass <= lastUser[q]
  ELSE /\ at.pass # NoPass /\ Manager(at.pass) = Manager(q)
       /\ q < at.pass /\ at.pass <= lastUser[q]
IsHeld(q) == result[q].of # -1
Held ==
  /\ \A q \in Made : ~IsHeld(q) => result[q] = NoResult
  /\ \A q \in Made : IsHeld(q) => phase = "running" /\ ~IsManager(q) /\ Awaited(q)
  /\ phase = "running" => \A e \in available : e.id = FPManager \/ IsHeld(e.pass)

Releases == Users /\ Uses /\ Here /\ Held

(* The analyses that an assignment finds, and the last users that it sets.   *)
Found(av) == {e.pass : e \in {e \in av : e.id \in Analyses}}

LEMMA ReliedFound ==
  ASSUME NEW av, NEW S
  PROVE  RelyOn(av, S) \subseteq Found(av)
BY DEF RelyOn, Found

LEMMA AssignFound ==
  ASSUME Structure, Here, NEW m, NEW ms, NEW av, NEW made, Assigns(m, ms, av, made)
  PROVE  /\ \A e \in av : e.in \in {Top, m}
         /\ \A e \in av : e.id \in Analyses => e \in available
         /\ \A q \in Found(av) :
              /\ q \in Made /\ q \in DOMAIN lastUser /\ Id(q) \in Analyses
              /\ \E e \in av : e.pass = q /\ e.id = Id(q) /\ e.in = Manager(q)
              /\ \/ Manager(q) = m
                 \/ Manager(q) = Top /\ m # Top /\ q < m
<1>1. /\ phase = "building" /\ Len(passes) \in Nat
      /\ m \in Nat /\ (m = Top \/ m = top \/ (m = Len(passes) + 1 /\ top = Top))
  BY AssignFacts DEF Structure
<1>2. ASSUME NEW e \in av
      PROVE  e.in \in {Top, m} /\ (e.id \in Analyses => e \in available)
  <2>1. \/ e \in available /\ (m = top \/ m # Top \/ e.in # top)
        \/ e = Entry(Top, FPManager, m)
    <3>1. CASE av = IF top = Top THEN available ELSE Forget(available, top)
      BY <1>2, <3>1 DEF Forget, Assigns
    <3>2. CASE av = available /\ m = top
      BY <1>2, <3>2
    <3>3. CASE av = Record(available, Top, FPManager, m) /\ m = Len(passes) + 1
      BY <1>1, <1>2, <3>3 DEF Record, Top
    <3> QED
      BY <3>1, <3>2, <3>3 DEF Assigns
  <2> QED
    BY <1>1, <2>1, Declarations DEF Here, Entry
<1>3. ASSUME NEW q \in Found(av)
      PROVE  /\ q \in Made /\ q \in DOMAIN lastUser /\ Id(q) \in Analyses
             /\ \E e \in av : e.pass = q /\ e.id = Id(q) /\ e.in = Manager(q)
             /\ \/ Manager(q) = m
                \/ Manager(q) = Top /\ m # Top /\ q < m
  <2>1. PICK e \in av : e.id \in Analyses /\ e.pass = q
    BY <1>3 DEF Found
  <2>2. e \in available /\ e.in \in {Top, m}
    BY <1>2, <2>1
  <2>3. q \in Made /\ Id(q) = e.id /\ Manager(q) = e.in
    BY <2>1, <2>2 DEF Structure, Entries, WellFormed, Made, Id, Manager
  <2>4. q \in DOMAIN lastUser
    BY <2>1, <2>3, Declarations DEF Structure, Types, IsManager, Id
  <2>5. ASSUME Manager(q) # m PROVE Manager(q) = Top /\ m # Top /\ q < m
    <3>1. Manager(q) = Top /\ m # Top
      BY <2>2, <2>3, <2>5
    <3>2. CASE m = Len(passes) + 1
      BY <1>1, <2>3, <3>1, <3>2 DEF Made
    <3>3. CASE m = top
      <4>1. ~(q > top) /\ IsManager(top)
        BY <2>3, <2>5, <3>1, <3>3 DEF Structure, Nesting
      <4>2. q # top
        BY <2>4, <4>1 DEF Structure, Types
      <4> QED
        BY <1>1, <2>3, <3>1, <3>3, <4>1, <4>2 DEF Made
    <3> QED
      BY <1>1, <3>1, <3>2, <3>3
  <2> QED
    BY <2>1, <2>2, <2>3, <2>4, <2>5
<1> QED
  BY <1>2, <1>3

(* What each pass is last used by after an assignment. *)
UserOf(q, p, m) == IF Manager(q) = m THEN p ELSE m

LEMMA AssignUsers ==
  ASSUME Structure, Users, Here, NEW m, NEW ms, NEW av, NEW made,
         Assigns(m, ms, av, made)
  PROVE  LET p == Len(passes')  S == RelyOn(av, Required(av, m)) IN
         /\ S \subseteq Found(av)
         /\ DOMAIN lastUser' = DOMAIN lastUser \cup {p} /\ lastUser'[p] = p
         /\ \A q \in DOMAIN lastUser :
              /\ q \in Made
              /\ lastUser'[q] = IF q \in S THEN UserOf(q, p, m)
                                ELSE IF lastUser[q] \in S THEN UserOf(lastUser[q], p, m)
                                ELSE lastUser[q]
<1>1. PICK p : p = Len(passes')
  OBVIOUS
<1>2. PICK S : S = RelyOn(av, Required(av, m))
  OBVIOUS
<1>3. S \subseteq Found(av)
  BY <1>2, ReliedFound
<1>4. lastUser' = NewLastUser(S, p, m)
  BY <1>1, <1>2, AssignEntries DEF SetLastUser
<1>5. \A q \in Found(av) : Depth(passes[q].manager) = Depth(m) <=> Manager(q) = m
  BY AssignFound DEF Depth, Manager
<1>6. p \notin Made /\ DOMAIN lastUser \subseteq Made
  BY <1>1, AssignFacts DEF Structure, Types, Made
<1>7. ASSUME NEW q \in DOMAIN lastUser
      PROVE  /\ q \in Made
             /\ lastUser'[q] = IF q \in S THEN UserOf(q, p, m)
                               ELSE IF lastUser[q] \in S THEN UserOf(lastUser[q], p, m)
                               ELSE lastUser[q]
  <2>1. q # p /\ q \in Made
    BY <1>6
  <2>2. q \in S => (Depth(passes[q].manager) = Depth(m) <=> Manager(q) = m)
    BY <1>3, <1>5
  <2>3. lastUser[q] \in S =>
          (Depth(passes[lastUser[q]].manager) = Depth(m) <=> Manager(lastUser[q]) = m)
    BY <1>3, <1>5
  <2> QED
    BY <1>4, <2>1, <2>2, <2>3 DEF NewLastUser, UserOf
<1>8. DOMAIN lastUser' = DOMAIN lastUser \cup {p} /\ lastUser'[p] = p
  BY <1>4 DEF NewLastUser
<1> QED
  BY <1>1, <1>2, <1>3, <1>7, <1>8

LEMMA ReleasesAssign ==
  ASSUME Structure, Releases, NEW m, NEW ms, NEW av, NEW made,
         Assigns(m, ms, av, made)
  PROVE  Releases'
<1> USE DEF Releases
<1> DEFINE n == Len(passes)  S == RelyOn(av, Required(av, m))
<1>1. PICK p : p = Len(passes')
  OBVIOUS
<1>2. /\ phase = "building" /\ UNCHANGED <<phase, lastUses, at, count>> /\ top' = m
      /\ n \in Nat /\ n < p /\ p \in Nat /\ m \in 0..p - 1
      /\ passes'[p] = NewPass(Current.id, Current.use, m)
      /\ \A q \in Made : passes'[q] = passes[q] /\ result'[q] = result[q]
      /\ \A q \in 1..p \ Made : result'[q] = NoResult
  BY <1>1, AssignFacts DEF Structure
<1>3. /\ Made' = 1..p /\ p \in 1..p
      /\ \A q \in Made : /\ q \in 1..p /\ q < p /\ Manager(q)' = Manager(q)
                         /\ IsManager(q)' = IsManager(q)
  BY <1>1, <1>2 DEF Made, Manager, IsManager
<1>4. /\ S \subseteq Found(av) /\ DOMAIN lastUser' = DOMAIN lastUser \cup {p}
      /\ lastUser'[p] = p
      /\ \A q \in DOMAIN lastUser :
           /\ q \in Made
           /\ lastUser'[q] = IF q \in S THEN UserOf(q, p, m)
                             ELSE IF lastUser[q] \in S THEN UserOf(lastUser[q], p, m)
                             ELSE lastUser[q]
  BY <1>1, AssignUsers
<1> HIDE DEF S
<1>5. Manager(p)' = m
  BY <1>2 DEF Manager, NewPass
<1>6. m # Top => m \in 1..p /\ Manager(m)' = Top
  <2>1. Structure'
    BY StructureAssign
  <2>2. m # Top => m \in Made' /\ IsManager(m)'
    <3>1. m # Top => top' \in Made' /\ IsManager(top)'
      BY <1>2, <2>1 DEF Structure, Types, Nesting
    <3> QED
      BY <1>2, <3>1 DEF IsManager
  <2> QED
    BY <1>3, <2>1, <2>2 DEF Structure, Nesting
<1>7. ASSUME NEW q \in Found(av)
      PROVE  /\ q \in Made /\ UserOf(q, p, m) \in 1..p /\ q <= UserOf(q, p, m)
             /\ passes'[UserOf(q, p, m)].manager = Manager(q)
  <2>1. /\ q \in Made
        /\ \/ Manager(q) = m
           \/ Manager(q) = Top /\ m # Top /\ q < m
    BY AssignFound
  <2>2. CASE Manager(q) = m
    <3>1. UserOf(q, p, m) = p
      BY <2>2 DEF UserOf
    <3> QED
      BY <1>2, <1>3, <2>1, <2>2, <3>1 DEF NewPass, Made
  <2>3. CASE Manager(q) # m
    <3>1. UserOf(q, p, m) = m /\ Manager(q) = Top /\ m # Top /\ q < m
      BY <2>1, <2>3 DEF UserOf
    <3> QED
      BY <1>2, <1>6, <2>1, <3>1 DEF Made, Manager
  <2> QED
    BY <2>2, <2>3
<1>8. Users'
  <2> SUFFICES ASSUME NEW q \in DOMAIN lastUser \cup {p}
               PROVE  /\ lastUser'[q] \in 1..p /\ q <= lastUser'[q]
                      /\ passes'[lastUser'[q]].manager = passes'[q].manager
    BY <1>3, <1>4 DEF Users, Manager
  <2>1. CASE q = p
    BY <1>2, <1>3, <1>4, <2>1
  <2>2. CASE q \in DOMAIN lastUser
    <3>1. /\ q \in Made /\ lastUser[q] \in Made /\ q <= lastUser[q]
          /\ Manager(lastUser[q]) = Manager(q) /\ passes'[q].manager = Manager(q)
          /\ passes'[lastUser[q]].manager = Manager(q)
      BY <1>2, <1>4, <2>2 DEF Users, Manager
    <3>2. CASE q \in S
      <4>1. lastUser'[q] = UserOf(q, p, m)
        BY <1>4, <2>2, <3>2
      <4> QED
        BY <1>4, <1>7, <3>1, <3>2, <4>1
    <3>3. CASE q \notin S /\ lastUser[q] \in S
      <4>1. /\ lastUser'[q] = UserOf(lastUser[q], p, m)
            /\ UserOf(lastUser[q], p, m) \in 1..p
            /\ lastUser[q] <= UserOf(lastUser[q], p, m)
            /\ passes'[UserOf(lastUser[q], p, m)].manager = Manager(lastUser[q])
        BY <1>4, <1>7, <2>2, <3>3
      <4>2. q \in Nat /\ lastUser[q] \in Nat /\ lastUser'[q] \in Nat
        BY <3>1, <4>1 DEF Made
      <4> QED
        BY <3>1, <4>1, <4>2
    <3>4. CASE q \notin S /\ lastUser[q] \notin S
      <4>1. lastUser'[q] = lastUser[q]
        BY <1>4, <2>2, <3>4
      <4> QED
        BY <1>3, <3>1, <4>1
    <3> QED
      BY <3>2, <3>3, <3>4
  <2> QED
    BY <2>1, <2>2
<1>9. Uses'
  <2>1. lastUses \subseteq Made \X Made /\ Made \subseteq 1..p
    BY <1>3 DEF Uses
  <2>2. \A q, r : <<q, r>> \in lastUses => q \in Made /\ r \in Made
    BY <2>1
  <2> QED
    BY <1>2, <1>3, <2>1, <2>2 DEF Uses
<1>10. Here'
  <2> SUFFICES ASSUME NEW e \in available' PROVE e.in \in {Top, m}
    BY <1>2 DEF Here
  <2>1. e \in av \/ e = Entry(m, Current.id, p)
    BY <1>1, AssignEntries
  <2> QED
    BY <2>1, AssignFound DEF Entry
<1>11. Held'
  <2>1. \A q \in 1..p : result'[q] = NoResult
    BY <1>2 DEF Held
  <2> QED
    BY <1>2, <1>3, <2>1 DEF Held, IsHeld, NoResult
<1> QED
  BY <1>8, <1>9, <1>10, <1>11

(* The last user of a result that a pass p leaves is still to come. *)
LEMMA StillUsed ==
  ASSUME Structure, Releases, phase = "running", NEW p \in Made, NEW q \in Made,
         ~IsManager(q), q \notin LastUsesOf(p), q <= p, p <= lastUser[q],
         Manager(q) = Manager(p)
  PROVE  LET r == PassAfter(Manager(p), p) IN
         /\ r \in Made /\ q < r /\ r <= lastUser[q] /\ Manager(r) = Manager(p)
<1>1. q \in DOMAIN lastUser
  BY DEF Structure, Types
<1>2. lastUser[q] # p
  BY <1>1 DEF Releases, Uses, LastUsesOf, Made
<1>3. lastUser[q] \in Made /\ lastUser[q] > p /\ Manager(lastUser[q]) = Manager(p)
  BY <1>1, <1>2 DEF Releases, Users, Made
<1> QED
  BY <1>3, PassAfterFacts DEF Structure, Types, Made, NoPass

(* What is released has no entry left, in the manager that releases it.      *)
LEMMA NoReleasedEntry ==
  ASSUME Structure, Releases, NEW p \in Made, NEW e,
         e.pass \in Made, Id(e.pass) = e.id, Manager(e.pass) = e.in,
         e.in # Manager(p) \/ e.id \notin {Id(q) : q \in LastUsesOf(p)}
  PROVE  e.pass \notin LastUsesOf(p)
BY DEF Releases, Uses, LastUsesOf, Made

LEMMA NoResultStale ==
  [NoResult EXCEPT !.fresh = FALSE] = NoResult
<1> DEFINE r == NoResult
<1>1. r = [of |-> -1, fresh |-> FALSE] /\ DOMAIN r = {"of", "fresh"} /\ r.fresh = FALSE
  BY DEF NoResult
<1> HIDE DEF r
<1>2. [r EXCEPT !.fresh = FALSE] = r
  BY <1>1
<1> QED
  BY <1>2 DEF r

LEMMA ReleasesRuns ==
  ASSUME Structure, Releases, NEW p \in Made, Runs(p)
  PROVE  Releases'
<1> USE DEF Releases
<1> DEFINE m == Manager(p)
           av == Record(RemoveNotPreserved(available, m, InheritedBy(m), passes[p].use),
                        m, Id(p), p)
<1>1. /\ phase = "running" /\ at.pass = p /\ ~IsManager(p)
      /\ UNCHANGED <<phase, passes, top, lastUser, lastUses>>
      /\ at' = [at EXCEPT !.pass = IF m # Top /\ PassAfter(m, p) = NoPass
                                   THEN m ELSE PassAfter(m, p)]
  BY DEF Runs, plan
<1>2. /\ \A q \in Made : result'[q] =
           IF q \in LastUsesOf(p) THEN NoResult
           ELSE IF q = p THEN [of |-> at.function, fresh |-> TRUE]
           ELSE IF Keeps(p, Id(q)) THEN result[q]
           ELSE [result[q] EXCEPT !.fresh = FALSE]
      /\ available' = {e \in av : e.in # m \/ e.id \notin {Id(q) : q \in LastUsesOf(p)}}
      /\ av \subseteq available \cup {Entry(m, Id(p), p)}
  BY RunsFacts DEF Structure
<1> HIDE DEF av, m
<1>3. /\ p \in Nat \ {0} /\ at'.pass \in Nat /\ Len(passes) \in Nat
      /\ at' \in [pass : {NoPass} \cup Made, function : 0..MaxFunctions]
      /\ at'.pass = IF m # Top /\ PassAfter(m, p) = NoPass THEN m ELSE PassAfter(m, p)
      /\ at.function # -1 /\ \A q \in Made : result[q] \in ResultType
  <2>1. Structure'
    BY StructureRunning
  <2>2. at' \in [pass : {NoPass} \cup Made, function : 0..MaxFunctions]
    BY <1>1, <2>1 DEF Structure, Types, Made
  <2> QED
    BY <1>1, <2>2, Declarations DEF Structure, Types, Made, NoPass
<1>4. Users' /\ Uses' /\ Here'
  BY <1>1 DEF Users, Uses, Here, Made, Manager, IsManager
<1>5. ASSUME NEW q \in Made
      PROVE  /\ ~IsHeld(q)' => result'[q] = NoResult
             /\ IsHeld(q)' <=> q \notin LastUsesOf(p) /\ (q = p \/ IsHeld(q))
  <2>1. result[q].of # -1 \/ result[q] = NoResult
    BY DEF Held, IsHeld
  <2>2. [result[q] EXCEPT !.fresh = FALSE].of = result[q].of
    BY <1>3 DEF ResultType
  <2>3. [NoResult EXCEPT !.fresh = FALSE] = NoResult
    BY <1>3, NoResultStale
  <2>4. [of |-> at.function, fresh |-> TRUE].of # -1 /\ NoResult.of = -1
    BY <1>3 DEF NoResult
  <2> QED
    BY <1>2, <2>1, <2>2, <2>3, <2>4 DEF IsHeld
<1>6. ASSUME NEW q \in Made, IsHeld(q)'
      PROVE  ~IsManager(q) /\ Awaited(q)'
  <2>1. /\ q \notin LastUsesOf(p) /\ ~IsManager(q)
        /\ q = p \/ Awaited(q)
    BY <1>1, <1>5, <1>6 DEF Held
  <2>2. m # Top => m \in Made /\ Manager(m) = Top
    <3>1. m # Top => m \in 1..p - 1 /\ IsManager(m)
      BY DEF Structure, Nesting, m
    <3>2. m # Top => m \in Made
      BY <1>3, <3>1 DEF Made
    <3> QED
      BY <3>1, <3>2 DEF Structure, Nesting
  <2>3. CASE Manager(q) = m
    <3>1. q <= p /\ p <= lastUser[q]
      <4>1. CASE q = p
        <5>1. q \in DOMAIN lastUser
          BY <2>1 DEF Structure, Types
        <5> QED
          BY <1>3, <4>1, <5>1 DEF Users
      <4>2. CASE q # p
        BY <1>1, <1>3, <2>1, <2>3, <4>2 DEF Awaited, TopPass, m, NoPass, Made
      <4> QED
        BY <4>1, <4>2
    <3>2. LET r == PassAfter(m, p) IN
          r \in Made /\ q < r /\ r <= lastUser[q] /\ Manager(r) = m
      BY <1>1, <2>1, <2>3, <3>1, StillUsed DEF m
    <3>3. at'.pass = PassAfter(m, p) /\ at'.pass # NoPass
      BY <1>3, <3>2 DEF Made, NoPass
    <3>4. /\ at'.pass # NoPass /\ q < at'.pass /\ at'.pass <= lastUser[q]
          /\ passes'[at'.pass].manager = m /\ passes'[q].manager = m
      BY <1>1, <2>3, <3>2, <3>3 DEF Manager
    <3>5. m = Top => TopPass' = at'.pass
      BY <3>4 DEF TopPass, Manager
    <3>6. passes' = passes /\ lastUser' = lastUser
      BY <1>1
    <3>7. Awaited(q)'
      <4>1. CASE m = Top
        BY <3>4, <3>5, <3>6, <4>1 DEF Awaited, Manager
      <4>2. CASE m # Top
        BY <3>4, <3>6, <4>2 DEF Awaited, Manager
      <4> QED
        BY <4>1, <4>2
    <3> QED
      BY <2>1, <3>7
  <2>4. CASE Manager(q) # m
    <3>1. q # p /\ Awaited(q)
      BY <2>1, <2>4 DEF m
    <3>2. /\ Manager(q) = Top /\ m # Top /\ TopPass = m
      BY <1>1, <1>3, <2>4, <3>1 DEF Awaited, TopPass, m, NoPass
    <3>3. q < m /\ m <= lastUser[q]
      BY <3>1, <3>2 DEF Awaited
    <3>4. at'.pass # NoPass /\ (at'.pass = m \/ Manager(at'.pass) = m)
      <4>1. PassAfter(m, p) = NoPass \/ Manager(PassAfter(m, p)) = m
        BY <1>3, PassAfterFacts DEF Structure, Types
      <4> QED
        BY <1>3, <2>2, <3>2, <4>1 DEF Made, NoPass
    <3>5. TopPass' = m
      BY <1>1, <2>2, <3>2, <3>4 DEF TopPass, Manager
    <3>6. passes'[q].manager = Top /\ lastUser' = lastUser
      BY <1>1, <3>2 DEF Manager
    <3>7. Awaited(q)'
      BY <3>3, <3>5, <3>6 DEF Awaited, Manager
    <3> QED
      BY <2>1, <3>7
  <2> QED
    BY <2>3, <2>4
<1>7. ASSUME NEW e \in available'
      PROVE  e.id = FPManager \/ IsHeld(e.pass)'
  <2>1. e \in available \/ e = Entry(m, Id(p), p)
    BY <1>2, <1>7
  <2>2. /\ e.pass \in Made /\ Id(e.pass) = e.id /\ Manager(e.pass) = e.in
    BY <1>3, <2>1 DEF Structure, Entries, WellFormed, Entry, Id, Manager, Made, m
  <2>3. e.pass \notin LastUsesOf(p)
    BY <1>2, <1>7, <2>2, NoReleasedEntry DEF m
  <2>4. e.id = FPManager \/ e.pass = p \/ IsHeld(e.pass)
    BY <1>1, <2>1 DEF Held, Entry
  <2> QED
    BY <1>5, <2>2, <2>3, <2>4
<1>8. Held'
  <2>1. \A q \in Made : IsManager(q)' = IsManager(q)
    BY <1>1 DEF IsManager
  <2>2. Made' = Made
    BY <1>1 DEF Made
  <2> QED
    BY <1>1, <1>5, <1>6, <1>7, <2>1, <2>2 DEF Held
<1> QED
  BY <1>4, <1>8

LEMMA ReleasesSame ==
  ASSUME Structure, Releases, Moves \/ Fails \/ UNCHANGED vars
  PROVE  Releases'
<1>1. /\ UNCHANGED <<passes, top, available, lastUser, lastUses, result, at>>
      /\ phase' = phase \/ (phase = "building" /\ phase' = "unable")
  <2>1. CASE Moves
    BY <2>1, MoveFacts DEF Structure
  <2>2. CASE Fails
    <3>1. frames # <<>>
      BY <2>2 DEF Fails, Schedulable
    <3> QED
      BY <2>2, <3>1 DEF Fails, Structure, Types
  <2>3. CASE UNCHANGED vars
    BY <2>3 DEF vars
  <2> QED
    BY <2>1, <2>2, <2>3
<1>2. Made' = Made /\ TopPass' = TopPass
  BY <1>1 DEF Made, TopPass, Manager
<1>3. \A q \in Made : /\ Manager(q)' = Manager(q) /\ IsManager(q)' = IsManager(q)
                      /\ IsHeld(q)' = IsHeld(q) /\ Awaited(q)' = Awaited(q)
  BY <1>1, <1>2 DEF Manager, IsManager, IsHeld, Awaited
<1>4. Users' /\ Uses'
  BY <1>1, <1>2 DEF Releases, Users, Uses, Manager, IsManager
<1>5. Here'
  BY <1>1 DEF Releases, Here
<1>6. Held'
  <2>1. \A q \in Made : ~IsHeld(q)' => result'[q] = NoResult
    BY <1>1, <1>3 DEF Releases, Held
  <2>2. \A q \in Made : IsHeld(q)' => phase' = "running" /\ ~IsManager(q)' /\ Awaited(q)'
    BY <1>1, <1>3 DEF Releases, Held
  <2>3. phase' = "running" => \A e \in available' : e.id = FPManager \/ IsHeld(e.pass)'
    BY <1>1 DEF Releases, Held, IsHeld
  <2> QED
    BY <1>2, <2>1, <2>2, <2>3 DEF Held
<1> QED
  BY <1>4, <1>5, <1>6 DEF Releases

(* A run starts with nothing held, and when it ends nothing is.              *)
LEMMA ReleasesStart ==
  ASSUME Structure, Releases, StartRun
  PROVE  Releases'
<1>1. /\ UNCHANGED <<passes, top, lastUser, result>> /\ phase = "building"
      /\ phase' = "running" /\ available' = {}
      /\ lastUses' = lastUses \cup {<<lastUser[q], q>> : q \in DOMAIN lastUser}
  BY DEF StartRun, plan
<1>2. \A q \in Made : result[q] = NoResult
  BY <1>1 DEF Releases, Held
<1>3. Held'
  <2>1. NoResult.of = -1
    BY DEF NoResult
  <2> QED
    BY <1>1, <1>2, <2>1 DEF Held, IsHeld, Made
<1>4. Users' /\ Here'
  BY <1>1 DEF Releases, Users, Here, Made, Manager
<1>5. DOMAIN lastUser = {q \in Made : ~IsManager(q)}
  BY DEF Structure, Types
<1>6. Uses'
  <2>1. \A q \in DOMAIN lastUser :
          lastUser[q] \in Made /\ Manager(lastUser[q]) = Manager(q)
    BY DEF Releases, Users
  <2>2. lastUses' \subseteq Made \X Made
    BY <1>1, <1>5, <2>1 DEF Releases, Uses
  <2>3. ASSUME NEW p \in Made, NEW q \in Made, <<p, q>> \in lastUses'
        PROVE  Manager(p) = Manager(q) /\ ~IsManager(q)
    <3>1. <<p, q>> \in lastUses \/ (q \in DOMAIN lastUser /\ p = lastUser[q])
      BY <1>1, <2>3
    <3> QED
      BY <1>5, <2>1, <2>3, <3>1 DEF Releases, Uses
  <2>4. \A q \in DOMAIN lastUser : <<lastUser[q], q>> \in lastUses'
    BY <1>1
  <2> QED
    BY <1>1, <2>2, <2>3, <2>4 DEF Uses, Made, Manager, IsManager
<1> QED
  BY <1>3, <1>4, <1>6 DEF Releases

LEMMA NothingHeld ==
  ASSUME Structure, Releases, phase = "running", at.pass = NoPass
  PROVE  /\ \A q \in Made : ~IsHeld(q)
         /\ \A e \in available : e.id = FPManager /\ e.in = Top
<1>1. ASSUME NEW q \in Made, IsHeld(q) PROVE FALSE
  <2>1. ~IsManager(q) /\ Awaited(q)
    BY <1>1 DEF Releases, Held
  <2>2. lastUser[q] \in Made
    BY <2>1 DEF Releases, Users, Structure, Types
  <2> QED
    BY <2>1, <2>2 DEF Awaited, TopPass, Made, Structure, Types
<1>2. ASSUME NEW e \in available PROVE e.id = FPManager /\ e.in = Top
  <2>1. e.pass \in Made /\ Id(e.pass) = e.id /\ Manager(e.pass) = e.in
    BY DEF Structure, Entries, WellFormed, Made, Id, Manager
  <2>2. e.id = FPManager
    BY <1>1, <2>1 DEF Releases, Held
  <2> QED
    BY <2>1, <2>2 DEF Structure, Nesting, IsManager, Id
<1> QED
  BY <1>1, <1>2

LEMMA ReleasesEnd ==
  ASSUME Structure, Releases, EndRun
  PROVE  Releases'
<1>1. /\ UNCHANGED <<passes, top, lastUser, lastUses, available, result, at>>
      /\ phase = "running" /\ phase' = "building" /\ at.pass = NoPass
  BY DEF EndRun, plan
<1>2. /\ \A q \in Made : ~IsHeld(q)
      /\ \A e \in available : e.id = FPManager /\ e.in = Top
  BY <1>1, NothingHeld
<1>3. Held'
  BY <1>1, <1>2 DEF Releases, Held, IsHeld, Made, IsManager
<1>4. Here'
  BY <1>1, <1>2 DEF Here
<1>5. Users' /\ Uses'
  BY <1>1 DEF Releases, Users, Uses, Made, Manager, IsManager
<1> QED
  BY <1>3, <1>4, <1>5 DEF Releases

LEMMA ReleasesNextFunction ==
  ASSUME Structure, Releases, NEW m \in Made, NextFunction(m)
  PROVE  Releases'
<1>1. /\ UNCHANGED <<phase, passes, top, lastUser, lastUses, available, result>>
      /\ phase = "running" /\ at.pass = m /\ IsManager(m)
      /\ at'.pass = PassAfter(m, NoPass)
  BY DEF NextFunction, Running, plan
<1>2. /\ m \in Nat \ {0} /\ m + 1 \in Made /\ Manager(m) = Top /\ Manager(m + 1) = m
      /\ \A q \in Made : q > 0
  BY <1>1 DEF Structure, Nesting, Made, Types
<1>3. at'.pass \in Made /\ Manager(at'.pass) = m /\ at'.pass # NoPass
  <2>1. NoPass \in Nat /\ \A q \in Made : q \in Nat
    BY DEF NoPass, Made
  <2> QED
    BY <1>1, <1>2, <2>1, PassAfterFacts DEF Structure, Types, NoPass
<1>4. TopPass = m /\ TopPass' = m
  <2>1. TopPass = m
    BY <1>1, <1>2 DEF TopPass, Made, NoPass
  <2>2. passes'[at'.pass].manager = m /\ m # Top
    BY <1>1, <1>2, <1>3 DEF Manager, Top
  <2> QED
    BY <1>3, <2>1, <2>2 DEF TopPass, Manager
<1>5. ASSUME NEW q \in Made, IsHeld(q)
      PROVE  ~IsManager(q) /\ Awaited(q)'
  <2>1. ~IsManager(q) /\ Awaited(q)
    BY <1>5 DEF Releases, Held
  <2>2. Manager(q) = Top
    BY <1>1, <1>2, <2>1 DEF Awaited
  <2>3. passes'[q].manager = Top /\ lastUser' = lastUser
    BY <1>1, <2>2 DEF Manager
  <2> QED
    BY <1>4, <2>1, <2>2, <2>3 DEF Awaited, Manager
<1>6. Held'
  <2>1. \A q \in Made : IsHeld(q)' = IsHeld(q) /\ IsManager(q)' = IsManager(q)
    BY <1>1 DEF IsHeld, IsManager
  <2>2. \A q \in Made : ~IsHeld(q)' => result'[q] = NoResult
    BY <1>1, <2>1 DEF Releases, Held
  <2>3. phase' = "running" => \A e \in available' : e.id = FPManager \/ IsHeld(e.pass)'
    BY <1>1 DEF Releases, Held, IsHeld
  <2>4. Made' = Made
    BY <1>1 DEF Made
  <2> QED
    BY <1>1, <1>5, <2>1, <2>2, <2>3, <2>4 DEF Held
<1>7. Users' /\ Uses' /\ Here'
  BY <1>1 DEF Releases, Users, Uses, Here, Made, Manager, IsManager
<1> QED
  BY <1>6, <1>7 DEF Releases

LEMMA ReleasesFinish ==
  ASSUME Structure, Releases, NEW m \in Made, FinishFunctions(m)
  PROVE  Releases'
<1> DEFINE av == Record(available, Top, FPManager, m)
<1>1. /\ phase = "running" /\ at.pass = m /\ IsManager(m)
      /\ at'.pass = PassAfter(Top, m)
      /\ UNCHANGED <<phase, passes, top, lastUser, lastUses>>
      /\ \A q \in Made : result'[q] = IF q \in LastUsesOf(m) THEN NoResult ELSE result[q]
      /\ available' = {e \in av : e.in # Top \/ e.id \notin {Id(q) : q \in LastUsesOf(m)}}
      /\ av \subseteq available \cup {Entry(Top, FPManager, m)}
  BY FinishFacts DEF Structure, plan
<1> HIDE DEF av
<1>2. m \in Nat \ {0} /\ Manager(m) = Top
  BY <1>1 DEF Structure, Nesting, Made
<1>3. TopPass = m
  BY <1>1, <1>2 DEF TopPass, NoPass
<1>4. ASSUME NEW q \in Made
      PROVE  /\ ~IsHeld(q)' => result'[q] = NoResult
             /\ IsHeld(q)' <=> q \notin LastUsesOf(m) /\ IsHeld(q)
  <2>1. NoResult.of = -1
    BY DEF NoResult
  <2> QED
    BY <1>1, <2>1 DEF Releases, Held, IsHeld
<1>5. ASSUME NEW q \in Made, IsHeld(q)'
      PROVE  ~IsManager(q) /\ Awaited(q)'
  <2>1. q \notin LastUsesOf(m) /\ ~IsManager(q) /\ Awaited(q)
    BY <1>4, <1>5 DEF Releases, Held
  <2>2. Manager(q) = Top /\ q < m /\ m <= lastUser[q]
    BY <1>1, <1>2, <1>3, <2>1 DEF Awaited
  <2>3. q <= m
    BY <1>2, <2>2 DEF Made
  <2>4. /\ PassAfter(Top, m) \in Made /\ q < PassAfter(Top, m)
        /\ PassAfter(Top, m) <= lastUser[q] /\ Manager(PassAfter(Top, m)) = Top
    BY <1>1, <1>2, <2>1, <2>2, <2>3, StillUsed
  <2>5. /\ at'.pass # NoPass /\ q < at'.pass /\ at'.pass <= lastUser[q]
        /\ passes'[at'.pass].manager = Top /\ passes'[q].manager = Top
    BY <1>1, <2>2, <2>4 DEF Manager, Made, NoPass
  <2>6. TopPass' = at'.pass /\ lastUser' = lastUser
    BY <1>1, <2>5 DEF TopPass, Manager
  <2>7. Awaited(q)'
    BY <2>5, <2>6 DEF Awaited, Manager
  <2> QED
    BY <2>1, <2>7
<1>6. ASSUME NEW e \in available'
      PROVE  e.id = FPManager \/ IsHeld(e.pass)'
  <2>1. e \in available \/ e = Entry(Top, FPManager, m)
    BY <1>1, <1>6
  <2>2. CASE e = Entry(Top, FPManager, m)
    BY <2>2 DEF Entry
  <2>3. CASE e \in available
    <3>1. e.pass \in Made /\ Id(e.pass) = e.id /\ Manager(e.pass) = e.in
      BY <2>3 DEF Structure, Entries, WellFormed, Made, Id, Manager
    <3>2. e.pass \notin LastUsesOf(m)
      BY <1>1, <1>2, <1>6, <3>1, NoReleasedEntry
    <3>3. e.id = FPManager \/ IsHeld(e.pass)
      BY <1>1, <2>3 DEF Releases, Held
    <3> QED
      BY <1>4, <3>1, <3>2, <3>3
  <2> QED
    BY <2>1, <2>2, <2>3
<1>7. Held'
  <2>1. \A q \in Made : IsManager(q)' = IsManager(q)
    BY <1>1 DEF IsManager
  <2>2. Made' = Made
    BY <1>1 DEF Made
  <2> QED
    BY <1>1, <1>4, <1>5, <1>6, <2>1, <2>2 DEF Held
<1>8. Users' /\ Uses' /\ Here'
  BY <1>1 DEF Releases, Users, Uses, Here, Made, Manager, IsManager
<1> QED
  BY <1>7, <1>8 DEF Releases

LEMMA ReleasesNext ==
  ASSUME Structure, Releases, [Next]_vars
  PROVE  Releases'
BY StepCases, ReleasesSame, ReleasesAssign, ReleasesStart, ReleasesEnd, ReleasesRuns,
   ReleasesNextFunction, ReleasesFinish DEF Steps

LEMMA AlwaysReleases == Spec => []Releases
<1>1. Init => Releases
  <2> SUFFICES ASSUME Init PROVE Releases
    OBVIOUS
  <2>1. Made = {} /\ DOMAIN lastUser = {} /\ lastUses = {} /\ available = {}
    BY DEF Init, Made
  <2> QED
    BY <2>1 DEF Init, Releases, Users, Uses, Here, Held
<1> QED
  BY <1>1, AlwaysStructure, ReleasesNext, PTL DEF Spec

(* Whatever is run, every result is released after its last user: none is    *)
(* left when a run ends, and none of another function when its pass runs     *)
(* again (removeDeadPasses, freePass).                                       *)
THEOREM EveryResultIsReleased == Spec => []NothingIsLeaked
<1>1. ASSUME Structure, Releases PROVE NothingIsLeaked
  <2> SUFFICES ASSUME NEW p \in Made, result[p] # NoResult
               PROVE  phase = "running" /\ at.pass # p
    BY DEF NothingIsLeaked, Made
  <2>1. phase = "running" /\ Awaited(p)
    BY <1>1 DEF Releases, Held
  <2>2. ASSUME at.pass = p PROVE FALSE
    BY <2>1, <2>2 DEF Awaited, TopPass, Made, NoPass
  <2> QED
    BY <2>1, <2>2
<1> QED
  BY <1>1, AlwaysStructure, AlwaysReleases, PTL
-----------------------------------------------------------------------------
(* Whether some manager's map names pass q.                                  *)
HasEntry(q) == \E e \in available : e.pass = q

(* Pass q is the one that p is connected to for analysis id: it stays until  *)
(* p has run, or the manager of p if that is below its own.                  *)
Source(q, p, id) ==
  /\ q \in Made /\ Id(q) = id /\ q < p /\ Manager(q) \in {Top, Manager(p)}
  /\ lastUser[q] >= IF Manager(q) = Manager(p) THEN p ELSE Manager(p)

(* While passes are added: an analysis is in a map until a pass that does not *)
(* preserve it is added, and was added after the last run.                   *)
Mapped ==
  phase = "building" =>
    /\ \A e \in available : e.id \in Analyses =>
         /\ \A r \in e.pass + 1..Len(passes) :
              Keeps(r, e.id) /\ ~(Id(r) = e.id /\ Manager(r) = e.in)
         /\ \A u \in Made : <<u, e.pass>> \notin lastUses
    /\ top # Top /\ top \notin inherited =>
         \A e \in available : e.in = Top => e.id \notin Analyses

(* The plan. What has run keeps its last user; what a pass requires is a pass *)
(* that all between keep.                                                    *)
Planned ==
  /\ \A u, q \in Made : <<u, q>> \in lastUses =>
       lastUser[q] = u /\ (IsManager(u) \/ \E w \in Made : <<w, u>> \in lastUses)
  /\ \A p \in DOMAIN lastUser : \A id \in ToSet(passes[p].use.requires) :
       \E q \in Made : /\ Source(q, p, id)
                       /\ \A r \in q + 1..p - 1 : Keeps(r, id)

(* The passes that have run since pass q has.                                *)
Since(q) ==
  {r \in q + 1..Len(passes) :
     \/ r < at.pass
     \/ /\ Manager(q) = Top /\ Manager(r) = TopPass
        /\ at.function > IF at.pass = TopPass THEN 0 ELSE 1}

(* In a run, what has a user to come is held and, unless a pass that has run *)
(* since does not preserve it, up to date and, if none outlives its          *)
(* successor, in the map of its manager.                                     *)
Lasting(q) == Id(q) \in Analyses \ Outlived
Lives ==
  phase = "running" => \A q \in DOMAIN lastUser : Awaited(q) =>
    /\ result[q].of = IF Manager(q) = Top THEN 0 ELSE at.function
    /\ (\A r \in Since(q) : Keeps(r, Id(q))) =>
         result[q].fresh /\ (Lasting(q) => HasEntry(q))

Connected ==
  \A p \in Made : \A id \in DOMAIN impls[p] : Source(impls[p][id], p, id)

(* Which entries an assignment leaves in the maps.                           *)
LEMMA AssignLeaves ==
  ASSUME Structure, Releases, Mapped, NEW m, NEW ms, NEW av, NEW made,
         Assigns(m, ms, av, made)
  PROVE  LET p == Len(passes')
             Preserved(id) == Current.use.all \/ id \in Current.use.preserves IN
         /\ \A e \in available' : \/ e = Entry(m, Current.id, p)
                                  \/ /\ e \in av /\ e.pass # p
                                     /\ ~(e.in = m /\ e.id = Current.id)
                                     /\ e.id \in Analyses =>
                                          e \in available /\ Preserved(e.id)
<1> DEFINE u == Current.use  left == RemoveNotPreserved(av, m, ms, u)
           Preserved(id) == u.all \/ id \in u.preserves
<1>1. PICK p : p = Len(passes')
  OBVIOUS
<1>2. /\ phase = "building" /\ p \in Nat /\ m \in Nat /\ m < p /\ Len(passes) < p
      /\ Current \in FrameType /\ \A q \in Made : q # p
  BY <1>1, AssignFacts DEF Structure, Made
<1>3. /\ available' = Record(left, m, Current.id, p) /\ left \subseteq av
      /\ av \in SUBSET EntryType
      /\ \A e \in av : e \in available \/ (made # <<>> /\ e = Entry(Top, FPManager, m))
  BY <1>1, AssignEntries
<1>5. ASSUME NEW e \in left, e.id \in Analyses PROVE e \in available /\ Preserved(e.id)
  <2>1. e \in av /\ e \in available /\ e.in \in {Top, m}
    BY <1>3, <1>5, AssignFound DEF Releases
  <2>2. Preserved(e.id) \/ e.in \notin {m} \cup ms
    BY DEF RemoveNotPreserved
  <2>3. ASSUME e.in \notin {m} \cup ms PROVE FALSE
    <3>1. e.in = Top /\ m # Top /\ Top \notin ms
      BY <2>1, <2>3
    <3>2. m = top /\ top # Top /\ ms = InheritedBy(top)
      BY <3>1 DEF Assigns
    <3>3. top \notin inherited
      BY <3>1, <3>2 DEF InheritedBy
    <3> QED
      BY <1>2, <1>5, <2>1, <3>1, <3>2, <3>3 DEF Mapped
  <2> QED
    BY <2>1, <2>2, <2>3
<1>6. ASSUME NEW e \in available'
      PROVE  \/ e = Entry(m, Current.id, p)
             \/ /\ e \in av /\ e.pass # p /\ ~(e.in = m /\ e.id = Current.id)
                /\ e.id \in Analyses => e \in available /\ Preserved(e.id)
  <2>1. \/ e = Entry(m, Current.id, p)
        \/ e \in left /\ ~(e.in = m /\ e.id = Current.id)
    BY <1>3 DEF Record
  <2>2. ASSUME e \in left PROVE e \in av /\ e.pass # p
    <3>1. CASE e \in available
      <4>1. e.pass \in Made
        BY <3>1 DEF Structure, Entries, WellFormed, Made
      <4> QED
        BY <1>2, <1>3, <2>2, <4>1
    <3>2. CASE e = Entry(Top, FPManager, m)
      BY <1>2, <1>3, <2>2, <3>2 DEF Entry
    <3> QED
      BY <1>3, <2>2, <3>1, <3>2
  <2> QED
    BY <1>5, <2>1, <2>2
<1> HIDE DEF left
<1> QED
  BY <1>1, <1>6

(* Last users only move on; what gets another is in a map.                   *)
LEMMA AssignGrows ==
  ASSUME Structure, Releases, NEW m, NEW ms, NEW av, NEW made,
         Assigns(m, ms, av, made), NEW q \in DOMAIN lastUser
  PROVE  /\ q \in Made /\ q \in DOMAIN lastUser' /\ lastUser[q] \in Made
         /\ lastUser'[q] \in Nat /\ lastUser[q] <= lastUser'[q]
         /\ \/ lastUser'[q] = lastUser[q]
            \/ lastUser'[q] = Len(passes')
            \/ lastUser'[q] = m /\ m # Top /\ passes'[m].id = FPManager
<1> DEFINE n == Len(passes)  S == RelyOn(av, Required(av, m))
<1>1. PICK p : p = Len(passes')
  OBVIOUS
<1>2. /\ n \in Nat /\ n < p /\ p \in Nat /\ m \in 0..p - 1 /\ top' = m
      /\ m = Top \/ m = top \/ m = n + 1
  BY <1>1, AssignFacts DEF Structure
<1>3. /\ S \subseteq Found(av) /\ q \in Made /\ q \in DOMAIN lastUser'
      /\ lastUser'[q] = IF q \in S THEN UserOf(q, p, m)
                        ELSE IF lastUser[q] \in S THEN UserOf(lastUser[q], p, m)
                        ELSE lastUser[q]
  BY <1>1, AssignUsers DEF Releases
<1> HIDE DEF S
<1>4. lastUser[q] \in Made /\ q <= lastUser[q] /\ Manager(lastUser[q]) = Manager(q)
  BY DEF Releases, Users
<1>5. lastUser[q] \in Nat /\ lastUser[q] <= n /\ q \in Nat
  BY <1>2, <1>3, <1>4 DEF Made
<1>6. ASSUME m # Top PROVE passes'[m].id = FPManager
  <2>1. Structure'
    BY StructureAssign
  <2>2. IsManager(top)'
    BY <1>2, <1>6, <2>1 DEF Structure, Nesting
  <2> QED
    BY <1>2, <2>2 DEF IsManager
<1>7. ASSUME Manager(q) = Top, m # Top PROVE lastUser[q] <= m
  <2>1. m = n + 1 \/ m = top
    BY <1>2, <1>7
  <2>2. CASE m = n + 1
    BY <1>2, <1>5, <2>2
  <2>3. CASE m = top
    <3>1. ~(lastUser[q] > top)
      BY <1>4, <1>7, <2>3 DEF Structure, Nesting
    <3> QED
      BY <1>2, <1>5, <2>3, <3>1
  <2> QED
    BY <2>1, <2>2, <2>3
<1>8. ASSUME NEW x \in S, Manager(x) = Manager(q)
      PROVE  /\ UserOf(x, p, m) \in Nat /\ lastUser[q] <= UserOf(x, p, m)
             /\ UserOf(x, p, m) = p \/ (UserOf(x, p, m) = m /\ m # Top)
  <2>1. \/ Manager(x) = m
        \/ Manager(x) = Top /\ m # Top
    BY <1>3, AssignFound DEF Releases
  <2>2. CASE Manager(x) = m
    BY <1>2, <1>5, <2>2 DEF UserOf
  <2>3. CASE Manager(x) # m
    <3>1. UserOf(x, p, m) = m /\ m # Top /\ Manager(q) = Top
      BY <1>8, <2>1, <2>3 DEF UserOf
    <3> QED
      BY <1>2, <1>7, <3>1
  <2> QED
    BY <2>2, <2>3
<1> QED
  BY <1>1, <1>3, <1>4, <1>5, <1>6, <1>8

(* What a new pass requires is found, and it relies on it.                   *)
LEMMA RequirementFacts ==
  ASSUME Structure, Releases, NEW m, NEW ms, NEW av, NEW made,
         Assigns(m, ms, av, made)
  PROVE  /\ ToSet(Current.use.transitive) \subseteq ToSet(Current.use.requires)
         /\ ToSet(Current.use.requires) \subseteq Analyses
         /\ Required(av, m) \subseteq RelyOn(av, Required(av, m))
         /\ \A id \in ToSet(Current.use.requires) :
              LET q == FindFrom(av, m, id) IN
              /\ q \in Required(av, m) /\ q \in Found(av) /\ Id(q) = id
              /\ \E e \in available : /\ e \in av /\ e.pass = q /\ e.id = id
                                      /\ e.in = Manager(q)
<1> DEFINE u == Current.use
<1>1. /\ Current \in FrameType /\ u \in AnalysisUsages
      /\ ToSet(u.transitive) \subseteq ToSet(u.requires)
  <2>1. Current \in FrameType
    BY AssignFacts DEF Structure
  <2>2. \/ Current.id \in Analyses /\ u = Usage[Current.id]
        \/ Current.id # FPManager /\ u \in ClientUsages
    BY <2>1, Declarations DEF FrameType, Declared
  <2> QED
    BY <2>1, <2>2, UsageAssumption
<1>2. ToSet(u.requires) \subseteq Analyses
  BY <1>1 DEF AnalysisUsages, ToSet
<1>3. NoPass \notin Required(av, m) /\ av \in SUBSET EntryType
  BY AssignEntries
<1>4. ASSUME NEW id \in ToSet(u.requires)
      PROVE  LET q == FindFrom(av, m, id) IN
             /\ q \in Required(av, m) /\ q \in Found(av) /\ Id(q) = id
             /\ \E e \in available : /\ e \in av /\ e.pass = q /\ e.id = id
                                     /\ e.in = Manager(q)
  <2>1. PICK q : q = FindFrom(av, m, id)
    OBVIOUS
  <2>2. q \in Required(av, m) /\ q # NoPass /\ id \in Analyses
    BY <1>2, <1>3, <2>1 DEF Required
  <2>3. PICK e \in av : e.id = id /\ e.pass = q
    BY <1>3, <2>1, <2>2, FindFromFacts
  <2>4. e \in available
    BY <2>2, <2>3, AssignFound DEF Releases
  <2>5. e.in = Manager(q) /\ Id(q) = id
    BY <2>3, <2>4 DEF Structure, Entries, WellFormed, Id, Manager
  <2>6. q \in Found(av)
    BY <2>2, <2>3 DEF Found
  <2> QED
    BY <2>1, <2>2, <2>3, <2>4, <2>5, <2>6
<1>5. Required(av, m) \subseteq RelyOn(av, Required(av, m))
  <2>1. Required(av, m) \subseteq Found(av)
    BY <1>1, <1>4 DEF Required
  <2> QED
    BY <2>1 DEF RelyOn, Found
<1> QED
  BY <1>1, <1>2, <1>4, <1>5

LEMMA MappedAssign ==
  ASSUME Structure, Releases, Mapped, NEW m, NEW ms, NEW av, NEW made,
         Assigns(m, ms, av, made)
  PROVE  Mapped'
<1> DEFINE n == Len(passes)  u == Current.use
           Preserved(id) == u.all \/ id \in u.preserves
<1>1. PICK p : p = Len(passes')
  OBVIOUS
<1>2. /\ phase = "building" /\ UNCHANGED <<phase, lastUses>> /\ top' = m
      /\ n \in Nat /\ n < p /\ p \in Nat /\ Current \in FrameType
      /\ passes'[p] = NewPass(Current.id, u, m)
      /\ \A q \in Made : passes'[q] = passes[q]
      /\ \A q \in 1..p : q \notin Made /\ q # p =>
           passes'[q] = NewPass(FPManager, ManagerUsage, Top)
  <2>1. Types
    BY DEF Structure
  <2>2. /\ phase = "building" /\ UNCHANGED <<phase, lastUses>> /\ top' = m
        /\ n \in Nat /\ n < p /\ p \in {n + 1, n + 2} /\ Current \in FrameType
    BY <1>1, <2>1, AssignFacts
  <2>3. /\ passes'[p] = NewPass(Current.id, u, m)
        /\ \A q \in Made : passes'[q] = passes[q]
        /\ \A q \in 1..p : q \notin Made /\ q # p =>
             passes'[q] = NewPass(FPManager, ManagerUsage, Top)
    BY <1>1, <2>1, AssignFacts
  <2> QED
    BY <2>2, <2>3
<1>3. /\ Made' = 1..p /\ p \notin Made /\ \A q \in Made : q \in 1..p /\ q <= n
      /\ \A q \in Made : Id(q)' = Id(q) /\ Manager(q)' = Manager(q)
      /\ \A q \in Made : \A id : Keeps(q, id)' <=> Keeps(q, id)
  BY <1>1, <1>2 DEF Made, Id, Manager, Keeps
<1>4. \A e \in available' : \/ e = Entry(m, Current.id, p)
                            \/ /\ e \in av /\ e.pass # p
                               /\ ~(e.in = m /\ e.id = Current.id)
                               /\ e.id \in Analyses =>
                                    e \in available /\ Preserved(e.id)
  BY <1>1, AssignLeaves
<1>5. /\ Entry(m, Current.id, p).pass = p /\ Entry(m, Current.id, p).in = m
      /\ Entry(m, Current.id, p).id = Current.id
  BY DEF Entry
<1>7. ASSUME NEW e \in available', e.id \in Analyses, NEW r \in e.pass + 1..p
      PROVE  Keeps(r, e.id)' /\ ~(Id(r)' = e.id /\ Manager(r)' = e.in)
  <2>1. e # Entry(m, Current.id, p)
    BY <1>2, <1>5, <1>7
  <2>2. e \in available /\ Preserved(e.id)
    BY <1>4, <1>7, <2>1
  <2>3. e.pass \in Nat /\ r \in 1..p /\ (r \in Made => r \in e.pass + 1..n)
    <3>1. e.pass \in Nat
      BY <2>2 DEF Structure, Types, EntryType
    <3> QED
      BY <1>2, <1>7, <3>1 DEF Made
  <2>4. CASE r \in Made
    BY <1>2, <1>3, <1>7, <2>2, <2>3, <2>4 DEF Mapped
  <2>5. CASE r = p
    <3>1. ~(e.in = m /\ e.id = Current.id)
      BY <1>4, <1>7, <2>1
    <3> QED
      BY <1>2, <2>2, <2>5, <3>1 DEF Keeps, Id, Manager, NewPass
  <2>6. CASE r \notin Made /\ r # p
    BY <1>2, <1>7, <2>3, <2>6, Declarations DEF Keeps, Id, NewPass, ManagerUsage
  <2> QED
    BY <2>4, <2>5, <2>6
<1>9. ASSUME NEW e \in available', e.id \in Analyses, NEW x \in Made'
      PROVE  <<x, e.pass>> \notin lastUses
  <2>1. lastUses \subseteq Made \X Made
    BY DEF Releases, Uses
  <2>2. CASE e = Entry(m, Current.id, p)
    BY <1>3, <1>5, <2>1, <2>2
  <2>3. CASE e \in available
    BY <1>2, <1>9, <2>1, <2>3 DEF Mapped
  <2> QED
    BY <1>4, <1>9, <2>2, <2>3
<1>10. ASSUME m # Top, m \notin inherited', NEW e \in available', e.in = Top
       PROVE  e.id \notin Analyses
  <2>1. /\ inherited' = (inherited \ ({top} \ {m})) \cup {q \in {m} : made # <<>>}
    BY DEF Assigns, AddTo, Required
  <2>2. made = <<>> /\ m = top
    BY <1>10, <2>1 DEF Assigns
  <2>3. top \notin inherited
    BY <1>10, <2>1, <2>2
  <2> QED
    BY <1>2, <1>4, <1>5, <1>10, <2>2, <2>3 DEF Mapped
<1> QED
  BY <1>1, <1>2, <1>3, <1>7, <1>9, <1>10 DEF Mapped

LEMMA PassFacts ==
  ASSUME Types, NEW p \in Made
  PROVE  /\ passes[p] \in PassType /\ passes[p].use \in AnalysisUsages
         /\ Manager(p) \in Nat /\ Id(p) \in Ids
         /\ Id(p) \in Analyses => passes[p].use = Usage[Id(p)]
<1>1. passes[p] \in PassType
  BY DEF Types, Made
<1> QED
  BY <1>1 DEF PassType, Declared, Manager, Id

LEMMA SourceGrows ==
  ASSUME Structure, Releases, NEW m, NEW ms, NEW av, NEW made,
         Assigns(m, ms, av, made), NEW id \in Analyses, NEW x \in Made, NEW q,
         Source(q, x, id)
  PROVE  Source(q, x, id)'
<1>1. /\ Id(q) = id /\ q < x /\ Manager(q) \in {Top, Manager(x)} /\ q \in Made
      /\ lastUser[q] >= IF Manager(q) = Manager(x) THEN x ELSE Manager(x)
  BY DEF Source
<1>2. q \in DOMAIN lastUser
  BY <1>1, Declarations DEF Structure, Types, IsManager, Id
<1>3. /\ lastUser[q] \in Nat /\ lastUser'[q] \in Nat /\ lastUser[q] <= lastUser'[q]
      /\ x \in Nat /\ Manager(x) \in Nat
  BY <1>2, AssignGrows, PassFacts DEF Structure, Made
<1>4. passes'[q] = passes[q] /\ passes'[x] = passes[x] /\ q \in 1..Len(passes')
  <2>1. Types
    BY DEF Structure
  <2>2. /\ Len(passes) \in Nat /\ Len(passes) < Len(passes')
        /\ Len(passes') \in {Len(passes) + 1, Len(passes) + 2}
    BY <2>1, AssignFacts
  <2>3. \A y \in Made : passes'[y] = passes[y]
    BY <2>1, AssignFacts
  <2> QED
    BY <1>1, <2>2, <2>3 DEF Made
<1>5. lastUser'[q] >= IF Manager(q) = Manager(x) THEN x ELSE Manager(x)
  BY <1>1, <1>3
<1> QED
  BY <1>1, <1>4, <1>5 DEF Source, Id, Manager, Made

LEMMA PlannedAssign ==
  ASSUME Structure, Releases, Mapped, Planned,
         NEW m, NEW ms, NEW av, NEW made, Assigns(m, ms, av, made)
  PROVE  Planned'
<1> DEFINE n == Len(passes)  u == Current.use  S == RelyOn(av, Required(av, m))
<1>1. PICK p : p = Len(passes')
  OBVIOUS
<1>2. /\ phase = "building" /\ UNCHANGED <<phase, lastUses>>
      /\ n \in Nat /\ n < p /\ p \in Nat /\ m \in 0..p - 1
      /\ m = n + 1 <=> p = n + 2
      /\ passes'[p] = NewPass(Current.id, u, m)
      /\ \A q \in Made : passes'[q] = passes[q]
      /\ \A q \in 1..p : q \notin Made /\ q # p =>
           passes'[q] = NewPass(FPManager, ManagerUsage, Top)
  <2>1. Types
    BY DEF Structure
  <2>2. /\ phase = "building" /\ UNCHANGED <<phase, lastUses>> /\ m \in 0..p - 1
        /\ n \in Nat /\ n < p /\ p \in {n + 1, n + 2} /\ (m = n + 1 <=> p = n + 2)
    BY <1>1, <2>1, AssignFacts
  <2>3. /\ passes'[p] = NewPass(Current.id, u, m)
        /\ \A q \in Made : passes'[q] = passes[q]
        /\ \A q \in 1..p : q \notin Made /\ q # p =>
             passes'[q] = NewPass(FPManager, ManagerUsage, Top)
    BY <1>1, <2>1, AssignFacts
  <2> QED
    BY <2>2, <2>3
<1>3. /\ Made' = 1..p /\ p \notin Made /\ \A q \in Made : q \in 1..p /\ q <= n
      /\ \A q \in Made : Id(q)' = Id(q) /\ Manager(q)' = Manager(q)
      /\ \A q \in Made : \A id : Keeps(q, id)' <=> Keeps(q, id)
      /\ Id(p)' = Current.id /\ Manager(p)' = m
  BY <1>1, <1>2 DEF Made, Id, Manager, Keeps, NewPass
<1>4. /\ DOMAIN lastUser' = DOMAIN lastUser \cup {p} /\ lastUser'[p] = p
      /\ \A q \in DOMAIN lastUser :
           lastUser'[q] = IF q \in S THEN UserOf(q, p, m)
                          ELSE IF lastUser[q] \in S THEN UserOf(lastUser[q], p, m)
                          ELSE lastUser[q]
      /\ S \subseteq Found(av)
  BY <1>1, AssignUsers DEF Releases
<1>5. \A q \in DOMAIN lastUser :
        /\ q \in Made /\ lastUser[q] \in Made /\ lastUser'[q] \in Nat
        /\ lastUser[q] <= lastUser'[q]
        /\ \/ lastUser'[q] = lastUser[q]
           \/ lastUser'[q] = p
           \/ lastUser'[q] = m /\ m # Top /\ passes'[m].id = FPManager
  BY <1>1, AssignGrows
<1> HIDE DEF S
<1>6. ASSUME NEW q \in S
      PROVE  ~IsManager(q) /\ \A w \in Made : <<w, q>> \notin lastUses
  <2>1. PICK e \in av : e.id \in Analyses /\ e.pass = q
    BY <1>4, <1>6 DEF Found
  <2>2. e \in available /\ q \in DOMAIN lastUser
    BY <1>4, <1>6, <2>1, AssignFound DEF Releases
  <2> QED
    BY <1>2, <2>1, <2>2 DEF Mapped, Structure, Types
<1>10. ASSUME NEW x \in 1..p, NEW q \in 1..p, <<x, q>> \in lastUses
       PROVE  /\ lastUser'[q] = x
              /\ IsManager(x)' \/ \E w \in 1..p : <<w, x>> \in lastUses
  <2>1. x \in Made /\ q \in Made /\ q \in DOMAIN lastUser
    BY <1>10 DEF Releases, Uses, Structure, Types
  <2>2. lastUser[q] = x /\ (IsManager(x) \/ \E w \in Made : <<w, x>> \in lastUses)
    BY <1>10, <2>1 DEF Planned
  <2>3. q \notin S /\ x \notin S
    BY <1>6, <1>10, <2>1, <2>2
  <2> QED
    BY <1>2, <1>3, <1>4, <2>1, <2>2, <2>3 DEF IsManager
<1>11. ASSUME NEW x \in DOMAIN lastUser, NEW id \in ToSet(passes[x].use.requires)
       PROVE  \E q \in 1..p : /\ Source(q, x, id)'
                              /\ \A r \in q + 1..x - 1 : Keeps(r, id)'
  <2>1. PICK q \in Made : Source(q, x, id) /\ \A r \in q + 1..x - 1 : Keeps(r, id)
    BY DEF Planned
  <2>2. x \in Made /\ q \in 1..p /\ \A r \in q + 1..x - 1 : r \in Made
    BY <1>2, <1>3, <1>5, <2>1 DEF Made
  <2>3. \A r \in q + 1..x - 1 : Keeps(r, id)'
    BY <1>3, <2>1, <2>2
  <2>4. id \in Analyses
    <3>1. passes[x].use.requires \in Seq(Analyses)
      BY <2>2, PassFacts DEF Structure, AnalysisUsages
    <3> QED
      BY <3>1 DEF ToSet
  <2>5. Source(q, x, id)'
    BY <2>1, <2>2, <2>4, SourceGrows
  <2> QED
    BY <2>2, <2>3, <2>5
<1>12. ASSUME NEW id \in ToSet(u.requires)
       PROVE  \E q \in 1..p : /\ Source(q, p, id)'
                              /\ \A r \in q + 1..p - 1 : Keeps(r, id)'
  <2>1. PICK q : q = FindFrom(av, m, id)
    OBVIOUS
  <2>2. /\ q \in S /\ q \in Found(av) /\ Id(q) = id /\ id \in Analyses
        /\ \E e \in available : e.pass = q /\ e.id = id
    BY <2>1, RequirementFacts DEF S
  <2>3. /\ q \in Made /\ q \in DOMAIN lastUser
        /\ \/ Manager(q) = m
           \/ Manager(q) = Top /\ m # Top
    BY <2>2, AssignFound DEF Releases
  <2>4. lastUser'[q] = IF Manager(q) = m THEN p ELSE m
    BY <1>4, <2>2, <2>3 DEF UserOf
  <2>5. Source(q, p, id)'
    <3>1. passes'[q].manager = Manager(q) /\ passes'[p].manager = m /\ passes'[q].id = id
      BY <1>2, <2>2, <2>3 DEF NewPass, Id, Manager
    <3>2. q \in 1..p /\ q < p
      BY <1>2, <1>3, <2>3 DEF Made
    <3> QED
      BY <1>2, <1>3, <2>3, <2>4, <3>1, <3>2 DEF Source, Id, Manager
  <2>6. ASSUME NEW r \in q + 1..p - 1 PROVE Keeps(r, id)'
    <3>1. q \in Nat /\ r \in 1..p /\ r # p
      BY <1>2, <2>3 DEF Made
    <3>2. CASE r \in Made
      <4>1. r \in q + 1..n
        BY <1>3, <2>6, <3>1, <3>2
      <4> QED
        BY <1>2, <1>3, <2>2, <3>2, <4>1 DEF Mapped
    <3>3. CASE r \notin Made
      BY <1>2, <3>1, <3>3 DEF Keeps, NewPass, ManagerUsage
    <3> QED
      BY <3>2, <3>3
  <2> QED
    BY <1>3, <2>3, <2>5, <2>6
<1>13. ASSUME NEW x \in DOMAIN lastUser', NEW id \in ToSet(passes'[x].use.requires)
       PROVE  \E q \in 1..p : /\ Source(q, x, id)'
                              /\ \A r \in q + 1..x - 1 : Keeps(r, id)'
  <2>1. CASE x \in DOMAIN lastUser
    <3>1. id \in ToSet(passes[x].use.requires)
      BY <1>2, <1>5, <1>13, <2>1
    <3> QED
      BY <1>11, <2>1, <3>1
  <2>2. CASE x = p
    <3>1. id \in ToSet(u.requires)
      BY <1>2, <1>13, <2>2 DEF NewPass
    <3> QED
      BY <1>12, <2>2, <3>1
  <2> QED
    BY <1>4, <2>1, <2>2
<1> QED
  BY <1>2, <1>3, <1>10, <1>13 DEF Planned

LEMMA PlanSame ==
  ASSUME Structure, Releases, Mapped, Planned,
         Moves \/ Fails \/ EndRun \/ UNCHANGED vars
  PROVE  Mapped' /\ Planned'
<1>1. /\ UNCHANGED <<passes, top, inherited, available, lastUser, lastUses>>
      /\ phase' = "building" =>
           \/ phase = "building"
           \/ phase = "running" /\ at.pass = NoPass
  <2>1. CASE Moves
    BY <2>1, MoveFacts DEF Structure
  <2>2. CASE Fails
    BY <2>2 DEF Fails
  <2>3. CASE EndRun \/ UNCHANGED vars
    BY <2>3 DEF EndRun, vars, plan
  <2> QED
    BY <2>1, <2>2, <2>3
<1>2. Planned'
  BY <1>1 DEF Planned, Source, Made, Id, Manager, Keeps, IsManager
<1>3. Mapped'
  <2>1. CASE phase = "building"
    BY <1>1, <2>1 DEF Mapped, Made, Id, Manager, Keeps
  <2>2. CASE phase = "running" /\ at.pass = NoPass
    <3>1. \A e \in available' : e.id \notin Analyses
      BY <1>1, <2>2, NothingHeld, Declarations
    <3> QED
      BY <3>1 DEF Mapped
  <2>3. CASE phase' # "building"
    BY <2>3 DEF Mapped
  <2> QED
    BY <1>1, <2>1, <2>2, <2>3
<1> QED
  BY <1>2, <1>3

LEMMA PlanRunning ==
  ASSUME Structure, Releases, Planned,
         StartRun \/ \E p \in Made : Runs(p) \/ NextFunction(p) \/ FinishFunctions(p)
  PROVE  Mapped' /\ Planned'
<1>1. /\ UNCHANGED <<passes, top, lastUser>> /\ phase' = "running"
      /\ \/ lastUses' = lastUses
         \/ lastUses' = lastUses \cup {<<lastUser[q], q>> : q \in DOMAIN lastUser}
  BY DEF StartRun, Runs, NextFunction, FinishFunctions, Running, plan
<1>2. Mapped'
  BY <1>1 DEF Mapped
<1>3. ASSUME NEW u \in Made, NEW q \in Made, <<u, q>> \in lastUses'
      PROVE  lastUser[q] = u /\ (IsManager(u) \/ \E w \in Made : <<w, u>> \in lastUses')
  <2>1. CASE <<u, q>> \in lastUses
    BY <1>1, <2>1 DEF Planned
  <2>2. CASE /\ lastUser[q] = u
             /\ lastUses' = lastUses \cup {<<lastUser[x], x>> : x \in DOMAIN lastUser}
    <3>1. CASE u \in DOMAIN lastUser
      <4>1. lastUser[u] \in Made
        BY <3>1 DEF Releases, Users
      <4> QED
        BY <2>2, <3>1, <4>1
    <3>2. CASE u \notin DOMAIN lastUser
      BY <2>2, <3>2 DEF Structure, Types
    <3> QED
      BY <3>1, <3>2
  <2>3. \/ lastUses' = lastUses
        \/ lastUses' = lastUses \cup {<<lastUser[x], x>> : x \in DOMAIN lastUser}
    BY <1>1
  <2> QED
    BY <1>3, <2>1, <2>2, <2>3
<1> QED
  BY <1>1, <1>2, <1>3 DEF Planned, Source, Made, Id, Manager, Keeps, IsManager

LEMMA PlanNext ==
  ASSUME Structure, Releases, Mapped, Planned, [Next]_vars
  PROVE  Mapped' /\ Planned'
BY StepCases, PlanSame, MappedAssign, PlannedAssign, PlanRunning DEF Steps

LEMMA AlwaysPlanned == Spec => [](Mapped /\ Planned)
<1>1. Init => Mapped /\ Planned
  <2> SUFFICES ASSUME Init PROVE Mapped /\ Planned
    OBVIOUS
  <2>1. Made = {} /\ DOMAIN lastUser = {} /\ lastUses = {} /\ available = {} /\ top = Top
    BY DEF Init, Made
  <2> QED
    BY <2>1 DEF Mapped, Planned
<1>2. Structure /\ Releases /\ Mapped /\ Planned /\ [Next]_vars => (Mapped /\ Planned)'
  BY PlanNext
<1> QED
  BY <1>1, <1>2, AlwaysStructure, AlwaysReleases, PTL DEF Spec
-----------------------------------------------------------------------------
(* What a pass is connected to is determined by the plan.                    *)
LEMMA OneSource ==
  ASSUME Structure, Releases, NEW p \in Made, NEW id \in Analyses \ Outlived,
         NEW q, NEW r, Source(q, p, id), Source(r, p, id)
  PROVE  q = r
<1>1. ASSUME NEW x, Source(x, p, id)
      PROVE  /\ x \in Made /\ x \in DOMAIN lastUser /\ Id(x) = id /\ x < p
             /\ Manager(x) = IF Usage[id].level = "module" THEN Top ELSE Manager(p)
  <2>1. /\ x \in Made /\ Id(x) = id /\ x < p /\ Manager(x) \in {Top, Manager(p)}
    BY <1>1 DEF Source
  <2>2. x \in DOMAIN lastUser
    BY <2>1, Declarations DEF Structure, Types, IsManager, Id
  <2>3. passes[x].use = Usage[id]
    BY <2>1, PassFacts DEF Structure
  <2>4. Manager(x) = Top <=> Usage[id].level = "module"
    BY <2>1, <2>3 DEF Structure, Nesting
  <2> QED
    BY <2>1, <2>2, <2>4
<1>2. ASSUME NEW x, NEW y, Source(x, p, id), Source(y, p, id), x < y PROVE FALSE
  <2>1. /\ x \in DOMAIN lastUser /\ y \in DOMAIN lastUser /\ Id(x) = id /\ Id(y) = id
        /\ y < p /\ Manager(x) = Manager(y) /\ y \in Made
        /\ Manager(x) \in {Top, Manager(p)}
    BY <1>1, <1>2
  <2>2. ~(y <= lastUser[x])
    BY <1>2, <2>1 DEF Outlived, Renewed, Id
  <2>3. /\ y \in Nat /\ p \in Nat /\ Manager(p) \in Nat
        /\ lastUser[x] >= IF Manager(x) = Manager(p) THEN p ELSE Manager(p)
    BY <1>2, <2>1, PassFacts DEF Source, Made, Structure
  <2>4. Manager(x) # Manager(p) => y <= Manager(p)
    <3> SUFFICES ASSUME Manager(x) # Manager(p), y > Manager(p) PROVE FALSE
      BY <2>3
    <3>1. Manager(p) # Top /\ y \in Manager(p) + 1..p
      BY <2>1, <2>3
    <3>2. Manager(y) = Manager(p)
      BY <3>1 DEF Structure, Nesting
    <3> QED
      BY <2>1, <3>2
  <2>5. lastUser[x] \in Nat
    BY <2>1 DEF Releases, Users, Made
  <2> QED
    BY <2>1, <2>2, <2>3, <2>4, <2>5
<1>3. q \in Nat /\ r \in Nat
  BY <1>1 DEF Made
<1> QED
  BY <1>2, <1>3

(* An analysis is found in the manager of the pass that runs, or in Top.     *)
LEMMA RunsConnects ==
  ASSUME Structure, Releases, NEW p \in Made, phase = "running", at.pass = p,
         NEW id \in Analyses, FindFrom(available, Manager(p), id) # NoPass
  PROVE  Source(FindFrom(available, Manager(p), id), p, id)
<1> DEFINE m == Manager(p)
<1>1. PICK q : q = FindFrom(available, m, id)
  OBVIOUS
<1>2. available \in SUBSET EntryType
  BY DEF Structure, Types
<1>3. PICK e \in available : e.id = id /\ e.pass = q
  BY <1>1, <1>2, FindFromFacts
<1>4. q \in Made /\ Id(q) = id /\ q \in Nat /\ p \in Nat \ {0}
  BY <1>3 DEF Structure, Entries, WellFormed, Id, Made
<1>5. Awaited(q)
  <2>1. e.id # FPManager
    BY <1>3, Declarations
  <2> QED
    BY <1>3, <1>4, <2>1 DEF Releases, Held
<1>6. Manager(q) \in {Top, m} /\ p # NoPass
  BY <1>4, <1>5 DEF Awaited, NoPass
<1>7. m # Top => m < p
  <2>1. m # Top => m \in 1..p - 1
    BY DEF Structure, Nesting
  <2> QED
    BY <1>4, <2>1
<1>8. q < p /\ lastUser[q] >= IF Manager(q) = m THEN p ELSE m
  <2>1. TopPass = IF m = Top THEN p ELSE m
    BY <1>6 DEF TopPass
  <2>2. q \in DOMAIN lastUser
    BY <1>4, Declarations DEF Structure, Types, IsManager, Id
  <2>3. lastUser[q] \in Nat /\ m \in Nat
    BY <2>2, PassFacts DEF Releases, Users, Made, Structure
  <2> QED
    BY <1>4, <1>5, <1>6, <1>7, <2>1, <2>3 DEF Awaited
<1> QED
  BY <1>1, <1>4, <1>6, <1>8 DEF Source

LEMMA ConnectedNext ==
  ASSUME Structure, Releases, Connected, [Next]_vars
  PROVE  Connected'
<1>1. ASSUME UNCHANGED <<passes, lastUser>>, impls' = impls PROVE Connected'
  BY <1>1 DEF Connected, Source, Made, Id, Manager
<1>2. CASE Moves
  BY <1>1, <1>2, MoveFacts, StructureMoves
     DEF Structure, Moves, AddAnalysis, AddClientPass, Add,
     Skip, ScheduleRequired, Recheck
<1>3. CASE \/ Fails \/ StartRun \/ EndRun \/ UNCHANGED vars
           \/ \E p \in Made : NextFunction(p) \/ FinishFunctions(p)
  BY <1>1, <1>3 DEF Fails, StartRun, EndRun, NextFunction, FinishFunctions, vars, plan
<1>4. \A p \in Made : \A id \in DOMAIN impls[p] : id \in Analyses
  BY DEF Structure, Types, ImplsType, Made
<1>5. ASSUME NEW m, NEW ms, NEW av, NEW made, Assigns(m, ms, av, made)
      PROVE  Connected'
  <2>1. /\ \A p \in Made : impls'[p] = impls[p]
        /\ \A p \in Made' : p \notin Made => DOMAIN impls'[p] = {}
    <3>1. Types
      BY DEF Structure
    <3>2. /\ \A p \in Made : impls'[p] = impls[p]
          /\ \A p \in 1..Len(passes') : p \notin Made => impls'[p] = <<>>
      BY <1>5, <3>1, AssignFacts
    <3> QED
      BY <3>2 DEF Made
  <2>2. ASSUME NEW p \in Made', NEW id \in DOMAIN impls'[p]
        PROVE  Source(impls[p][id], p, id)' /\ impls'[p][id] = impls[p][id]
    <3>1. p \in Made /\ id \in DOMAIN impls[p] /\ impls'[p] = impls[p]
      BY <2>1, <2>2
    <3>2. PICK q : q = impls[p][id]
      OBVIOUS
    <3>3. Source(q, p, id) /\ id \in Analyses
      BY <1>4, <3>1, <3>2 DEF Connected
    <3>4. Source(q, p, id)'
      BY <1>5, <3>1, <3>3, SourceGrows
    <3> QED
      BY <3>1, <3>2, <3>4 DEF Source
  <2> QED
    BY <2>2 DEF Connected
<1>6. ASSUME NEW p \in Made, Runs(p) PROVE Connected'
  <2>1. /\ phase = "running" /\ at.pass = p /\ UNCHANGED <<passes, lastUser>>
        /\ impls' = [impls EXCEPT ![p] = Implementations(p)] /\ DOMAIN impls = Made
        /\ Made' = Made
    BY <1>6, RunsFacts DEF Runs, plan, Structure, Types, Made
  <2>2. ASSUME NEW id \in DOMAIN Implementations(p)
        PROVE  Source(Implementations(p)[id], p, id)
    <3>1. id \in Analyses
      BY <2>2, ImplementationsType DEF ImplsType, Structure
    <3>2. CASE id \in DOMAIN impls[p]
      BY <2>2, <3>2 DEF Implementations, Connected
    <3>3. CASE id \notin DOMAIN impls[p]
      <4>1. /\ Implementations(p)[id] = FindFrom(available, Manager(p), id)
            /\ FindFrom(available, Manager(p), id) # NoPass
        BY <2>2, <3>3 DEF Implementations, Manager
      <4> QED
        BY <2>1, <3>1, <4>1, RunsConnects
    <3> QED
      BY <3>2, <3>3
  <2>3. ASSUME NEW x \in Made, NEW id \in DOMAIN impls'[x]
        PROVE  Source(impls'[x][id], x, id)
    BY <2>1, <2>2, <2>3 DEF Connected
  <2> QED
    BY <2>1, <2>3 DEF Connected, Source, Id, Manager
<1> QED
  BY <1>2, <1>3, <1>5, <1>6, StepCases DEF Steps

LEMMA EntryFacts ==
  ASSUME Structure, NEW e \in available
  PROVE  e.pass \in Made /\ Id(e.pass) = e.id /\ Manager(e.pass) = e.in
BY DEF Structure, Entries, WellFormed, Made, Id, Manager

LEMMA UsedFacts ==
  ASSUME Structure, Releases, NEW q \in DOMAIN lastUser
  PROVE  /\ q \in Made /\ q \in Nat \ {0} /\ ~IsManager(q) /\ lastUser[q] \in Made
         /\ lastUser[q] \in Nat /\ lastUser[q] <= Len(passes) /\ Len(passes) \in Nat
         /\ Manager(lastUser[q]) = Manager(q) /\ Manager(q) \in Nat
<1>1. q \in Made /\ ~IsManager(q) /\ Len(passes) \in Nat
  BY DEF Structure, Types
<1> QED
  BY <1>1, PassFacts DEF Structure, Releases, Users, Made

(* What a pass or a function pass manager releases is of no later pass.      *)
LEMMA ReleasedFacts ==
  ASSUME Structure, Releases, Planned, NEW p \in Made, NEW x \in LastUsesOf(p)
  PROVE  x \in DOMAIN lastUser /\ lastUser[x] = p /\ Manager(x) = Manager(p)
<1>1. x \in Made /\ <<p, x>> \in lastUses
  BY DEF LastUsesOf, Made
<1> QED
  BY <1>1 DEF Planned, Releases, Uses, Structure, Types

LEMMA StillMapped ==
  ASSUME Structure, Releases, Planned, NEW p \in Made, NEW q \in DOMAIN lastUser,
         Lasting(q), q <= p, p < lastUser[q],
         NEW x \in LastUsesOf(p), Id(x) = Id(q), Manager(x) = Manager(q)
  PROVE  FALSE
<1>1. /\ x \in DOMAIN lastUser /\ lastUser[x] = p /\ x \in Nat /\ q \in Nat /\ p \in Nat
      /\ lastUser[q] \in Nat
  BY ReleasedFacts, UsedFacts DEF Made
<1>2. x <= p
  BY <1>1 DEF Releases, Users
<1>3. x < q => ~(q <= p)
  BY <1>1 DEF Lasting, Outlived, Renewed, Id
<1>4. q < x => ~(x <= lastUser[q])
  BY <1>1 DEF Lasting, Outlived, Renewed, Id
<1> QED
  BY <1>1, <1>2, <1>3, <1>4

LEMMA ManagerTurn ==
  ASSUME Structure, NEW p \in Made
  PROVE  /\ Manager(p) \in Nat /\ p \in Nat \ {0} /\ Len(passes) \in Nat
         /\ Manager(p) # Top => /\ Manager(p) \in Made /\ Manager(p) < p
                                /\ IsManager(Manager(p)) /\ Manager(Manager(p)) = Top
                                /\ \A r \in Manager(p) + 1..p : Manager(r) = Manager(p)
<1>1. Manager(p) \in Nat /\ p \in Nat \ {0} /\ p <= Len(passes) /\ Len(passes) \in Nat
  BY PassFacts DEF Structure, Made, Types
<1>2. Manager(p) # Top => /\ Manager(p) \in 1..p - 1 /\ IsManager(Manager(p))
                          /\ \A r \in Manager(p) + 1..p : Manager(r) = Manager(p)
  BY DEF Structure, Nesting
<1>3. Manager(p) # Top => Manager(p) \in Made /\ Manager(p) < p
  BY <1>1, <1>2 DEF Made
<1> QED
  BY <1>1, <1>2, <1>3 DEF Structure, Nesting

LEMMA KeepsManagers ==
  ASSUME Structure, NEW r \in Made, IsManager(r)
  PROVE  \A id : Keeps(r, id)
<1>1. passes[r] \in PassType /\ passes[r].id = FPManager
  BY PassFacts DEF Structure, IsManager
<1> QED
  BY <1>1, Declarations DEF PassType, Declared, Keeps, ManagerUsage

(* A pass runs: whatever has a user to come was held before, or it is it.    *)
LEMMA LivesRuns ==
  ASSUME Structure, Releases, Planned, Lives, NEW p \in Made, Runs(p)
  PROVE  Lives'
<1> DEFINE m == Manager(p)
           left == RemoveNotPreserved(available, m, InheritedBy(m), passes[p].use)
           av == Record(left, m, Id(p), p)
<1>1. /\ phase = "running" /\ at.pass = p /\ ~IsManager(p)
      /\ UNCHANGED <<phase, passes, top, lastUser, lastUses>>
      /\ at' = [at EXCEPT !.pass = IF m # Top /\ PassAfter(m, p) = NoPass
                                   THEN m ELSE PassAfter(m, p)]
  BY DEF Runs, plan
<1>2. /\ \A q \in Made : result'[q] =
           IF q \in LastUsesOf(p) THEN NoResult
           ELSE IF q = p THEN [of |-> at.function, fresh |-> TRUE]
           ELSE IF Keeps(p, Id(q)) THEN result[q]
           ELSE [result[q] EXCEPT !.fresh = FALSE]
      /\ available' = {e \in av : e.in # m \/ e.id \notin {Id(q) : q \in LastUsesOf(p)}}
  BY RunsFacts DEF Structure
<1>3. \A e \in available : Keeps(p, e.id) /\ ~(e.in = m /\ e.id = Id(p)) => e \in av
  BY DEF RemoveNotPreserved, Record, Keeps
<1>4. Entry(m, Id(p), p) \in av
  BY DEF Record
<1> HIDE DEF av, left
<1>5. /\ at'.function = at.function /\ at'.pass \in Nat /\ m \in Nat /\ p \in Nat \ {0}
      /\ at'.pass = IF m # Top /\ PassAfter(m, p) = NoPass THEN m ELSE PassAfter(m, p)
      /\ at.function \in Nat /\ (m = Top <=> at.function = 0) /\ NoPass = 0 /\ Top = 0
  <2>1. Structure'
    BY StructureRunning
  <2>2. at'.pass \in Nat
    BY <2>1 DEF Structure, Types, Made, NoPass
  <2>3. at \in [pass : {NoPass} \cup Made, function : 0..MaxFunctions]
    BY DEF Structure, Types
  <2>4. p # NoPass /\ p \in Nat \ {0} /\ m \in Nat
    BY ManagerTurn DEF NoPass
  <2> QED
    BY <1>1, <2>2, <2>3, <2>4, Declarations DEF Structure, Position, NoPass, Top
<1>6. /\ PassAfter(m, p) = NoPass \/ (PassAfter(m, p) \in Made /\ PassAfter(m, p) > p
                                      /\ Manager(PassAfter(m, p)) = m)
      /\ \A q \in Made : Manager(q) = m /\ q > p =>
           PassAfter(m, p) # NoPass /\ PassAfter(m, p) <= q
  BY <1>5, PassAfterFacts DEF Structure, Types, Made
<1>7. \A r \in Made : IsManager(r)' = IsManager(r) /\ Manager(r)' = Manager(r)
  BY <1>1 DEF IsManager, Manager
<1>8. m # Top => m \in Made /\ m < p /\ IsManager(m) /\ Manager(m) = Top
                 /\ \A r \in m + 1..p : Manager(r) = m
  BY ManagerTurn
<1>9. TopPass = IF m = Top THEN p ELSE m
  BY <1>1, <1>5 DEF TopPass
<1> SUFFICES ASSUME NEW q \in DOMAIN lastUser, Awaited(q)'
             PROVE  /\ result'[q].of = IF Manager(q) = Top THEN 0 ELSE at.function
                    /\ (\A r \in Since(q)' : Keeps(r, Id(q))) =>
                         /\ result'[q].fresh
                         /\ Lasting(q) => \E e \in available' : e.pass = q
  BY <1>1, <1>5 DEF Lives, HasEntry, Lasting, Outlived, Renewed, Manager, Id, Keeps
<1>10. /\ q \in Made /\ q \in Nat \ {0} /\ ~IsManager(q) /\ lastUser[q] \in Nat
       /\ lastUser[q] <= Len(passes) /\ Len(passes) \in Nat
  BY UsedFacts
<1>11. Awaited(q)' <=>
         IF Manager(q) = Top THEN q < TopPass' /\ TopPass' <= lastUser[q]
         ELSE /\ at'.pass # NoPass /\ passes[at'.pass].manager = Manager(q)
              /\ q < at'.pass /\ at'.pass <= lastUser[q]
  BY <1>1, <1>10 DEF Awaited, Manager
<1>12. TopPass' = IF at'.pass = NoPass THEN Len(passes) + 1
                  ELSE IF Manager(at'.pass) = Top THEN at'.pass ELSE Manager(at'.pass)
  BY <1>1 DEF TopPass, Manager
<1>13. CASE Manager(q) = m
  <2>1. /\ at'.pass = PassAfter(m, p) /\ at'.pass # NoPass /\ at'.pass > p
        /\ Manager(at'.pass) = m /\ q < at'.pass /\ at'.pass <= lastUser[q]
    <3>1. CASE m = Top
      BY <1>5, <1>6, <1>10, <1>11, <1>12, <1>13, <3>1
    <3>2. CASE m # Top
      <4>1. at'.pass # m
        BY <1>8, <1>11, <1>13, <3>2 DEF Manager
      <4> QED
        BY <1>5, <1>6, <1>11, <1>13, <3>2, <4>1 DEF Manager
    <3> QED
      BY <3>1, <3>2
  <2>2. q <= p /\ p < lastUser[q]
    BY <1>5, <1>6, <1>10, <1>13, <2>1
  <2>3. q \notin LastUsesOf(p)
    BY <1>5, <1>10, <2>2, ReleasedFacts
  <2>4. ASSUME NEW e \in av, e.id = Id(q), e.in = m, Lasting(q)
        PROVE  e \in available'
    <3>1. \A x \in LastUsesOf(p) : Id(x) = Id(q) => FALSE
      BY <1>13, <2>2, <2>4, ReleasedFacts, StillMapped
    <3> QED
      BY <1>2, <2>4, <3>1
  <2>5. CASE q = p
    <3>1. result'[q] = [of |-> at.function, fresh |-> TRUE]
      BY <1>2, <1>10, <2>3, <2>5
    <3>2. Lasting(q) => \E e \in available' : e.pass = q
      BY <1>4, <2>4, <2>5 DEF Entry
    <3> QED
      BY <1>5, <1>13, <3>1, <3>2
  <2>6. CASE q # p
    <3>1. q < p /\ Awaited(q)
      BY <1>1, <1>5, <1>9, <1>10, <1>13, <2>2, <2>6 DEF Awaited
    <3>2. /\ result[q].of = IF Manager(q) = Top THEN 0 ELSE at.function
          /\ (\A r \in Since(q) : Keeps(r, Id(q))) =>
               result[q].fresh /\ (Lasting(q) => HasEntry(q))
      BY <1>1, <3>1 DEF Lives
    <3>3. result[q] \in ResultType
      BY <1>10 DEF Structure, Types, Made
    <3>4. result'[q] = IF Keeps(p, Id(q)) THEN result[q]
                       ELSE [result[q] EXCEPT !.fresh = FALSE]
      BY <1>2, <1>10, <2>3, <2>6
    <3>5. result'[q].of = result[q].of
      BY <3>3, <3>4 DEF ResultType
    <3>6. Since(q) \cup {p} \subseteq Since(q)'
      <4>1. p \in Since(q)'
        BY <1>1, <1>5, <2>1, <3>1, <1>10 DEF Since, Made
      <4>2. ASSUME NEW r \in Since(q) PROVE r < p
        <5>1. r \in q + 1..Len(passes) /\ r \in Made
          BY <1>10 DEF Since, Made
        <5>2. ASSUME Manager(q) = Top, Manager(r) = TopPass PROVE FALSE
          <6>1. Manager(r) = p
            BY <1>9, <1>13, <5>2
          <6>2. IsManager(p)
            BY <1>5, <5>1, <6>1, ManagerTurn
          <6> QED
            BY <1>1, <6>2
        <5> QED
          BY <1>1, <5>2 DEF Since
      <4>3. ASSUME NEW r \in Since(q) PROVE r \in Since(q)'
        <5>1. r \in q + 1..Len(passes) /\ r < p /\ r \in Nat
          BY <1>10, <4>2 DEF Since
        <5> QED
          BY <1>1, <1>5, <2>1, <5>1 DEF Since
      <4> QED
        BY <4>1, <4>3
    <3>7. ASSUME \A r \in Since(q)' : Keeps(r, Id(q))
          PROVE  /\ result'[q].fresh
                 /\ Lasting(q) => \E e \in available' : e.pass = q
      <4>1. Keeps(p, Id(q)) /\ result[q].fresh /\ (Lasting(q) => HasEntry(q))
        BY <3>2, <3>6, <3>7
      <4>2. ASSUME Lasting(q) PROVE \E e \in available' : e.pass = q
        <5>1. PICK e \in available : e.pass = q
          BY <4>1, <4>2 DEF HasEntry
        <5>2. e.id = Id(q) /\ e.in = m
          BY <1>13, <5>1, EntryFacts
        <5>3. Id(p) # Id(q)
          <6> SUFFICES ASSUME Id(p) = Id(q) PROVE FALSE
            OBVIOUS
          <6>1. p \in DOMAIN lastUser
            BY <1>1 DEF Structure, Types
          <6>2. ~(p <= lastUser[q])
            BY <3>1, <4>2, <6>1 DEF Lasting, Outlived, Renewed, Id
          <6> QED
            BY <1>5, <1>10, <2>2, <6>2
        <5>4. e \in av
          BY <1>3, <4>1, <5>2, <5>3
        <5> QED
          BY <2>4, <4>2, <5>1, <5>2, <5>4
      <4> QED
        BY <3>4, <4>1, <4>2
    <3> QED
      BY <3>2, <3>5, <3>7
  <2> QED
    BY <2>5, <2>6
<1>14. CASE Manager(q) # m
  <2>1. Manager(q) = Top /\ m # Top
    <3> SUFFICES ASSUME Manager(q) # Top PROVE FALSE
      BY <1>14
    <3>1. at'.pass # NoPass /\ passes[at'.pass].manager = Manager(q)
      BY <1>11
    <3>2. passes[at'.pass].manager \in {m, Top}
      BY <1>5, <1>6, <1>8, <3>1 DEF Manager
    <3> QED
      BY <1>14, <3>1, <3>2
  <2>2. at'.pass # NoPass /\ (at'.pass = m \/ (at'.pass > p /\ Manager(at'.pass) = m))
    BY <1>5, <1>6, <1>8, <2>1
  <2>3. TopPass = m /\ TopPass' = m /\ at.function > 0
    BY <1>5, <1>8, <1>9, <1>12, <2>1, <2>2
  <2>4. Awaited(q) /\ q < m
    BY <1>11, <2>1, <2>3 DEF Awaited
  <2>5. /\ result[q].of = 0
        /\ (\A r \in Since(q) : Keeps(r, Id(q))) =>
             result[q].fresh /\ (Lasting(q) => HasEntry(q))
    BY <1>1, <2>1, <2>4 DEF Lives
  <2>6. q \notin LastUsesOf(p) /\ q # p
    BY <1>14, ReleasedFacts
  <2>7. result'[q] = IF Keeps(p, Id(q)) THEN result[q]
                     ELSE [result[q] EXCEPT !.fresh = FALSE]
    BY <1>2, <1>10, <2>6
  <2>8. result'[q].of = 0
    <3>1. result[q] \in ResultType
      BY <1>10 DEF Structure, Types, Made
    <3> QED
      BY <2>5, <2>7, <3>1 DEF ResultType
  <2>9. ASSUME NEW r \in Since(q) \cup {p} PROVE r \in Since(q)' \/ IsManager(r)
    <3>1. r \in q + 1..Len(passes) /\ r \in Nat /\ r \in Made
      BY <1>5, <1>8, <1>10, <2>1, <2>4 DEF Since, Made
    <3>2. ASSUME Manager(r) = m, at'.pass = m \/ at.function > 1 PROVE r \in Since(q)'
      <4>1. passes'[r].manager = m /\ passes'[q].manager = Top
        BY <1>1, <2>1, <3>2 DEF Manager
      <4>2. at'.function > IF at'.pass = TopPass' THEN 0 ELSE 1
        BY <1>5, <2>3, <3>2
      <4> QED
        BY <1>1, <2>3, <3>1, <4>1, <4>2 DEF Since, Manager
    <3>3. ASSUME r < at'.pass PROVE r \in Since(q)'
      BY <1>1, <3>1, <3>3 DEF Since
    <3>4. CASE r <= p
      <4>1. r < m \/ r = m \/ r \in m + 1..p
        BY <1>5, <3>1, <3>4
      <4>2. CASE r < m
        BY <1>5, <1>8, <2>1, <2>2, <3>1, <3>3, <4>2
      <4>3. CASE r = m
        BY <1>8, <2>1, <4>3
      <4>4. CASE r \in m + 1..p
        <5>1. Manager(r) = m
          BY <1>8, <2>1, <4>4
        <5>2. at'.pass # m => r < at'.pass
          BY <1>5, <2>2, <3>1, <3>4
        <5> QED
          BY <3>2, <3>3, <5>1, <5>2
      <4> QED
        BY <4>1, <4>2, <4>3, <4>4
    <3>5. CASE ~(r <= p)
      <4>1. Manager(r) = m /\ at.function > 1
        <5>1. m # p
          BY <1>8, <2>1
        <5> QED
          BY <1>1, <1>5, <2>3, <3>1, <3>5, <5>1 DEF Since
      <4> QED
        BY <3>2, <4>1
    <3> QED
      BY <3>4, <3>5
  <2>10. ASSUME \A r \in Since(q)' : Keeps(r, Id(q))
         PROVE  /\ result'[q].fresh
                /\ Lasting(q) => \E e \in available' : e.pass = q
    <3>1. \A r \in Since(q) \cup {p} : Keeps(r, Id(q))
      <4>1. \A r \in Since(q) \cup {p} : r \in Made
        BY <1>10 DEF Since, Made
      <4> QED
        BY <2>9, <2>10, <4>1, KeepsManagers
    <3>2. result'[q].fresh
      BY <2>5, <2>7, <3>1
    <3>3. ASSUME Lasting(q) PROVE \E e \in available' : e.pass = q
      <4>1. PICK e \in available : e.pass = q
        BY <2>5, <3>1, <3>3 DEF HasEntry
      <4>2. e.id = Id(q) /\ e.in # m
        BY <1>14, <4>1, EntryFacts
      <4>3. e \in av
        BY <1>3, <3>1, <4>2
      <4> QED
        BY <1>2, <4>1, <4>2, <4>3
    <3> QED
      BY <3>2, <3>3
  <2> QED
    BY <2>1, <2>8, <2>10
<1> QED
  BY <1>13, <1>14

LEMMA LivesNextFunction ==
  ASSUME Structure, Releases, Lives, NEW m \in Made, NextFunction(m)
  PROVE  Lives'
<1>1. /\ UNCHANGED <<phase, passes, top, lastUser, available, result>>
      /\ phase = "running" /\ at.pass = m /\ IsManager(m)
      /\ at'.pass = PassAfter(m, NoPass) /\ at'.function = at.function + 1
  BY DEF NextFunction, Running, plan
<1>2. /\ m \in Nat \ {0} /\ m + 1 \in Made /\ Manager(m) = Top /\ Manager(m + 1) = m
      /\ NoPass = 0 /\ Top = 0 /\ at.function \in Nat /\ Len(passes) \in Nat
  BY <1>1, ManagerTurn, Declarations DEF Structure, Nesting, Types, NoPass, Top
<1>3. /\ at'.pass \in Made /\ Manager(at'.pass) = m /\ at'.pass # NoPass /\ m < at'.pass
      /\ \A q \in Made : Manager(q) = m => at'.pass <= q
  <2>1. \A q \in Made : q \in Nat \ {0}
    BY DEF Made
  <2>2. /\ at'.pass \in Made /\ Manager(at'.pass) = m /\ at'.pass # NoPass
        /\ \A q \in Made : Manager(q) = m => at'.pass <= q
    BY <1>1, <1>2, <2>1, PassAfterFacts DEF Structure, Types
  <2>3. m < at'.pass
    BY <1>2, <2>2, ManagerTurn
  <2> QED
    BY <2>2, <2>3
<1>4. TopPass = m /\ TopPass' = m
  <2>1. TopPass = m
    BY <1>1, <1>2 DEF TopPass
  <2>2. passes'[at'.pass].manager = m /\ m # Top
    BY <1>1, <1>2, <1>3 DEF Manager
  <2> QED
    BY <1>3, <2>1, <2>2 DEF TopPass, Manager
<1> SUFFICES ASSUME NEW q \in DOMAIN lastUser, Awaited(q)'
             PROVE  /\ result[q].of = IF Manager(q) = Top THEN 0 ELSE at'.function
                    /\ (\A r \in Since(q)' : Keeps(r, Id(q))) =>
                         result[q].fresh /\ (Lasting(q) => HasEntry(q))
  BY <1>1 DEF Lives, HasEntry, Lasting, Outlived, Renewed, Manager, Id, Keeps
<1>5. /\ q \in Made /\ q \in Nat \ {0} /\ lastUser[q] \in Nat
  BY UsedFacts
<1>6. passes'[q].manager = Manager(q) /\ passes'[at'.pass].manager = m
      /\ lastUser' = lastUser
  BY <1>1, <1>3 DEF Manager
<1>7. Manager(q) = Top
  <2> SUFFICES ASSUME Manager(q) # Top PROVE FALSE
    OBVIOUS
  <2>1. Manager(q) = m /\ q < at'.pass
    BY <1>6 DEF Awaited, Manager
  <2> QED
    BY <1>2, <1>3, <1>5, <2>1 DEF Made
<1>8. Awaited(q)
  BY <1>4, <1>6, <1>7 DEF Awaited, Manager
<1>9. ASSUME NEW r \in Since(q) PROVE r \in Since(q)'
  <2>1. r \in q + 1..Len(passes) /\ r \in Nat
    BY <1>2, <1>5 DEF Since
  <2>2. passes'[r].manager = Manager(r) /\ at'.pass \in Nat
    BY <1>1, <1>3 DEF Manager, Made
  <2>3. CASE r < m
    <3>1. r < at'.pass
      BY <1>2, <1>3, <2>1, <2>2, <2>3
    <3> QED
      BY <1>1, <2>1, <3>1 DEF Since
  <2>4. CASE ~(r < m)
    <3>1. Manager(r) = m /\ at.function > 0
      BY <1>1, <1>4, <2>4 DEF Since
    <3>2. at'.function > IF at'.pass = TopPass' THEN 0 ELSE 1
      BY <1>1, <1>2, <3>1
    <3> QED
      BY <1>1, <1>4, <1>6, <1>7, <2>1, <2>2, <3>1, <3>2 DEF Since, Manager
  <2> QED
    BY <2>3, <2>4
<1> QED
  BY <1>1, <1>7, <1>8, <1>9 DEF Lives

LEMMA LivesFinish ==
  ASSUME Structure, Releases, Planned, Lives, NEW m \in Made, FinishFunctions(m)
  PROVE  Lives'
<1> DEFINE av == Record(available, Top, FPManager, m)
<1>1. /\ phase = "running" /\ at.pass = m /\ IsManager(m)
      /\ at'.pass = PassAfter(Top, m) /\ at'.function = 0
      /\ UNCHANGED <<phase, passes, top, lastUser, lastUses>>
      /\ \A q \in Made : result'[q] = IF q \in LastUsesOf(m) THEN NoResult ELSE result[q]
      /\ available' = {e \in av : e.in # Top \/ e.id \notin {Id(q) : q \in LastUsesOf(m)}}
  BY FinishFacts DEF Structure, plan
<1>2. \A e \in available : e.id # FPManager => e \in av
  BY DEF Record
<1> HIDE DEF av
<1>3. /\ m \in Nat \ {0} /\ Manager(m) = Top /\ NoPass = 0 /\ Top = 0 /\ Len(passes) \in Nat
  BY <1>1, ManagerTurn DEF Structure, Nesting, NoPass, Top
<1>4. TopPass = m
  BY <1>1, <1>3 DEF TopPass
<1>5. /\ at'.pass = NoPass \/ (at'.pass \in Made /\ at'.pass > m /\ Manager(at'.pass) = Top)
      /\ \A q \in Made : Manager(q) = Top /\ q > m => at'.pass # NoPass /\ at'.pass <= q
  BY <1>1, <1>3, PassAfterFacts DEF Structure, Types, Made
<1>6. TopPass' = IF at'.pass = NoPass THEN Len(passes) + 1 ELSE at'.pass
  BY <1>1, <1>5 DEF TopPass, Manager
<1> SUFFICES ASSUME NEW q \in DOMAIN lastUser, Awaited(q)'
             PROVE  /\ result'[q].of = IF Manager(q) = Top THEN 0 ELSE at'.function
                    /\ (\A r \in Since(q)' : Keeps(r, Id(q))) =>
                         /\ result'[q].fresh
                         /\ Lasting(q) => \E e \in available' : e.pass = q
  BY <1>1 DEF Lives, HasEntry, Lasting, Outlived, Renewed, Manager, Id, Keeps
<1>7. /\ q \in Made /\ q \in Nat \ {0} /\ ~IsManager(q) /\ lastUser[q] \in Nat
      /\ lastUser[q] <= Len(passes) /\ passes'[q].manager = Manager(q)
  BY <1>1, UsedFacts DEF Manager
<1>8. Manager(q) = Top
  BY <1>1, <1>5, <1>7 DEF Awaited, Manager
<1>9. q < TopPass' /\ TopPass' <= lastUser[q]
  BY <1>1, <1>7, <1>8 DEF Awaited, Manager
<1>10. /\ at'.pass # NoPass /\ at'.pass \in Nat /\ q < at'.pass /\ at'.pass <= lastUser[q]
       /\ TopPass' = at'.pass /\ at'.pass > m
  BY <1>3, <1>5, <1>6, <1>7, <1>9 DEF Made
<1>11. q < m /\ m < lastUser[q]
  <2>1. q # m
    BY <1>1, <1>7
  <2> QED
    BY <1>3, <1>5, <1>7, <1>8, <1>10, <2>1
<1>12. Awaited(q)
  BY <1>3, <1>4, <1>7, <1>8, <1>11 DEF Awaited
<1>13. /\ result[q].of = 0
       /\ (\A r \in Since(q) : Keeps(r, Id(q))) =>
            result[q].fresh /\ (Lasting(q) => HasEntry(q))
  BY <1>1, <1>8, <1>12 DEF Lives
<1>14. q \notin LastUsesOf(m) /\ result'[q] = result[q]
  BY <1>1, <1>3, <1>7, <1>11, ReleasedFacts
<1>15. ASSUME NEW r \in Since(q) PROVE r \in Since(q)'
  <2>1. r \in q + 1..Len(passes) /\ r \in Nat /\ r \in Made
    BY <1>3, <1>7 DEF Since, Made
  <2>2. r < at'.pass
    <3>1. CASE r < m
      BY <1>3, <1>10, <2>1, <3>1
    <3>2. CASE ~(r < m)
      <4>1. Manager(r) = m
        BY <1>1, <1>4, <3>2 DEF Since
      <4>2. /\ \A x \in m + 1..r : Manager(x) = m
        BY <1>3, <2>1, <4>1, ManagerTurn
      <4>3. at'.pass \notin m + 1..r
        BY <1>3, <1>5, <1>10, <4>2
      <4> QED
        BY <1>3, <1>10, <2>1, <4>3
    <3> QED
      BY <3>1, <3>2
  <2> QED
    BY <1>1, <2>1, <2>2 DEF Since
<1>16. ASSUME \A r \in Since(q)' : Keeps(r, Id(q)), Lasting(q)
       PROVE  \E e \in available' : e.pass = q
  <2>1. PICK e \in available : e.pass = q
    BY <1>13, <1>15, <1>16 DEF HasEntry
  <2>2. e.id = Id(q) /\ e.in = Top /\ e.id # FPManager
    BY <1>8, <1>16, <2>1, EntryFacts, Declarations DEF Lasting
  <2>3. \A x \in LastUsesOf(m) : Id(x) = Id(q) => FALSE
    <3>1. q <= m
      BY <1>3, <1>7, <1>11
    <3> QED
      BY <1>3, <1>8, <1>11, <1>16, <3>1, ReleasedFacts, StillMapped
  <2> QED
    BY <1>1, <1>2, <2>1, <2>2, <2>3
<1> QED
  BY <1>8, <1>13, <1>14, <1>15, <1>16

LEMMA LivesNext ==
  ASSUME Structure, Releases, Planned, Lives, [Next]_vars
  PROVE  Lives'
<1>1. CASE UNCHANGED <<phase, passes, lastUser, result, available, at>>
  BY <1>1 DEF Lives, Awaited, TopPass, Since, HasEntry, Lasting, Outlived, Renewed,
                  Keeps, Id, Manager
<1>2. CASE phase' # "running"
  BY <1>2 DEF Lives
<1>3. CASE Moves \/ Fails \/ EndRun \/ UNCHANGED vars
             \/ \E m, ms, av, made : Assigns(m, ms, av, made)
  <2>1. CASE Moves
    BY <1>2, <2>1, MoveFacts DEF Structure
  <2>2. CASE Fails \/ EndRun
    BY <1>2, <2>2 DEF Fails, EndRun
  <2>3. CASE UNCHANGED vars
    BY <1>1, <2>3 DEF vars
  <2>4. ASSUME NEW m, NEW ms, NEW av, NEW made, Assigns(m, ms, av, made)
        PROVE  phase' # "running"
    BY <2>4, AssignFacts DEF Structure
  <2> QED
    BY <1>2, <1>3, <2>1, <2>2, <2>3, <2>4
<1>4. CASE StartRun
  <2>1. /\ UNCHANGED <<passes, lastUser>> /\ at'.pass = PassAfter(Top, NoPass)
    BY <1>4 DEF StartRun, plan
  <2>2. /\ at'.pass = NoPass \/ (at'.pass \in Made /\ Manager(at'.pass) = Top)
        /\ \A q \in Made : Manager(q) = Top => at'.pass # NoPass /\ at'.pass <= q
    <3>1. NoPass \in Nat /\ \A q \in Made : q > NoPass /\ ~(q <= NoPass) /\ q # NoPass
      BY DEF Made, NoPass
    <3>2. passes \in Seq(PassType)
      BY DEF Structure, Types
    <3> QED
      BY <2>1, <3>1, <3>2, PassAfterFacts
  <2>3. ASSUME NEW q \in DOMAIN lastUser, Awaited(q)' PROVE FALSE
    <3>1. q \in Made /\ q \in Nat \ {0} /\ passes'[q].manager = Manager(q)
      BY <2>1, UsedFacts DEF Manager
    <3>2. Manager(q) = Top
      BY <2>1, <2>2, <2>3, <3>1 DEF Awaited, Manager
    <3>3. TopPass' = at'.pass /\ at'.pass \in Nat
      BY <2>1, <2>2, <3>1, <3>2 DEF TopPass, Manager, Made
    <3> QED
      BY <2>2, <2>3, <3>1, <3>2, <3>3 DEF Awaited, Manager
  <2> QED
    BY <2>1, <2>3 DEF Lives
<1> QED
  BY <1>3, <1>4, StepCases, LivesRuns, LivesNextFunction, LivesFinish DEF Steps

LEMMA AlwaysLives == Spec => [](Connected /\ Lives)
<1>1. Init => Connected /\ Lives
  BY DEF Init, Connected, Lives, Made
<1>2. Structure /\ Releases /\ Planned /\ Connected /\ Lives /\ [Next]_vars
        => (Connected /\ Lives)'
  BY ConnectedNext, LivesNext
<1> QED
  BY <1>1, <1>2, AlwaysStructure, AlwaysReleases, AlwaysPlanned, PTL DEF Spec

(* A manager requires nothing.                                               *)
LEMMA RequiresNothing ==
  ASSUME Structure, NEW p \in Made, NEW id \in ToSet(passes[p].use.requires)
  PROVE  ~IsManager(p)
<1> SUFFICES ASSUME IsManager(p) PROVE FALSE
  OBVIOUS
<1>1. passes[p] \in PassType /\ passes[p].id = FPManager
  BY PassFacts DEF Structure, IsManager
<1>2. passes[p].use = ManagerUsage
  BY <1>1, Declarations DEF PassType, Declared
<1> QED
  BY <1>2 DEF ManagerUsage, ToSet

(* While p runs, what it is connected to has a user to come.                 *)
LEMMA SourceAwaited ==
  ASSUME Structure, Releases, NEW p \in Made, Running(p), ~IsManager(p),
         NEW id \in Analyses, NEW q, Source(q, p, id)
  PROVE  /\ q \in DOMAIN lastUser /\ Id(q) = id /\ Awaited(q)
         /\ Manager(q) = Top <=> Usage[id].level = "module"
         /\ passes[q].use.level = "module" <=> Usage[id].level = "module"
<1> DEFINE m == Manager(p)
<1>1. /\ phase = "running" /\ at.pass = p /\ p # NoPass /\ m \in Nat
      /\ p \in Nat \ {0} /\ Top = 0
  BY ManagerTurn DEF Running, Top
<1>2. /\ Id(q) = id /\ q < p /\ Manager(q) \in {Top, m} /\ q \in Made
      /\ lastUser[q] >= IF Manager(q) = m THEN p ELSE m
  BY DEF Source
<1>3. q \in DOMAIN lastUser
  BY <1>2, Declarations DEF Structure, Types, IsManager, Id
<1>4. /\ Manager(q) = Top <=> Usage[id].level = "module"
      /\ passes[q].use.level = "module" <=> Usage[id].level = "module"
  <2>1. passes[q].use = Usage[id]
    BY <1>2, PassFacts DEF Structure
  <2> QED
    BY <1>2, <2>1 DEF Structure, Nesting
<1>5. /\ q \in Nat \ {0} /\ lastUser[q] \in Nat
      /\ m # Top => m < p /\ IsManager(m) /\ \A r \in m + 1..p : Manager(r) = m
  BY <1>3, UsedFacts, ManagerTurn
<1>6. TopPass = IF m = Top THEN p ELSE m
  BY <1>1 DEF TopPass
<1>7. Manager(q) # m => q < m /\ m # Top /\ Manager(q) = Top
  <2> SUFFICES ASSUME Manager(q) # m, ~(q < m) PROVE FALSE
    BY <1>2
  <2>1. m # Top /\ q # m
    BY <1>2, <1>3, <1>5, UsedFacts
  <2>2. q \in m + 1..p
    BY <1>1, <1>2, <1>5, <2>1
  <2> QED
    BY <1>5, <2>1, <2>2
<1>8. Awaited(q)
  BY <1>1, <1>2, <1>5, <1>6, <1>7 DEF Awaited
<1> QED
  BY <1>2, <1>3, <1>4, <1>8

LEMMA ImplementationSource ==
  ASSUME Structure, Releases, Connected, NEW p \in Made, Running(p),
         NEW id \in DOMAIN Implementations(p)
  PROVE  Source(Implementations(p)[id], p, id)
<1>1. phase = "running" /\ at.pass = p /\ id \in Analyses
  BY ImplementationsType DEF Running, ImplsType, Structure
<1>2. CASE id \in DOMAIN impls[p]
  BY <1>2 DEF Implementations, Connected
<1>3. CASE id \notin DOMAIN impls[p]
  <2>1. /\ Implementations(p)[id] = FindFrom(available, Manager(p), id)
        /\ FindFrom(available, Manager(p), id) # NoPass
    BY <1>3 DEF Implementations, Manager
  <2> QED
    BY <1>1, <2>1, RunsConnects
<1> QED
  BY <1>2, <1>3

(* The pass that runs finds what it requires, up to date, unless function    *)
(* passes of its manager have spoilt it for the functions before.            *)
LEMMA RunsReady ==
  ASSUME Structure, Releases, Planned, Lives, Connected, NEW p \in Made, Running(p),
         NEW id \in ToSet(passes[p].use.requires) \ Outlived,
         ~(Usage[id].level = "module" /\ at.function > 1 /\ ~KeptBy(id, Manager(p)))
  PROVE  IsReadyFor(id, p)
<1> DEFINE m == Manager(p)
<1>1. /\ phase = "running" /\ at.pass = p /\ p # NoPass /\ id \in Analyses /\ m \in Nat
      /\ p \in Nat \ {0} /\ Len(passes) \in Nat /\ p <= Len(passes) /\ Top = 0
  <2>1. passes[p].use.requires \in Seq(Analyses)
    BY PassFacts DEF Structure, AnalysisUsages
  <2> QED
    BY <2>1, ManagerTurn DEF Running, ToSet, Made, Top
<1>2. ~IsManager(p)
  BY RequiresNothing
<1>3. p \in DOMAIN lastUser
  BY <1>2 DEF Structure, Types
<1>4. PICK q \in Made : Source(q, p, id) /\ \A r \in q + 1..p - 1 : Keeps(r, id)
  BY <1>3 DEF Planned
<1>5. /\ q \in DOMAIN lastUser /\ Id(q) = id /\ Awaited(q) /\ q < p
      /\ Manager(q) = Top <=> Usage[id].level = "module"
      /\ passes[q].use.level = "module" <=> Usage[id].level = "module"
  BY <1>1, <1>2, <1>4, SourceAwaited DEF Source
<1>6. /\ q \in Nat \ {0} /\ lastUser[q] \in Nat
      /\ m # Top => m < p /\ \A r \in m + 1..p : Manager(r) = m
  BY <1>5, UsedFacts, ManagerTurn
<1>7. TopPass = IF m = Top THEN p ELSE m
  BY <1>1 DEF TopPass
<1>10. \A r \in Since(q) : Keeps(r, id)
  <2> SUFFICES ASSUME NEW r \in Since(q) PROVE Keeps(r, id)
    OBVIOUS
  <2>1. r \in q + 1..Len(passes) /\ r \in Made /\ r \in Nat
    BY <1>1, <1>6 DEF Since, Made
  <2>2. CASE r < p
    <3>1. r \in q + 1..p - 1
      BY <1>1, <1>6, <2>1, <2>2
    <3> QED
      BY <1>4, <3>1
  <2>3. CASE ~(r < p)
    <3>1. /\ Manager(q) = Top /\ Manager(r) = TopPass
          /\ at.function > IF p = TopPass THEN 0 ELSE 1
      BY <1>1, <2>3 DEF Since
    <3>2. m # Top /\ TopPass = m
      <4> SUFFICES ASSUME m = Top PROVE FALSE
        BY <1>7
      <4>1. Manager(r) = p
        BY <1>7, <3>1
      <4>2. IsManager(p)
        BY <1>1, <2>1, <4>1, ManagerTurn
      <4> QED
        BY <1>2, <4>2
    <3>3. at.function > 1
      BY <1>6, <3>1, <3>2
    <3>4. KeptBy(id, m)
      BY <1>5, <3>1, <3>3
    <3> QED
      BY <2>1, <3>1, <3>2, <3>4 DEF KeptBy, Keeps, Manager, Made
  <2> QED
    BY <2>2, <2>3
<1>11. /\ result[q].of = IF Manager(q) = Top THEN 0 ELSE at.function
       /\ result[q].fresh /\ HasEntry(q)
  BY <1>1, <1>5, <1>10 DEF Lives, Lasting
<1>12. IsHeldFor(q, at.function)
  BY <1>5, <1>11 DEF IsHeldFor
<1>13. FindFrom(available, m, id) # NoPass
  <2>1. PICK e \in available : e.pass = q
    BY <1>11 DEF HasEntry
  <2>2. e.id = id
    BY <1>5, <2>1, EntryFacts
  <2>3. available \in SUBSET EntryType /\ \A d \in available : d.pass # NoPass
    BY DEF Structure, Types, EntryType, NoPass
  <2> QED
    BY <2>2, <2>3, FindFromFacts
<1>14. /\ id \in DOMAIN Implementations(p)
       /\ Implementations(p)[id] = IF id \in DOMAIN impls[p] THEN impls[p][id]
                                   ELSE FindFrom(available, m, id)
  BY <1>13 DEF Implementations, Manager
<1>15. Source(Implementations(p)[id], p, id)
  BY <1>14, ImplementationSource
<1>16. Implementations(p)[id] = q
  BY <1>1, <1>4, <1>15, OneSource
<1> QED
  BY <1>11, <1>12, <1>14, <1>16 DEF IsReadyFor

(* Every pass that runs is connected to results of all it requires, which are *)
(* held and up to date, but for what has been outlived and what the passes of *)
(* its own manager spoil (initializeAnalysisImpl, setLastUser, freePass).    *)
THEOREM RequiredResultsAreReady == Spec => []RequiredAreReady
<1>1. ASSUME Structure, Releases, Planned, Lives, Connected, TypeOK
      PROVE  RequiredAreReady
  BY <1>1, RunsReady DEF RequiredAreReady, Made, Manager
<1> QED
  BY <1>1, AlwaysStructure, AlwaysReleases, AlwaysPlanned, AlwaysLives,
     PassManagerTyped, PTL
-----------------------------------------------------------------------------
(* The passes S that p relies on: each is kept until p has run, and what they *)
(* require transitively is among them, unless that was scheduled again.      *)
ReliedOn(p, S) ==
  /\ \A q \in S : Id(q) \in Analyses /\ Source(q, p, Id(q))
  /\ \A id \in ToSet(passes[p].use.requires) : \E q \in S : Source(q, p, id)
  /\ \A q \in S : \A id \in ToSet(passes[q].use.transitive) :
       id \in Outlived \/ Renewed(q, id) \/ \E s \in S : Source(s, q, id)
Backed == \A p \in DOMAIN lastUser : \E S \in SUBSET Made : ReliedOn(p, S)

LEMMA RenewedGrows ==
  ASSUME Structure, Releases, NEW m, NEW ms, NEW av, NEW made,
         Assigns(m, ms, av, made), NEW q \in DOMAIN lastUser, NEW id, Renewed(q, id)
  PROVE  Renewed(q, id)'
<1>1. PICK r \in DOMAIN lastUser : q < r /\ r <= lastUser[q] /\ passes[r].id = id
  BY DEF Renewed
<1>2. /\ lastUser[q] \in Nat /\ lastUser'[q] \in Nat /\ lastUser[q] <= lastUser'[q]
      /\ r \in Nat /\ r \in Made /\ r \in DOMAIN lastUser'
  BY AssignGrows, UsedFacts
<1>3. passes'[r] = passes[r]
  BY <1>2, AssignFacts DEF Structure
<1> QED
  BY <1>1, <1>2, <1>3 DEF Renewed

LEMMA OutlivedGrows ==
  ASSUME Structure, Releases, NEW m, NEW ms, NEW av, NEW made,
         Assigns(m, ms, av, made)
  PROVE  Outlived \subseteq Outlived'
<1> SUFFICES ASSUME NEW id \in Outlived PROVE id \in Outlived'
  OBVIOUS
<1>1. PICK q \in DOMAIN lastUser : passes[q].id = id /\ Renewed(q, id) /\ id \in Analyses
  BY DEF Outlived
<1>2. q \in DOMAIN lastUser' /\ q \in Made /\ Renewed(q, id)'
  BY <1>1, AssignGrows, RenewedGrows
<1>3. passes'[q] = passes[q]
  BY <1>2, AssignFacts DEF Structure
<1> QED
  BY <1>1, <1>2, <1>3 DEF Outlived

LEMMA ReliedOnGrows ==
  ASSUME Structure, Releases, NEW m, NEW ms, NEW av, NEW made,
         Assigns(m, ms, av, made), NEW p \in DOMAIN lastUser, NEW S \in SUBSET Made,
         ReliedOn(p, S)
  PROVE  ReliedOn(p, S)'
<1>1. p \in Made /\ \A q \in Made : passes'[q] = passes[q]
  BY UsedFacts, AssignFacts DEF Structure
<1>2. ASSUME NEW q \in Made, NEW id \in ToSet(passes[q].use.requires)
      PROVE  id \in Analyses
  <2>1. passes[q].use.requires \in Seq(Analyses)
    BY PassFacts DEF Structure, AnalysisUsages
  <2> QED
    BY <1>2, <2>1 DEF ToSet
<1>3. ASSUME NEW q \in Made, NEW id \in ToSet(passes[q].use.transitive)
      PROVE  id \in Analyses
  <2>1. passes[q].use.transitive \in Seq(Analyses)
    BY PassFacts DEF Structure, AnalysisUsages
  <2> QED
    BY <1>3, <2>1 DEF ToSet
<1>4. ASSUME NEW q \in S
      PROVE  /\ Id(q)' = Id(q) /\ Id(q) \in Analyses /\ Source(q, p, Id(q))'
             /\ q \in Made /\ q \in DOMAIN lastUser
  <2>1. q \in Made /\ Id(q) \in Analyses /\ Source(q, p, Id(q))
    BY DEF ReliedOn
  <2>2. q \in DOMAIN lastUser
    BY <2>1, Declarations DEF Structure, Types, IsManager, Id
  <2> QED
    BY <1>1, <2>1, <2>2, SourceGrows DEF Id
<1>5. ASSUME NEW id \in ToSet(passes[p].use.requires)
      PROVE  \E q \in S : Source(q, p, id)'
  BY <1>1, <1>2, SourceGrows DEF ReliedOn
<1>6. ASSUME NEW q \in S, NEW id \in ToSet(passes[q].use.transitive)
      PROVE  id \in Outlived' \/ Renewed(q, id)' \/ \E s \in S : Source(s, q, id)'
  <2>1. id \in Outlived \/ Renewed(q, id) \/ \E s \in S : Source(s, q, id)
    BY DEF ReliedOn
  <2>2. id \in Analyses /\ q \in Made /\ q \in DOMAIN lastUser
    BY <1>3, <1>4
  <2> QED
    BY <2>1, <2>2, OutlivedGrows, RenewedGrows, SourceGrows
<1> QED
  BY <1>1, <1>4, <1>5, <1>6 DEF ReliedOn, Id

(* What a new pass relies on is closed under what that requires transitively. *)
LEMMA ReliedClosed ==
  ASSUME Structure, Releases, NEW m, NEW ms, NEW av, NEW made,
         Assigns(m, ms, av, made), NEW q \in RelyOn(av, Required(av, m)),
         NEW id \in ToSet(passes[q].use.transitive)
  PROVE  LET x == FindPass(av, id) IN
         /\ id \in Analyses /\ x \in RelyOn(av, Required(av, m)) /\ x \in Found(av)
         /\ \E e \in available : e.pass = x /\ e.id = id
<1> DEFINE found == {e.pass : e \in {e \in av : e.id \in Analyses}}
<1>1. PICK x : x = FindPass(av, id)
  OBVIOUS
<1>2. x # NoPass
  BY <1>1 DEF Assigns, Dangles
<1>3. q \in Found(av) /\ q \in Made /\ id \in Analyses
  <2>1. q \in Found(av) /\ q \in Made
    BY ReliedFound, AssignFound DEF Releases
  <2>2. passes[q].use.transitive \in Seq(Analyses)
    BY <2>1, PassFacts DEF Structure, AnalysisUsages
  <2> QED
    BY <2>1, <2>2 DEF ToSet
<1>4. av \in SUBSET EntryType
  BY AssignEntries
<1>5. PICK e \in av : e.id = id /\ e.pass = x
  BY <1>1, <1>2, <1>4, FindPassFacts
<1>6. e \in available /\ x \in found
  BY <1>3, <1>5, AssignFound DEF Releases
<1>7. x \in RelyOn(av, Required(av, m))
  <2> SUFFICES ASSUME NEW qs \in SUBSET found, Required(av, m) \subseteq qs,
                      \A y \in qs : \A i \in ToSet(passes[y].use.transitive) :
                        FindPass(av, i) \in qs \cup {NoPass}
               PROVE  x \in qs
    BY <1>6 DEF RelyOn
  <2>1. q \in qs
    BY DEF RelyOn
  <2> QED
    BY <1>1, <1>2, <2>1
<1> QED
  BY <1>1, <1>3, <1>5, <1>6, <1>7 DEF Found

(* What a new pass relies on, and what that requires in turn.                *)
LEMMA NewReliedOn ==
  ASSUME Structure, Releases, Mapped, Planned, NEW m, NEW ms, NEW av, NEW made,
         Assigns(m, ms, av, made)
  PROVE  \E S \in SUBSET Made, p \in Nat : p = Len(passes') /\ ReliedOn(p, S)'
<1> DEFINE u == Current.use  n == Len(passes)
<1>0. PICK S : S = RelyOn(av, Required(av, m))
  OBVIOUS
<1>1. PICK p : p = Len(passes')
  OBVIOUS
<1>2. /\ phase = "building" /\ p \in Nat /\ n \in Nat /\ n < p /\ m \in 0..p - 1
      /\ Made' = 1..p /\ \A q \in Made : q \in 1..p /\ q < p /\ q \in Nat
      /\ \A q \in Made : passes'[q] = passes[q]
      /\ passes'[p] = NewPass(Current.id, u, m)
  <2>1. Types
    BY DEF Structure
  <2>2. /\ phase = "building" /\ m \in 0..p - 1 /\ n \in Nat /\ n < p
        /\ p \in {n + 1, n + 2}
    BY <1>1, <2>1, AssignFacts
  <2>3. passes'[p] = NewPass(Current.id, u, m) /\ \A q \in Made : passes'[q] = passes[q]
    BY <1>1, <2>1, AssignFacts
  <2> QED
    BY <1>1, <2>2, <2>3 DEF Made
<1>3. /\ lastUser'[p] = p /\ DOMAIN lastUser' = DOMAIN lastUser \cup {p}
      /\ \A q \in DOMAIN lastUser : q \in S => lastUser'[q] = UserOf(q, p, m)
      /\ S \subseteq Found(av)
  BY <1>0, <1>1, AssignUsers DEF Releases
<1>4. \A id \in ToSet(u.requires) : \E q \in S : Id(q) = id
  BY <1>0, RequirementFacts
<1>5. ASSUME NEW q \in S, NEW id \in ToSet(passes[q].use.transitive)
      PROVE  \E x \in S : /\ x \in Found(av) /\ id \in Analyses
                          /\ \E e \in available : e.pass = x /\ e.id = id
  BY <1>0, <1>5, ReliedClosed
<1>6. ASSUME NEW q \in S
      PROVE  /\ q \in Made /\ q \in DOMAIN lastUser /\ Id(q) \in Analyses
             /\ \/ Manager(q) = m
                \/ Manager(q) = Top /\ m # Top /\ q < m
             /\ lastUser'[q] = UserOf(q, p, m) /\ q \in Nat /\ lastUser'[q] \in Nat
             /\ Source(q, p, Id(q))' /\ Id(q)' = Id(q) /\ Manager(q)' = Manager(q)
  <2>1. /\ q \in Made /\ q \in DOMAIN lastUser /\ Id(q) \in Analyses
        /\ \/ Manager(q) = m
           \/ Manager(q) = Top /\ m # Top /\ q < m
    BY <1>3, <1>6, AssignFound DEF Releases
  <2>2. lastUser'[q] = UserOf(q, p, m) /\ q \in Nat /\ lastUser'[q] \in Nat
    BY <1>2, <1>3, <1>6, <2>1 DEF UserOf
  <2>3. passes'[q].manager = Manager(q) /\ passes'[p].manager = m /\ passes'[q].id = Id(q)
    BY <1>2, <2>1 DEF NewPass, Id, Manager
  <2> QED
    BY <1>2, <2>1, <2>2, <2>3 DEF Source, UserOf, Id, Manager
<1>7. ASSUME NEW q \in S, NEW id \in ToSet(passes[q].use.transitive)
      PROVE  id \in Outlived' \/ Renewed(q, id)' \/ \E s \in S : Source(s, q, id)'
  <2>1. PICK x \in S : /\ id \in Analyses
                       /\ \E e \in available : e.pass = x /\ e.id = id
    BY <1>5, <1>7
  <2>2. PICK e \in available : e.pass = x /\ e.id = id
    BY <2>1
  <2>3. Id(x) = id /\ Manager(x) = e.in
    BY <2>2, EntryFacts
  <2>4. PICK s \in Made : Source(s, q, id)
    <3>1. id \in ToSet(passes[q].use.requires)
      <4>1. passes[q].use = Usage[Id(q)] /\ Id(q) \in Analyses
        BY <1>6, <1>7, PassFacts DEF Structure
      <4> QED
        BY <1>7, <4>1, UsageAssumption
    <3> QED
      BY <1>6, <1>7, <3>1 DEF Planned
  <2>5. /\ Id(s) = id /\ s < q /\ s \in Nat /\ Manager(s) \in {Top, Manager(q)}
        /\ s \in DOMAIN lastUser /\ Source(s, q, id)'
    <3>1. Id(s) = id /\ s < q /\ s \in Nat /\ Manager(s) \in {Top, Manager(q)}
      BY <1>2, <2>4 DEF Source
    <3>2. s \in DOMAIN lastUser
      BY <2>1, <3>1, Declarations DEF Structure, Types, IsManager, Id
    <3>3. q \in Made
      BY <1>6, <1>7
    <3> QED
      BY <2>1, <2>4, <3>1, <3>2, <3>3, SourceGrows
  <2>6. Manager(s) = Manager(x)
    <3>1. /\ Manager(s) = Top <=> Usage[id].level = "module"
          /\ Manager(x) = Top <=> Usage[id].level = "module"
      <4>1. passes[s].use = Usage[id] /\ passes[x].use = Usage[id] /\ x \in Made
        BY <1>6, <2>1, <2>3, <2>5, PassFacts DEF Structure
      <4> QED
        BY <4>1 DEF Structure, Nesting
    <3> QED
      BY <1>6, <1>7, <2>1, <2>5, <3>1
  <2>7. /\ x \in Nat /\ q \in Nat /\ m \in Nat /\ x \in DOMAIN lastUser' /\ x < p
        /\ s \in DOMAIN lastUser' /\ passes'[x].id = id /\ passes'[s].id = id
        /\ lastUser'[s] >= IF Manager(s) = Manager(q) THEN q ELSE Manager(q)
        /\ Manager(q) \in Nat
    <3>1. passes'[x] = passes[x] /\ passes'[s] = passes[s] /\ passes'[q] = passes[q]
      BY <1>2, <1>6, <1>7, <2>1
    <3>2. lastUser'[s] >= IF Manager(s) = Manager(q) THEN q ELSE Manager(q)
      BY <2>5, <3>1 DEF Source, Manager
    <3>3. Manager(q) \in Nat
      BY <1>6, <1>7, UsedFacts
    <3> QED
      BY <1>2, <1>3, <1>6, <1>7, <2>1, <2>3, <2>5, <3>1, <3>2, <3>3 DEF Id
  <2>8. CASE x < s
    <3>1. s \in e.pass + 1..n
      BY <1>2, <2>2, <2>5, <2>7, <2>8 DEF Made
    <3> QED
      BY <1>2, <2>1, <2>2, <2>3, <2>5, <2>6, <3>1 DEF Mapped
  <2>9. CASE s < x
    <3>1. ASSUME x <= lastUser'[s] PROVE id \in Outlived'
      BY <2>1, <2>7, <2>9, <3>1 DEF Outlived, Renewed
    <3>2. ASSUME q < x, x <= lastUser'[q] PROVE Renewed(q, id)'
      BY <2>7, <3>2 DEF Renewed
    <3>3. CASE Manager(s) # Manager(q)
      <4>1. Manager(q) = m /\ Manager(x) = Top /\ x < m
        BY <1>6, <1>7, <2>1, <2>5, <2>6, <3>3
      <4>2. lastUser'[s] \in Nat
        BY <2>5, AssignGrows
      <4> QED
        BY <2>7, <3>1, <3>3, <4>1, <4>2
    <3>4. CASE Manager(s) = Manager(q)
      <4>1. lastUser'[s] \in Nat
        BY <2>5, AssignGrows
      <4>2. CASE x <= q
        BY <2>7, <3>1, <3>4, <4>1, <4>2
      <4>3. CASE q < x
        <5>1. x <= lastUser'[q]
          <6>1. lastUser'[q] = UserOf(q, p, m) /\ Manager(x) = Manager(q)
            BY <1>6, <1>7, <2>6, <3>4
          <6>2. Manager(x) = m \/ (Manager(x) = Top /\ m # Top /\ x < m)
            BY <1>6, <2>1
          <6>3. CASE Manager(q) = m
            BY <1>2, <2>7, <6>1, <6>3 DEF UserOf
          <6>4. CASE Manager(q) # m
            BY <2>7, <6>1, <6>2, <6>4 DEF UserOf
          <6> QED
            BY <6>3, <6>4
        <5> QED
          BY <3>2, <4>3, <5>1
      <4> QED
        BY <2>7, <4>2, <4>3
    <3> QED
      BY <3>3, <3>4
  <2> QED
    BY <2>1, <2>5, <2>7, <2>8, <2>9
<1>8. ASSUME NEW id \in ToSet(u.requires)
      PROVE  \E q \in S : Source(q, p, id)'
  BY <1>4, <1>6, <1>8
<1>9. ReliedOn(p, S)'
  <2>1. passes'[p].use = u /\ \A q \in S : passes'[q] = passes[q]
    BY <1>2, <1>6 DEF NewPass
  <2> QED
    BY <1>6, <1>7, <1>8, <2>1 DEF ReliedOn
<1>10. S \in SUBSET Made
  BY <1>6
<1> QED
  BY <1>1, <1>2, <1>9, <1>10

LEMMA BackedNext ==
  ASSUME Structure, Releases, Mapped, Planned, Backed, [Next]_vars
  PROVE  Backed'
<1>1. ASSUME UNCHANGED <<passes, lastUser>> PROVE Backed'
  <2>1. passes' = passes /\ lastUser' = lastUser
    BY <1>1
  <2>2. Made' = Made
    BY <2>1 DEF Made
  <2>3. \A q, id : Renewed(q, id)' <=> Renewed(q, id)
    BY <2>1 DEF Renewed
  <2>4. Outlived' = Outlived
    BY <2>1, <2>3 DEF Outlived
  <2>5. \A q, p, id : Source(q, p, id)' <=> Source(q, p, id)
    BY <2>1, <2>2 DEF Source, Id, Manager
  <2>6. ASSUME NEW p \in DOMAIN lastUser PROVE \E S \in SUBSET Made : ReliedOn(p, S)'
    <3>1. PICK S \in SUBSET Made : ReliedOn(p, S)
      BY <2>6 DEF Backed
    <3>2. (\A q \in S : Id(q) \in Analyses /\ Source(q, p, Id(q)))'
      BY <2>1, <2>2, <3>1 DEF ReliedOn, Source, Id, Manager
    <3>3. \A id \in ToSet(passes'[p].use.requires) : \E q \in S : Source(q, p, id)'
      BY <2>1, <2>5, <3>1 DEF ReliedOn
    <3>4. \A q \in S : \A id \in ToSet(passes'[q].use.transitive) :
             id \in Outlived' \/ Renewed(q, id)' \/ \E s \in S : Source(s, q, id)'
      BY <2>1, <2>3, <2>4, <2>5, <3>1 DEF ReliedOn
    <3> QED
      BY <3>2, <3>3, <3>4 DEF ReliedOn
  <2> QED
    BY <2>1, <2>2, <2>6 DEF Backed
<1>2. CASE \E m, ms, av, made : Assigns(m, ms, av, made)
  <2>1. PICK m, ms, av, made : Assigns(m, ms, av, made)
    BY <1>2
  <2>2. Made \subseteq Made'
    BY <2>1, AssignFacts DEF Structure, Made
  <2>3. PICK S \in SUBSET Made, p \in Nat : p = Len(passes') /\ ReliedOn(p, S)'
    BY <2>1, NewReliedOn
  <2>4. DOMAIN lastUser' = DOMAIN lastUser \cup {p}
    BY <2>1, <2>3, AssignUsers DEF Releases
  <2>5. ASSUME NEW q \in DOMAIN lastUser PROVE \E T \in SUBSET Made : ReliedOn(q, T)'
    BY <2>1, ReliedOnGrows DEF Backed
  <2>6. ASSUME NEW q \in DOMAIN lastUser' PROVE \E T \in SUBSET Made' : ReliedOn(q, T)'
    <3>1. CASE q = p
      BY <2>2, <2>3, <3>1
    <3>2. CASE q \in DOMAIN lastUser
      <4>1. PICK T \in SUBSET Made : ReliedOn(q, T)'
        BY <2>5, <3>2
      <4> QED
        BY <2>2, <4>1
    <3> QED
      BY <2>4, <2>6, <3>1, <3>2
  <2> QED
    BY <2>6 DEF Backed
<1>3. CASE \/ Moves \/ Fails \/ StartRun \/ EndRun \/ UNCHANGED vars
           \/ \E p \in Made : Runs(p) \/ NextFunction(p) \/ FinishFunctions(p)
  <2>1. CASE Moves
    BY <1>1, <2>1, MoveFacts DEF Structure
  <2>2. CASE \/ Fails \/ StartRun \/ EndRun \/ UNCHANGED vars
             \/ \E p \in Made : Runs(p) \/ NextFunction(p) \/ FinishFunctions(p)
    BY <1>1, <2>2
       DEF Fails, StartRun, EndRun, Runs, NextFunction, FinishFunctions, vars, plan
  <2> QED
    BY <1>3, <2>1, <2>2
<1> QED
  BY <1>2, <1>3, StepCases DEF Steps

LEMMA AlwaysBacked == Spec => []Backed
<1>1. Init => Backed
  BY DEF Init, Backed
<1>2. Structure /\ Releases /\ Mapped /\ Planned /\ Backed /\ [Next]_vars => Backed'
  BY BackedNext
<1> QED
  BY <1>1, <1>2, AlwaysStructure, AlwaysReleases, AlwaysPlanned, PTL DEF Spec

(* While a pass runs, what it relies on is held.                             *)
LEMMA RunsAlive ==
  ASSUME Structure, Releases, Lives, Connected, Backed, NEW p \in Made, Running(p)
  PROVE  \E qs \in SUBSET {q \in Made : IsHeldFor(q, at.function)} :
           UsedBy(p) \subseteq qs /\ \A q \in qs : ReliesOn(q) \subseteq qs
<1>1. CASE IsManager(p)
  <2>1. UsedBy(p) = {}
    BY <1>1, RequiresNothing DEF UsedBy
  <2> QED
    BY <2>1
<1>2. CASE ~IsManager(p)
  <2>1. p \in DOMAIN lastUser
    BY <1>2 DEF Structure, Types
  <2>2. PICK S \in SUBSET Made : ReliedOn(p, S)
    BY <2>1 DEF Backed
  <2>3. ASSUME NEW q \in S PROVE IsHeldFor(q, at.function)
    <3>1. Id(q) \in Analyses /\ Source(q, p, Id(q))
      BY <2>2 DEF ReliedOn
    <3>2. /\ q \in DOMAIN lastUser /\ Awaited(q)
          /\ Manager(q) = Top <=> passes[q].use.level = "module"
      BY <1>2, <3>1, SourceAwaited
    <3>3. result[q].of = IF Manager(q) = Top THEN 0 ELSE at.function
      BY <3>2 DEF Lives, Running
    <3> QED
      BY <3>2, <3>3 DEF IsHeldFor
  <2>4. UsedBy(p) \subseteq S
    <3> SUFFICES ASSUME NEW id \in ToSet(passes[p].use.requires) \ Outlived,
                        id \in DOMAIN Implementations(p)
                 PROVE  Implementations(p)[id] \in S
      BY DEF UsedBy
    <3>1. Source(Implementations(p)[id], p, id) /\ id \in Analyses
      BY ImplementationSource, ImplementationsType DEF Structure, ImplsType
    <3>2. PICK q \in S : Source(q, p, id)
      BY <2>2 DEF ReliedOn
    <3> QED
      BY <3>1, <3>2, OneSource
  <2>5. ASSUME NEW q \in S PROVE ReliesOn(q) \subseteq S
    <3> SUFFICES ASSUME NEW id \in ToSet(passes[q].use.transitive) \ Outlived,
                        id \in DOMAIN impls[q], ~Renewed(q, id)
                 PROVE  impls[q][id] \in S
      BY DEF ReliesOn
    <3>1. q \in Made /\ Source(impls[q][id], q, id) /\ id \in Analyses
      <4>1. q \in Made /\ DOMAIN impls[q] \subseteq Analyses
        BY <2>5 DEF Structure, Types, ImplsType, Made
      <4> QED
        BY <4>1 DEF Connected
    <3>2. PICK s \in S : Source(s, q, id)
      BY <2>2, <2>5 DEF ReliedOn
    <3> QED
      BY <3>1, <3>2, OneSource
  <2> QED
    BY <2>3, <2>4, <2>5
<1> QED
  BY <1>1, <1>2

(* While a pass runs, whatever it uses, and whatever that requires            *)
(* transitively through any number of others, is held, but for what was      *)
(* outlived or scheduled again (setLastUser, removeDeadPasses).              *)
THEOREM ReliedOnIsAlive == Spec => []AliveWhenUsed
<1>1. Structure /\ Releases /\ Lives /\ Connected /\ Backed => AliveWhenUsed
  BY RunsAlive DEF AliveWhenUsed, Made
<1> QED
  BY <1>1, AlwaysStructure, AlwaysReleases, AlwaysLives, AlwaysBacked, PTL
=============================================================================
