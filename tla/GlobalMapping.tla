---------------------------- MODULE GlobalMapping ----------------------------
(* The global mappings of an ExecutionEngine under every sequence of calls   *)
(* its clients make and of globals being destroyed and created; each call    *)
(* runs under the engine's lock.                                             *)
EXTENDS GlobalMaps

CONSTANTS NullMappings,     \* TRUE if clients call addGlobalMapping(GV, 0)
                            \* too, as JIT::recompileAndRelinkFunction does
          SharedAddresses   \* TRUE if clients map two globals to one address
ASSUME ClientsAssumption ==
  NullMappings \in BOOLEAN /\ SharedAddresses \in BOOLEAN

VARIABLE answer   \* what getGlobalValueAtAddress was asked and said last

mapVars == <<maps, alive, answer>>
NoAnswer == <<Null, None>>

MapsInit == maps = Empty /\ alive = Globals /\ answer = NoAnswer

(* What the clients of this instance ask for; no test in the code.           *)
Asked(g, a) ==
  IF a = Null THEN NullMappings
  ELSE SharedAddresses \/ \A h \in Globals \ {g} : maps.fwd[h] # a

(* "CurVal == 0 || Addr == 0" *)
Add(g, a) ==
  /\ g \in alive /\ (Lookup(maps, g) = Null \/ a = Null)
  /\ MayEnter(maps, a) /\ Asked(g, a)
  /\ maps' = addGlobalMapping(maps, g, a)
  /\ answer' = NoAnswer /\ UNCHANGED alive

Update(g, a) ==
  /\ g \in alive
  /\ a = Null \/ (MayEnter(Withdrawn(maps, g), a) /\ Asked(g, a))
  /\ maps' = updateGlobalMapping(maps, g, a)
  /\ answer' = NoAnswer /\ UNCHANGED alive

ClearAll ==
  /\ maps' = Empty
  /\ answer' = NoAnswer /\ UNCHANGED alive

ClearModule(gs) ==
  /\ gs \subseteq alive
  /\ maps' = clearGlobalMappingsFromModule(maps, gs)
  /\ answer' = NoAnswer /\ UNCHANGED alive

AskAt(a) ==
  /\ maps' = ComputeReverse(maps)
  /\ answer' = <<a, getGlobalValueAtAddress(maps, a)>>
  /\ UNCHANGED alive

Destroy(g) ==
  /\ g \in alive
  /\ maps' = onDelete(maps, g)
  /\ alive' = alive \ {g}
  /\ answer' = NoAnswer

(* A new global is allocated where a destroyed one was: the same map key. *)
Create(g) ==
  /\ g \notin alive
  /\ alive' = alive \cup {g}
  /\ answer' = NoAnswer /\ UNCHANGED maps

MapsNext ==
  \/ \E g \in Globals, a \in Addrs \cup {Null} : Add(g, a) \/ Update(g, a)
  \/ ClearAll \/ \E gs \in SUBSET Globals : ClearModule(gs)
  \/ \E a \in Addrs : AskAt(a)
  \/ \E g \in Globals : Destroy(g) \/ Create(g)
MapsSpec == MapsInit /\ [][MapsNext]_mapVars
-----------------------------------------------------------------------------
MapsTypeOK ==
  /\ maps.fwd \in [Globals -> Addrs \cup {Null, Absent}]
  /\ maps.rev \in [Addrs \cup {Null} -> Globals \cup {None}]
  /\ alive \subseteq Globals
  /\ answer \in (Addrs \cup {Null}) \X (Globals \cup {None})

(* "This updates both maps as required": a reverse map that is in use is the *)
(* inverse of the forward map, however it came to be emptied, filled and     *)
(* recomputed.                                                               *)
ReverseIsInverse ==
  ReverseInUse(maps) =>
    \A a \in Addrs, g \in Globals : maps.rev[a] = g <=> maps.fwd[g] = a

(* ExecutionEngine.h:282: "Mappings are automatically removed when their     *)
(* GlobalValue is destroyed." A stale one in the reverse map would trip its  *)
(* AssertingVH, and a new global at the same address would inherit it.       *)
DestroyedAreUnmapped ==
  /\ \A g \in Globals \ alive : maps.fwd[g] = Absent
  /\ \A a \in Addrs \cup {Null} : maps.rev[a] \in alive \cup {None}

(* The two maps, with the lazy computation of the second, are one address    *)
(* book.                                                                     *)
Book == INSTANCE AddressBook
          WITH address <- [g \in Globals |-> Lookup(maps, g)]
ImplementsAddressBook == Book!Spec
=============================================================================
