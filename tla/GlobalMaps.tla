------------------------------ MODULE GlobalMaps ------------------------------
(* ExecutionEngineState: the map from global values to addresses and the     *)
(* reverse map, which is computed when it is first asked for and kept up to  *)
(* date only while it is not empty (lib/ExecutionEngine/ExecutionEngine.cpp).*)
CONSTANTS Globals,     \* functions and global variables
          Addrs,       \* addresses other than null
          Null,        \* the null pointer
          Absent,      \* what a global without a map entry is mapped to
          None         \* no global value

ASSUME GlobalMapsAssumption ==
  Null \notin Addrs /\ Absent \notin Addrs \cup {Null} /\ None \notin Globals

VARIABLES
  maps,        \* the forward and the reverse map
  alive        \* globals (for the JIT: functions) that are not destroyed

(* A record M: fwd is GlobalAddressMap, rev is GlobalAddressReverseMap. *)
Empty == [fwd |-> [g \in Globals |-> Absent],
          rev |-> [a \in Addrs \cup {Null} |-> None]]

(* An absent entry and an entry that holds null read the same. *)
Lookup(M, g) == IF M.fwd[g] = Absent THEN Null ELSE M.fwd[g]

ReverseInUse(M) == \E a \in Addrs \cup {Null} : M.rev[a] # None

(* M with g mapped to a, and entered in the reverse map if that is in use. *)
Enter(M, g, a) ==
  [fwd |-> [M.fwd EXCEPT ![g] = a],
   rev |-> IF ReverseInUse(M) THEN [M.rev EXCEPT ![a] = g] ELSE M.rev]

(* M without what the reverse map says of the address of g. *)
EraseReverse(M, g) == [M EXCEPT !.rev = [@ EXCEPT ![Lookup(M, g)] = None]]

(* Mutant: the old address stays in the reverse map. *)
updateOneMap(M, g, a) ==
  IF a = Null THEN [M EXCEPT !.fwd = [@ EXCEPT ![g] = Absent]]
              ELSE Enter(M, g, a)

addGlobalMapping(M, g, a) == Enter(M, g, a)

RemoveMapping(M, g) ==
  [EraseReverse(M, g) EXCEPT !.fwd = [@ EXCEPT ![g] = Absent]]

(* updateGlobalMapping, after the old address has left the reverse map.      *)
Withdrawn(M, g) == IF Lookup(M, g) # Null THEN EraseReverse(M, g) ELSE M

updateGlobalMapping(M, g, a) ==
  IF a = Null THEN RemoveMapping(M, g) ELSE Enter(Withdrawn(M, g), g, a)

(* AddressMapConfig::onDelete, called for globals that have an entry. *)
onDelete(M, g) == IF M.fwd[g] = Absent THEN M ELSE RemoveMapping(M, g)

clearGlobalMappingsFromModule(M, gs) ==
  [fwd |-> [g \in Globals |-> IF g \in gs THEN Absent ELSE M.fwd[g]],
   rev |-> [a \in Addrs \cup {Null} |->
              IF \E g \in gs : Lookup(M, g) = a THEN None ELSE M.rev[a]]]

(* Mutant: the pairs are entered the wrong way round. *)
ComputeReverseSwapped(M) ==
  IF ReverseInUse(M) THEN M
  ELSE [M EXCEPT !.rev = [a \in Addrs \cup {Null} |->
          IF \E g \in Globals : M.fwd[g] = a THEN a ELSE None]]

(* getGlobalValueAtAddress: the maps after the reverse map has been computed *)
(* (insert() keeps the first of several globals at one address), and what it *)
(* returns.                                                                  *)
ComputeReverse(M) ==
  IF ReverseInUse(M) THEN M
  ELSE [M EXCEPT !.rev = [a \in Addrs \cup {Null} |->
          IF \E g \in Globals : M.fwd[g] = a
            THEN CHOOSE g \in Globals : M.fwd[g] = a ELSE None]]
getGlobalValueAtAddress(M, a) == ComputeReverse(M).rev[a]

(* "GlobalMapping already established!": what the assert asks when an        *)
(* address is entered in M. While the reverse map is not in use, nobody      *)
(* looks whether another global has the address.                             *)
MayEnter(M, a) == ReverseInUse(M) => M.rev[a] = None
=============================================================================
