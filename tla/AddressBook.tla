----------------------------- MODULE AddressBook -----------------------------
(* What ExecutionEngine.h promises of its global mappings: each global has   *)
(* an address or none, no two have the same one, and the global at an        *)
(* address can be asked for. There is one map; nothing is computed or cached.*)
CONSTANTS Globals, Addrs, Null, None

VARIABLES
  address,   \* where each global is, or Null
  answer     \* address that was asked about last, and the global found there

vars == <<address, answer>>
NoAnswer == <<Null, None>>

At(a) == IF \E g \in Globals : address[g] = a
           THEN CHOOSE g \in Globals : address[g] = a ELSE None

Init == address = [g \in Globals |-> Null] /\ answer = NoAnswer

Put(g, a) ==
  /\ \A h \in Globals \ {g} : address[h] # a
  /\ address' = [address EXCEPT ![g] = a]
  /\ answer' = NoAnswer

Remove(gs) ==
  /\ address' = [g \in Globals |-> IF g \in gs THEN Null ELSE address[g]]
  /\ answer' = NoAnswer

Ask(a) ==
  /\ answer' = <<a, At(a)>>
  /\ UNCHANGED address

Next == \/ \E g \in Globals, a \in Addrs : Put(g, a)
        \/ \E gs \in SUBSET Globals : Remove(gs)
        \/ \E a \in Addrs : Ask(a)
Spec == Init /\ [][Next]_vars
=============================================================================
