--------------------------- MODULE MCManagedStatic ---------------------------
(* The statics of lib/VMCore/PassRegistry.cpp: ~PassRegistry takes Lock, and *)
(* a third whose constructor uses both, as GlobalContext's users do.         *)
EXTENDS ManagedStatic
CONSTANTS T1, T2, Lock, Registry, Context
MCThreads == {T1, T2}
MCStatics == {Lock, Registry, Context}
MCCtorUses == [s \in MCStatics |-> IF s = Context THEN {Registry, Lock} ELSE {}]
MCDtorUses == [s \in MCStatics |-> IF s = Registry THEN {Lock} ELSE {}]
=============================================================================
