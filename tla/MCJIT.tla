-------------------------------- MODULE MCJIT --------------------------------
(* Programs for the JIT: three functions with recursion and mutual           *)
(* recursion, and two that call each other, compiled eagerly; the two, and   *)
(* one or two and an external one, which may be weak and missing, compiled   *)
(* lazily; some on a target with far stubs; and a chain that ends in an      *)
(* external one.                                                             *)
EXTENDS JIT, TLC
CONSTANTS Main, Even, Odd, Puts, T1, T2

MCGlobals == {Main, Even, Odd, Puts}
MCMemory == 1..9
MCAddrs == MCMemory \cup {100}
MCThreads == {T1, T2}

Program(calls, external) ==
  [calls |-> calls, externalAddr |-> external, lazily |-> FALSE,
   farStubs |-> FALSE, orStubs |-> FALSE,
   retries |-> 0, recompiles |-> 0, frees |-> 0, events |-> 2]
Recursive ==
  Program((Main :> {Main, Even}) @@ (Even :> {Odd}) @@ (Odd :> {Even}),
          [f \in {} |-> Null])
Few == Program((Main :> {Even, Puts}) @@ (Even :> {Even}) @@ (Puts :> {}),
               Puts :> 100)
Mutual == Program((Main :> {Even}) @@ (Even :> {Main}), [f \in {} |-> Null])
Single == Program((Main :> {Main, Puts}) @@ (Puts :> {}), Puts :> 100)
Weak == [Single EXCEPT !.externalAddr = Puts :> Null]
Chain == Program((Main :> {Main, Even}) @@ (Even :> {Odd}) @@ (Odd :> {Puts})
                 @@ (Puts :> {}), Puts :> 100)

MCPrograms ==
  {[Recursive EXCEPT !.retries = 1, !.frees = 1],
   [Mutual EXCEPT !.recompiles = 2, !.retries = 1, !.frees = 1],
   [Mutual EXCEPT !.lazily = TRUE, !.recompiles = 1],
   [Mutual EXCEPT !.lazily = TRUE, !.orStubs = TRUE],
   [Single EXCEPT !.lazily = TRUE, !.orStubs = TRUE],
   [Weak EXCEPT !.lazily = TRUE, !.orStubs = TRUE],
   [Few EXCEPT !.lazily = TRUE],
   [Few EXCEPT !.farStubs = TRUE, !.retries = 1]}
MCFreedPrograms == {[Chain EXCEPT !.frees = 2]}
=============================================================================
