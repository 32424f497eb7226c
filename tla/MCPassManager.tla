---------------------------- MODULE MCPassManager ----------------------------
(* An analysis of modules, analyses of functions that rely on each other and *)
(* a transformation that may be required; the client's passes require some   *)
(* and preserve some.                                                        *)
EXTENDS PassManager, TLC
CONSTANTS CallGraph, Alias, Dom, Loops, Evolution, Users, Split

Analysis(level, requires, transitive) ==
  [level |-> level, requires |-> requires, transitive |-> transitive,
   preserves |-> {}, all |-> TRUE]
Client(level, requires, preserves) ==
  [level |-> level, requires |-> requires, transitive |-> <<>>,
   preserves |-> preserves, all |-> FALSE]

(* Evolution relies on Dom through Loops, Users requires Evolution for itself *)
(* only (as IVUsers and CalcSpillWeights do), Split is BreakCriticalEdges.   *)
MCAnalyses == {CallGraph, Alias, Dom, Loops, Evolution, Users, Split}
MCUsage == (CallGraph :> Analysis("module", <<>>, <<>>))
        @@ (Alias :> Analysis("function", <<CallGraph>>, <<CallGraph>>))
        @@ (Dom :> Analysis("function", <<>>, <<>>))
        @@ (Loops :> Analysis("function", <<Dom>>, <<Dom>>))
        @@ (Evolution :> Analysis("function", <<Loops>>, <<Loops>>))
        @@ (Users :> Analysis("function", <<Evolution>>, <<>>))
        @@ (Split :> Client("function", <<>>, {Dom, Loops, CallGraph}))
MCClientUsages ==
  {Client("function", r, {}) : r \in {<<Users>>, <<Evolution, Users>>, <<Evolution, Split>>}}
  \cup {Client("function", <<Dom>>, {Dom, Users}),
        Client("function", <<Split, Loops, Alias>>, {Loops, CallGraph}),
        Client("module", <<CallGraph>>, {})}
=============================================================================
