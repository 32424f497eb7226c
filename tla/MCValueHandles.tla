---------------------------- MODULE MCValueHandles ----------------------------
EXTENDS ValueHandles, TLC
CONSTANTS A, B, Wk, Tr, K1, K2, I1, I2
MCHandles == {Wk, Tr, K1, K2, I1, I2}
MCKind == [h \in MCHandles |-> CASE h = Wk -> "Weak" [] h = Tr -> "Tracking"
                                 [] h \in {K1, K2} -> "Callback"
                                 [] OTHER -> "Assert"]
MCIterators == <<I1, I2>>
MCSymmetry == Permutations(Values) \cup Permutations({K1, K2})
=============================================================================
