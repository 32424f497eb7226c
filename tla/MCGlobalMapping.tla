--------------------------- MODULE MCGlobalMapping ---------------------------
EXTENDS GlobalMapping
CONSTANTS F, G, H, X1, X2, X3
=============================================================================
