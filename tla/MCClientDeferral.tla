--------------------------- MODULE MCClientDeferral ---------------------------
EXTENDS ClientDeferral

CONSTANTS r1, r2, r3
=============================================================================
