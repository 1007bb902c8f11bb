--------------------------- MODULE MCCheckChannel ---------------------------
EXTENDS CheckChannel
=============================================================================
