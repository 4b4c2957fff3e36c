--------------------------- MODULE MCDirectStream ---------------------------
EXTENDS DirectStream
=============================================================================
