---------------------------- MODULE MCHlsSession ----------------------------
EXTENDS HlsSession
=============================================================================
