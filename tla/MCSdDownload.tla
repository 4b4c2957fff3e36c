---------------------------- MODULE MCSdDownload ----------------------------
EXTENDS SdDownload
=============================================================================
