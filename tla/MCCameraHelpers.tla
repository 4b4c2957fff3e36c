--------------------------- MODULE MCCameraHelpers ---------------------------
(* Any two of a listener, a talker, and two pollers of which one keeps the session. *)
EXTENDS CameraHelpers

MCListener == {"motion"}
MCTalker == {"voice"}
MCPoller == {"battery", "battery_online"}
MCMode == [p \in MCPoller |-> IF p = "battery" THEN "reconnect" ELSE "online"]
=============================================================================
