--------------------------- MODULE MCCameraSession ---------------------------
EXTENDS CameraSession

CONSTANTS a, b, owner

\* a's command retries once after a reconnect; b's is called with retry_on_timeout=False.
MCAttempts == [c \in Caller |-> IF c = a THEN 2 ELSE 1]

=============================================================================
