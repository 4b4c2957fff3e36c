-------------------------- MODULE MCConnectionSetup --------------------------
(* One process finds the camera by its uid, another knows the address of another. *)
EXTENDS ConnectionSetup

MCClient == {"uid", "address"}
MCHasAddress == {"address"}
MCPath == {"local", "relay"}
MCMaxAttempts == [c \in MCClient |-> IF c = "uid" THEN 2 ELSE 1]
MCName == [c \in MCClient |-> IF c = "uid" THEN "garden" ELSE "door"]
=============================================================================
