------------------------------ MODULE MCLights ------------------------------
(* A small instance of the lights: a legacy pad and a version 4 pad. *)
EXTENDS Lights

MixedVersions == [i \in Pad |-> IF i = 0 THEN 3 ELSE 4]

=============================================================================
