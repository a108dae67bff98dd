------------------------------ MODULE MCDevice ------------------------------
(* Small instances of one device slot. *)
EXTENDS Device
=============================================================================
