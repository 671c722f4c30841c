-------------------------------- MODULE Null --------------------------------
(* The null pointer, which no value of the kernel's types equals. *)
CONSTANT NULL
=============================================================================
