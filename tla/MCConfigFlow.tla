------------------------------ MODULE MCConfigFlow -----------------------------
(* ConfigFlow on small instances; the configurations give the constants.       *)
EXTENDS ConfigFlow

================================================================================
