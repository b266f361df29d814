--------------------------- MODULE MCWheelEncoder ---------------------------
(* WheelEncoder for TLC.                                                   *)
EXTENDS WheelEncoder
=============================================================================
