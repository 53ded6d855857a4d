------------------------------- MODULE MCTemp -------------------------------
(* Temperatures for TLC: 26 and -25 degrees, on both sides of the alarm;   *)
(* their high bytes select other registers if they are taken for a pointer.*)
EXTENDS TempProps

SomeTemps == {6656, 59136}
=============================================================================
