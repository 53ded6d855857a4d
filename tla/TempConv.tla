------------------------------ MODULE TempConv ------------------------------
(***************************************************************************)
(* From the word in the sensor's temperature register to the text of a     *)
(* message: the pure functions of temp.c.                                  *)
(***************************************************************************)
EXTENDS Integers, SequencesExt

(* In sixteenths of a degree (TEMP_RES), which a float holds exactly.      *)
temp_conv_NoPlus(data) ==
  LET d == data \div 16 IN
  IF (d \div 2048) % 2 = 1 THEN -(4095 - d) ELSE d
temp_conv(data) ==
  LET d == data \div 16 IN
  IF (d \div 2048) % 2 = 1 THEN -((4095 - d) + 1) ELSE d

(* round() of the C library: halves go away from zero. *)
round(c) == IF c < 0 THEN -((8 - c) \div 16) ELSE (c + 8) \div 16

Digit == <<"0", "1", "2", "3", "4", "5", "6", "7", "8", "9">>

(* The digits of n as the loop of itoa writes them, the last one first.  An *)
(* int of 32 bits (without the least one, whose negation is undefined).    *)
INT_MAX == 2147483647
digits[n \in 0..INT_MAX] ==
  LET d == <<Digit[(n % 10) + 1]>> IN
  IF n < 10 THEN d ELSE d \o digits[n \div 10]

itoa(n) == Reverse(IF n < 0 THEN Append(digits[-n], "-") ELSE digits[n])

(* The number in the line for the log and in the sentence for the speaker; *)
(* "fire" stands for "Something is on fire, please evacuate!".             *)
Line(data) == itoa(round(temp_conv(data)))
Sentence(data) == IF temp_conv(data) < 26 * 16 THEN Line(data) ELSE <<"fire">>
=============================================================================
