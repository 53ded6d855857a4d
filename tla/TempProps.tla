----------------------------- MODULE TempProps -----------------------------
(***************************************************************************)
(* What is claimed of temp.c: see README.md, "Properties".                 *)
(***************************************************************************)
EXTENDS Temp

(* What temp_read sends is a temperature the sensor had while it ran,      *)
(* wherever it interrupted temp_task; unless it began when a byte of       *)
(* temp_task was on the wire or the master was being reset.                *)
ReadingTrue ==
  pc["timer"] = "idle" /\ said.line # <<>> /\ ~clash
    => \E t \in recent : said = [line |-> Line(t), sentence |-> Sentence(t)]

(* What temp_shutdown and temp_wakeup read is the configuration, unless     *)
(* temp_read came in between.                                              *)
CtrlTrue ==
  pc["task"] = "read" /\ todo["task"] = <<>> /\ ~torn => Value("task") = reg[TEMP_REG_CTRL]

(* However the two are interleaved, and although temp_i2c_write is given   *)
(* its arguments in the wrong order, nothing ever writes to the sensor's   *)
(* configuration or to its limits: the sensor never stops measuring.       *)
ConfigKept == [][\A r \in 1..3 : reg'[r] = reg[r]]_vars

(* When neither is in a routine the bus is free and no command is pending: *)
(* no interleaving leaves it held for the next one.                        *)
BusFree ==
  pc["task"] \in {"recv", "dead"} /\ pc["timer"] = "idle" => bus = "idle" /\ ~I2CMasterBusy

(* Every reading that is begun is sent, and every command that uses the    *)
(* sensor is obeyed to its end, from the reset of TEMP_INIT or the first   *)
(* byte read for TEMP_SHUTDOWN and TEMP_WAKEUP until temp_task takes its   *)
(* next message: all busy loops end, however often temp_read comes between. *)
RoutinesEnd ==
  /\ pc["timer"] = "read" ~> pc["timer"] = "idle"
  /\ pc["task"] \in {"reset", "enable", "read", "write"} ~> pc["task"] = "recv"

(* What a word of the register says, and what a text does. *)
Words == 0..65535
Signed(d) == IF d < 32768 THEN d \div 16 ELSE (d \div 16) - 4096
DigitValue(c) == CHOOSE i \in 0..9 : Digit[i + 1] = c
Number(s) ==
  LET value[i \in 0..Len(s)] ==
        IF i = 0 THEN 0 ELSE 10 * value[i - 1] + DigitValue(s[i])
  IN value[Len(s)]
Denotes(s, n) ==
  /\ s # <<>> /\ Len(s) < 10
  /\ IF n < 0 THEN s[1] = "-" /\ Len(s) > 1 /\ s[2] # "0" /\ Number(Tail(s)) = -n
              ELSE (Len(s) > 1 => s[1] # "0") /\ Number(s) = n
Distance(a, b) == IF a < b THEN b - a ELSE a - b

(* For every word of the register: the temperature is the word's upper 12   *)
(* bits as a two's complement number, the number in the text is the        *)
(* nearest one, and with its sign and the end mark it fits buf[10].  (Said *)
(* before the timer is started, since it is the same in every state; of    *)
(* the four bits that are dropped TLC tries all 0 and all 1.)              *)
Right(d) ==
  LET c == temp_conv(d) n == round(c) IN
  /\ c = Signed(d)
  /\ Distance(16 * n, c) <= 8 /\ (Distance(16 * n, c) = 8 => (16 * n < c) = (c < 0))
  /\ Denotes(itoa(n), n)
ConversionRight == ~started => \A d \in Words : (d % 16) \in {0, 15} => Right(d)

(* temp.h: "Shutdown temp sensor".  After temp_shutdown, undisturbed, the  *)
(* sensor is shut down.                                                    *)
ShutdownWorks ==
  pc["task"] = "write" /\ todo["task"] = <<>> /\ rx = TEMP_SHUTDOWN /\ ~torn => ShutDown
=============================================================================
