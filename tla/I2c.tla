-------------------------------- MODULE I2c --------------------------------
(***************************************************************************)
(* The I2C master of the TIVA board and the TMP102 sensor on its bus, as   *)
(* far as temp.c can tell: the environment of temp.c, external to it.      *)
(*                                                                         *)
(* A command moves one byte and takes its time.  With START it begins a    *)
(* transfer, in the direction of the slave address register at that time;  *)
(* with STOP it ends it; without START on an idle bus it does nothing.  A  *)
(* command given during another one is lost or carried out after it: the   *)
(* data sheet does not say.                                                *)
(***************************************************************************)
EXTENDS Integers, Sequences

CONSTANTS Temps     \* the words the sensor may measure

Word == 0..65535
Byte == 0..255
High(w) == w \div 256
Low(w) == w % 256

ASSUME TempsAssumption ==
  Temps # {} /\ \A t \in Temps : t \in Word /\ t % 16 = 0

(* 12 bits, 4 Hz, not in shutdown; then 75 and 80 degrees. *)
CtrlReset == 24736
RegReset(t) == [r \in 0..3 |-> CASE r = 0 -> t [] r = 1 -> CtrlReset
                                  [] r = 2 -> 19200 [] r = 3 -> 20480]

None == [none |-> TRUE]
Mask(start, stop) == [start |-> start, stop |-> stop]

VARIABLES
  on,           \* the master is enabled
  msa,          \* the direction in its slave address register
  mdr,          \* its data register
  wire,         \* the command being carried out, with the byte it sends
  next,         \* a command given meanwhile
  bus,          \* "idle", or the direction in which the master holds it
  pointer,      \* the sensor: the register selected,
  count,        \*   the number of bytes of this transfer,
  latch,        \*   the word being read,
  reg           \*   and the registers

masterVars == <<on, msa, mdr, wire, next>>
sensorVars == <<bus, pointer, count, latch>>

HardwareInit ==
  /\ on = FALSE /\ msa = "send" /\ mdr = 0 /\ wire = None /\ next = None
  /\ bus = "idle" /\ pointer = 0 /\ count = 0 /\ latch = 0
  /\ \E t \in Temps : reg = RegReset(t)

-----------------------------------------------------------------------------
(* What the driver library does to the master. *)
SysCtlPeripheralReset ==
  /\ on' = FALSE /\ msa' = "send" /\ mdr' = 0 /\ wire' = None /\ next' = None
  /\ bus' = "idle" /\ UNCHANGED <<pointer, count, latch, reg>>

I2CMasterInitExpClk ==
  /\ on' = TRUE
  /\ UNCHANGED <<msa, mdr, wire, next, sensorVars, reg>>

I2CMasterSlaveAddrSet(direction) ==
  /\ msa' = IF on THEN direction ELSE msa
  /\ UNCHANGED <<on, mdr, wire, next, sensorVars, reg>>

I2CMasterDataPut(byte) ==
  /\ mdr' = IF on THEN byte ELSE mdr
  /\ UNCHANGED <<on, msa, wire, next, sensorVars, reg>>

(* Command c when the bus is in state b and the data register holds byte.  *)
Begin(c, b, byte) ==
  IF c.start THEN [mask |-> c, direction |-> msa, byte |-> byte]
  ELSE IF b # "idle" THEN [mask |-> c, direction |-> b, byte |-> byte]
  ELSE None

I2CMasterControl(c) ==
  /\ IF ~on THEN UNCHANGED <<wire, next>>
     ELSE IF wire = None THEN wire' = Begin(c, bus, mdr) /\ next' = None
     ELSE next' \in {next, c} /\ wire' = wire
  /\ UNCHANGED <<on, msa, mdr, sensorVars, reg>>

I2CMasterBusy == wire # None
I2CMasterDataGet == IF on THEN mdr ELSE 0

-----------------------------------------------------------------------------
(* What goes on by itself. *)

(* The sensor takes the pointer, then the high and the low byte; its       *)
(* temperature cannot be written.                                          *)
Written(n, byte) ==
  IF pointer = 0 \/ n > 2 THEN reg
  ELSE [reg EXCEPT ![pointer] = IF n = 1 THEN 256 * byte + Low(@)
                                         ELSE 256 * High(@) + byte]
Sent(n, w) == IF n = 0 THEN High(w) ELSE IF n = 1 THEN Low(w) ELSE 255

(* One byte has gone over the wire. *)
Transfer ==
  /\ wire # None
  /\ LET n == IF wire.mask.start THEN 0 ELSE count
         w == IF n = 0 THEN reg[pointer] ELSE latch
     IN /\ count' = IF n < 3 THEN n + 1 ELSE n
        /\ IF wire.direction = "send"
           THEN /\ pointer' = IF n = 0 THEN wire.byte % 4 ELSE pointer
                /\ reg' = IF n = 0 THEN reg ELSE Written(n, wire.byte)
                /\ UNCHANGED <<mdr, latch>>
           ELSE /\ mdr' = Sent(n, w) /\ latch' = w
                /\ UNCHANGED <<pointer, reg>>
  /\ bus' = IF wire.mask.stop THEN "idle" ELSE wire.direction
  /\ wire' = IF next = None THEN None ELSE Begin(next, bus', mdr')
  /\ next' = None
  /\ UNCHANGED <<on, msa>>

ShutDown == (reg[1] \div 256) % 2 = 1

(* The sensor measures t. *)
Convert(t) ==
  /\ ~ShutDown /\ t # reg[0]
  /\ reg' = [reg EXCEPT ![0] = t]
  /\ UNCHANGED <<masterVars, sensorVars>>
=============================================================================
