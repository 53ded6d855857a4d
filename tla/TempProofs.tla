----------------------------- MODULE TempProofs -----------------------------
(***************************************************************************)
(* What is proved of temp.c at its sensor, for every set of temperatures:  *)
(* the bus is free when nobody is in a routine, nothing writes to the      *)
(* sensor's configuration, what the two routines read is true, and what is *)
(* sent says it in the right text.  How many steps of one come between two *)
(* steps of the other is not bounded.                                      *)
(***************************************************************************)
EXTENDS TempProps, SequenceLemmas

-----------------------------------------------------------------------------
(* Where a user is: the rest of its routine, from step n on.               *)
Rest(routine, n) == SubSeq(routine, n, Len(routine))

TimerReads(n) ==
  pc["timer"] = "read" /\ todo["timer"] = Rest(temp_i2c_read(TEMP_REG_TEMP), n)
TaskReads(n) ==
  pc["task"] = "read" /\ todo["task"] = Rest(temp_i2c_read(TEMP_REG_CTRL), n)
TaskWrites(n) ==
  /\ pc["task"] = "write"
  /\ \E b \in Int : b % 4 = 0 /\ todo["task"] = Rest(temp_i2c_write(TEMP_REG_CTRL, b), n)

UserOK ==
  /\ pc \in [Users -> {"idle", "reset", "enable", "recv", "read", "write", "dead"}]
  /\ data \in [Users -> [high : Int, low : Int]]
  /\ todo = [u \in Users |-> todo[u]]
  /\ pc["timer"] \in {"idle", "read"} /\ pc["task"] # "idle"

-----------------------------------------------------------------------------
(* The master and the sensor, whoever uses them. *)
ByteCommand == [mask : [start : BOOLEAN, stop : BOOLEAN],
              direction : {"send", "receive"}, byte : Int]

Typed ==
  /\ on \in BOOLEAN /\ msa \in {"send", "receive"} /\ bus \in {"idle", "send", "receive"}
  /\ mdr \in Int /\ latch \in Int /\ count \in Nat /\ pointer \in 0..3
  /\ wire \in ByteCommand \cup {None} /\ next \in {None, Mask(TRUE, TRUE)}

(* The registers: only the temperature changes, and the low byte of none   *)
(* of them selects another register than 0 when it is taken for a pointer. *)
Kept ==
  /\ reg \in [0..3 -> Int] /\ reg[0] % 16 = 0
  /\ reg[1] = CtrlReset /\ reg[2] = 19200 /\ reg[3] = 20480

(* A transfer that sends more than the pointer has selected register 0,    *)
(* which cannot be written.                                                *)
Harmless ==
  /\ bus = "send" => pointer = 0
  /\ bus # "idle" => count # 0
  /\ wire # None /\ wire.direction = "send" /\ wire.mask.start /\ ~wire.mask.stop
       => wire.byte % 4 = 0
  /\ wire # None /\ ~wire.mask.start
       => count # 0 /\ (wire.direction = "send" => pointer = 0)

Free == wire = None /\ bus = "idle"
Good == mdr % 4 = 0

Off ==
  /\ ~on => Free /\ mdr = 0
  /\ wire = None => next = None
On == pc["task"] \notin {"reset", "enable"} => on

Hardware == Typed /\ Kept /\ Harmless /\ Off

-----------------------------------------------------------------------------
(* How far the user who runs has brought the transfer. *)
Opened ==
  \/ wire = None /\ bus = "receive" /\ count = 1 /\ Low(latch) % 4 = 0
  \/ Free /\ Good
Opening ==
  \/ Opened
  \/ wire # None /\ next = None /\ wire.mask = Mask(TRUE, FALSE) /\ wire.direction = "receive"
Closing ==
  \/ Free /\ Good
  \/ /\ wire # None /\ next = None /\ wire.mask = Mask(FALSE, TRUE)
     /\ wire.direction = "receive" /\ count = 1 /\ Low(latch) % 4 = 0
Ending == Free \/ (wire # None /\ next = None /\ wire.mask.stop)

(* Before step n of temp_i2c_read, for a user who began with anything.     *)
ReadStage(n) ==
  /\ n \in {5, 6} => wire = None
  /\ n >= 6 => (on => msa = "receive")
  /\ n = 7 => Opening
  /\ n \in {8, 9} => Opened
  /\ n = 10 => Closing
  /\ n \in {11, 12} => Free /\ Good

(* Before step n of temp_i2c_write. *)
WriteStage(n) ==
  /\ n \in {1, 2, 3, 5, 6, 8, 9} => wire = None
  /\ n = 3 => Good
  /\ n = 10 => Ending
  /\ n = 11 => Free

TimerOK ==
  \/ pc["timer"] = "idle" /\ todo["timer"] = <<>>
  \/ \E n \in 1..12 : TimerReads(n) /\ ReadStage(n)

AtRest == pc["task"] \in {"reset", "enable", "recv", "dead"} /\ todo["task"] = <<>>
TaskStage ==
  \/ AtRest /\ Free
  \/ \E n \in 1..12 : TaskReads(n) /\ ReadStage(n) /\ (n <= 3 => wire = None)
  \/ \E n \in 1..11 : TaskWrites(n) /\ WriteStage(n)
TaskPlace ==
  \/ AtRest
  \/ \E n \in 1..12 : TaskReads(n)
  \/ \E n \in 1..11 : TaskWrites(n)
LowRead == TaskReads(12) => data["task"].low % 4 = 0

TaskOK == TaskPlace /\ LowRead /\ (pc["timer"] = "idle" => TaskStage)

BusInv == UserOK /\ Hardware /\ On /\ TimerOK /\ TaskOK

-----------------------------------------------------------------------------
(* Before step n of temp_i2c_read for a user who began with the master     *)
(* idle and is not interrupted: the register that it reads, and the words  *)
(* that are true of it.                                                    *)
Register(u) == IF u = "timer" THEN TEMP_REG_TEMP ELSE TEMP_REG_CTRL
Truth(u) == IF u = "timer" THEN recent ELSE {CtrlReset}

Have(u) ==
  /\ wire = None /\ bus = "receive" /\ count = 1 /\ latch \in Truth(u)
  /\ mdr = High(latch)
ExactStage(u, n) ==
  /\ on /\ next = None
  /\ n \in {1, 2, 3, 5, 6, 8, 9, 11, 12} => wire = None
  /\ n \in {2, 3} => msa = "send"
  /\ n = 3 => mdr = Register(u)
  /\ n = 4 => \/ wire = None /\ pointer = Register(u)
              \/ /\ wire # None /\ wire.mask = Mask(TRUE, TRUE)
                 /\ wire.direction = "send" /\ wire.byte = Register(u)
  /\ n \in {5, 6} => pointer = Register(u)
  /\ n = 6 => msa = "receive"
  /\ n = 7 => \/ Have(u)
              \/ /\ wire # None /\ wire.mask = Mask(TRUE, FALSE)
                 /\ wire.direction = "receive" /\ pointer = Register(u)
  /\ n \in {8, 9} => Have(u)
  /\ n \in {9, 10, 11} => latch \in Truth(u) /\ data[u].high = High(latch)
  /\ n = 10 => \/ wire = None /\ mdr = Low(latch)
               \/ /\ wire # None /\ wire.mask = Mask(FALSE, TRUE)
                  /\ wire.direction = "receive" /\ count = 1
  /\ n = 11 => mdr = Low(latch)
  /\ n = 12 => Value(u) \in Truth(u)

ReadingInv ==
  pc["timer"] = "read" /\ ~clash =>
    /\ reg[TEMP_REG_TEMP] \in recent
    /\ \E n \in 1..12 : TimerReads(n) /\ ExactStage("timer", n)
CtrlInv ==
  ~torn =>
    /\ pc["timer"] = "idle"
    /\ pc["task"] = "read" => \E n \in 1..12 : TaskReads(n) /\ ExactStage("task", n)

-----------------------------------------------------------------------------
(* The routines, step by step. *)

(* The rest of a routine and what follows it. *)
LEMMA RestFacts ==
  ASSUME NEW S, NEW s \in Seq(S), NEW n \in 1..Len(s)
  PROVE  /\ Rest(s, n) # <<>> /\ Head(Rest(s, n)) = s[n]
         /\ Tail(Rest(s, n)) = Rest(s, n + 1)
PROOF
<1>1. Rest(s, n) \in Seq(S) /\ Len(Rest(s, n)) = Len(s) - n + 1
  BY DEF Rest
<1>2. \A i \in 1..Len(s) - n + 1 : Rest(s, n)[i] = s[n + i - 1]
  BY DEF Rest
<1>3. Rest(s, n + 1) \in Seq(S) /\ Len(Rest(s, n + 1)) = Len(s) - n
  BY DEF Rest
<1>4. \A i \in 1..Len(s) - n : Rest(s, n + 1)[i] = s[n + i]
  BY DEF Rest
<1> HIDE DEF Rest
<1>5. Tail(Rest(s, n)) \in Seq(S) /\ Len(Tail(Rest(s, n))) = Len(s) - n
  BY <1>1
<1>6. \A i \in 1..Len(s) - n : Tail(Rest(s, n))[i] = s[n + i]
  BY <1>1, <1>2
<1>7. Tail(Rest(s, n)) = Rest(s, n + 1)
  <2> DEFINE t == Tail(Rest(s, n))
             q == Rest(s, n + 1)
  <2>1. t \in Seq(S) /\ q \in Seq(S)
    BY <1>3, <1>5
  <2>3. Len(t) = Len(q) /\ \A i \in 1..Len(q) : t[i] = q[i]
    BY <1>3, <1>4, <1>5, <1>6
  <2> HIDE DEF t, q
  <2>4. t = q
    BY <2>1, <2>3, SameElements
  <2> QED
    BY <2>4 DEF t, q
<1>8. Rest(s, n) # <<>>
  BY <1>1
<1>9. Head(Rest(s, n)) = s[n]
  BY <1>1, <1>2, <1>8
<1> QED
  BY <1>7, <1>8, <1>9

(* temp_i2c_read: what each of its eleven steps is, and what is left after *)
(* it.                                                                     *)
LEMMA ReadRoutine ==
  ASSUME NEW a
  PROVE  LET r == temp_i2c_read(a) IN
         /\ Rest(r, 1) = r /\ Rest(r, 12) = <<>>
         /\ \A n \in 1..11 : Rest(r, n) # <<>> /\ Tail(Rest(r, n)) = Rest(r, n + 1)
         /\ Head(Rest(r, 1)) = Addr("send") /\ Head(Rest(r, 2)) = Put(a)
         /\ Head(Rest(r, 3)) = Control(TRUE, TRUE) /\ Head(Rest(r, 4)) = Wait
         /\ Head(Rest(r, 5)) = Addr("receive") /\ Head(Rest(r, 6)) = Control(TRUE, FALSE)
         /\ Head(Rest(r, 7)) = Wait /\ Head(Rest(r, 8)) = Get("high")
         /\ Head(Rest(r, 9)) = Control(FALSE, TRUE) /\ Head(Rest(r, 10)) = Wait
         /\ Head(Rest(r, 11)) = Get("low")
PROOF
<1> DEFINE r == temp_i2c_read(a)
<1>1. Len(r) = 11
  BY DEF temp_i2c_read
<1> DEFINE S == { Addr("send"), Put(a), Control(TRUE, TRUE), Wait, Addr("receive"),
                  Control(TRUE, FALSE), Get("high"), Control(FALSE, TRUE), Get("low") }
<1>2. r \in Seq(S)
  BY DEF temp_i2c_read
<1>3. /\ r[1] = Addr("send") /\ r[2] = Put(a) /\ r[3] = Control(TRUE, TRUE)
      /\ r[4] = Wait /\ r[5] = Addr("receive") /\ r[6] = Control(TRUE, FALSE)
      /\ r[7] = Wait /\ r[8] = Get("high") /\ r[9] = Control(FALSE, TRUE)
      /\ r[10] = Wait /\ r[11] = Get("low")
  BY DEF temp_i2c_read
<1> HIDE DEF r, S
<1>4. \A n \in 1..11 : Rest(r, n) # <<>> /\ Tail(Rest(r, n)) = Rest(r, n + 1)
                       /\ Head(Rest(r, n)) = r[n]
  BY <1>1, <1>2, RestFacts
<1>5. Rest(r, 1) = r /\ Rest(r, 12) = <<>>
  BY <1>1, <1>2 DEF Rest
<1>6. /\ Head(Rest(r, 1)) = Addr("send") /\ Head(Rest(r, 2)) = Put(a)
      /\ Head(Rest(r, 3)) = Control(TRUE, TRUE) /\ Head(Rest(r, 4)) = Wait
      /\ Head(Rest(r, 5)) = Addr("receive") /\ Head(Rest(r, 6)) = Control(TRUE, FALSE)
      /\ Head(Rest(r, 7)) = Wait /\ Head(Rest(r, 8)) = Get("high")
      /\ Head(Rest(r, 9)) = Control(FALSE, TRUE) /\ Head(Rest(r, 10)) = Wait
      /\ Head(Rest(r, 11)) = Get("low")
  <2>1. \A n \in 1..11 : Head(Rest(r, n)) = r[n]
    BY <1>4
  <2>2. /\ Head(Rest(r, 1)) = r[1] /\ Head(Rest(r, 2)) = r[2] /\ Head(Rest(r, 3)) = r[3]
        /\ Head(Rest(r, 4)) = r[4] /\ Head(Rest(r, 5)) = r[5] /\ Head(Rest(r, 6)) = r[6]
        /\ Head(Rest(r, 7)) = r[7] /\ Head(Rest(r, 8)) = r[8] /\ Head(Rest(r, 9)) = r[9]
        /\ Head(Rest(r, 10)) = r[10] /\ Head(Rest(r, 11)) = r[11]
    BY <2>1
  <2> QED
    BY <2>2, <1>3
<1> QED
  BY <1>4, <1>5, <1>6 DEF r

(* temp_i2c_write, likewise. *)
LEMMA WriteRoutine ==
  ASSUME NEW w, NEW b
  PROVE  LET r == temp_i2c_write(w, b) IN
         /\ Rest(r, 1) = r /\ Rest(r, 11) = <<>>
         /\ \A n \in 1..10 : Rest(r, n) # <<>> /\ Tail(Rest(r, n)) = Rest(r, n + 1)
         /\ Head(Rest(r, 1)) = Addr("send") /\ Head(Rest(r, 2)) = Put(b)
         /\ Head(Rest(r, 3)) = Control(TRUE, FALSE) /\ Head(Rest(r, 4)) = Wait
         /\ Head(Rest(r, 5)) = Put(High(w)) /\ Head(Rest(r, 6)) = Control(FALSE, FALSE)
         /\ Head(Rest(r, 7)) = Wait /\ Head(Rest(r, 8)) = Put(Low(w))
         /\ Head(Rest(r, 9)) = Control(FALSE, TRUE) /\ Head(Rest(r, 10)) = Wait
PROOF
<1> DEFINE r == temp_i2c_write(w, b)
<1>1. Len(r) = 10
  BY DEF temp_i2c_write
<1> DEFINE S == { Addr("send"), Put(b), Control(TRUE, FALSE), Wait, Put(High(w)),
                  Control(FALSE, FALSE), Put(Low(w)), Control(FALSE, TRUE) }
<1>2. r \in Seq(S)
  BY DEF temp_i2c_write
<1>3. /\ r[1] = Addr("send") /\ r[2] = Put(b) /\ r[3] = Control(TRUE, FALSE)
      /\ r[4] = Wait /\ r[5] = Put(High(w)) /\ r[6] = Control(FALSE, FALSE)
      /\ r[7] = Wait /\ r[8] = Put(Low(w)) /\ r[9] = Control(FALSE, TRUE)
      /\ r[10] = Wait
  BY DEF temp_i2c_write
<1> HIDE DEF r, S
<1>4. \A n \in 1..10 : Rest(r, n) # <<>> /\ Tail(Rest(r, n)) = Rest(r, n + 1)
                       /\ Head(Rest(r, n)) = r[n]
  BY <1>1, <1>2, RestFacts
<1>5. Rest(r, 1) = r /\ Rest(r, 11) = <<>>
  BY <1>1, <1>2 DEF Rest
<1>6. /\ Head(Rest(r, 1)) = Addr("send") /\ Head(Rest(r, 2)) = Put(b)
      /\ Head(Rest(r, 3)) = Control(TRUE, FALSE) /\ Head(Rest(r, 4)) = Wait
      /\ Head(Rest(r, 5)) = Put(High(w)) /\ Head(Rest(r, 6)) = Control(FALSE, FALSE)
      /\ Head(Rest(r, 7)) = Wait /\ Head(Rest(r, 8)) = Put(Low(w))
      /\ Head(Rest(r, 9)) = Control(FALSE, TRUE) /\ Head(Rest(r, 10)) = Wait
  <2>1. \A n \in 1..10 : Head(Rest(r, n)) = r[n]
    BY <1>4
  <2>2. /\ Head(Rest(r, 1)) = r[1] /\ Head(Rest(r, 2)) = r[2] /\ Head(Rest(r, 3)) = r[3]
        /\ Head(Rest(r, 4)) = r[4] /\ Head(Rest(r, 5)) = r[5] /\ Head(Rest(r, 6)) = r[6]
        /\ Head(Rest(r, 7)) = r[7] /\ Head(Rest(r, 8)) = r[8] /\ Head(Rest(r, 9)) = r[9]
        /\ Head(Rest(r, 10)) = r[10]
    BY <2>1
  <2> QED
    BY <2>2, <1>3
<1> QED
  BY <1>4, <1>5, <1>6 DEF r

(* Where a user is in temp_i2c_read, by what is left of it. *)
LEMMA ReadEnds ==
  ASSUME NEW a, NEW n \in 1..12
  PROVE  Rest(temp_i2c_read(a), n) = <<>> <=> n = 12
PROOF
<1>1. Rest(temp_i2c_read(a), 12) = <<>>
  BY ReadRoutine
<1>2. n # 12 => n \in 1..11
  OBVIOUS
<1>3. n \in 1..11 => Rest(temp_i2c_read(a), n) # <<>>
  BY ReadRoutine
<1> QED
  BY <1>1, <1>2, <1>3

(* And in temp_i2c_write. *)
LEMMA WriteEnds ==
  ASSUME NEW w, NEW b, NEW n \in 1..11
  PROVE  Rest(temp_i2c_write(w, b), n) = <<>> <=> n = 11
PROOF
<1>1. Rest(temp_i2c_write(w, b), 11) = <<>>
  BY WriteRoutine
<1>2. n # 11 => n \in 1..10
  OBVIOUS
<1>3. n \in 1..10 => Rest(temp_i2c_write(w, b), n) # <<>>
  BY WriteRoutine
<1> QED
  BY <1>1, <1>2, <1>3

(* What a step of I2cStep does, whatever the step at the head is. *)
LEMMA StepDoes ==
  ASSUME NEW u \in Users, I2cStep(u)
  PROVE  /\ todo[u] # <<>> /\ MayRun(u)
         /\ todo' = [todo EXCEPT ![u] = Tail(todo[u])]
         /\ UNCHANGED <<pc, rx, started, said, recent, clash, torn>>
PROOF
  BY DEF I2cStep, Call, histVars

(* The slave address. *)
LEMMA AddrStep ==
  ASSUME NEW u \in Users, I2cStep(u), NEW d, Head(todo[u]) = Addr(d)
  PROVE  I2CMasterSlaveAddrSet(d) /\ data' = data
PROOF
<1>1. Head(todo[u]).op = "addr" /\ Head(todo[u]).arg = d
  BY DEF Addr
<1> QED
  BY <1>1 DEF I2cStep

(* A byte for the data register. *)
LEMMA PutStep ==
  ASSUME NEW u \in Users, I2cStep(u), NEW b, Head(todo[u]) = Put(b)
  PROVE  I2CMasterDataPut(b) /\ data' = data
PROOF
<1>1. Head(todo[u]).op = "put" /\ Head(todo[u]).arg = b
  BY DEF Put
<1> QED
  BY <1>1 DEF I2cStep

(* A command. *)
LEMMA ControlStep ==
  ASSUME NEW u \in Users, I2cStep(u), NEW f, NEW l, Head(todo[u]) = Control(f, l)
  PROVE  I2CMasterControl(Mask(f, l)) /\ data' = data
PROOF
<1>1. Head(todo[u]).op = "control" /\ Head(todo[u]).arg = Mask(f, l)
  BY DEF Control
<1> QED
  BY <1>1 DEF I2cStep

(* The busy loop. *)
LEMMA WaitStep ==
  ASSUME NEW u \in Users, I2cStep(u), Head(todo[u]) = Wait
  PROVE  wire = None /\ UNCHANGED hardwareVars /\ data' = data
PROOF
<1>1. Head(todo[u]).op = "wait"
  BY DEF Wait
<1> QED
  BY <1>1 DEF I2cStep, Idle, I2CMasterBusy

(* A byte of the data register. *)
LEMMA GetStep ==
  ASSUME NEW u \in Users, I2cStep(u), NEW h, Head(todo[u]) = Get(h)
  PROVE  UNCHANGED hardwareVars /\ data' = [data EXCEPT ![u][h] = I2CMasterDataGet]
PROOF
<1>1. Head(todo[u]).op = "get" /\ Head(todo[u]).arg = h
  BY DEF Get
<1> QED
  BY <1>1 DEF I2cStep

-----------------------------------------------------------------------------
(* The hardware, whoever uses it. *)

(* A command is a command. *)
LEMMA CommandFacts ==
  /\ None \notin ByteCommand
  /\ \A m \in [start : BOOLEAN, stop : BOOLEAN], d \in {"send", "receive"}, b \in Int :
       [mask |-> m, direction |-> d, byte |-> b] \in ByteCommand
  /\ \A f, l \in BOOLEAN : /\ Mask(f, l) \in [start : BOOLEAN, stop : BOOLEAN]
                           /\ Mask(f, l) # None
                           /\ Mask(f, l).start = f /\ Mask(f, l).stop = l
PROOF
<1>1. None \notin ByteCommand
  BY DEF None, ByteCommand
<1>2. \A m \in [start : BOOLEAN, stop : BOOLEAN], d \in {"send", "receive"}, b \in Int :
       [mask |-> m, direction |-> d, byte |-> b] \in ByteCommand
  BY DEF ByteCommand
<1>3. \A f, l \in BOOLEAN : Mask(f, l) \in [start : BOOLEAN, stop : BOOLEAN]
  BY DEF Mask
<1>4. \A f, l \in BOOLEAN : Mask(f, l) # None
  BY DEF Mask, None
<1>5. \A f, l \in BOOLEAN : Mask(f, l).start = f /\ Mask(f, l).stop = l
  BY DEF Mask
<1> QED
  BY <1>1, <1>2, <1>3, <1>4, <1>5

(* What I2CMasterSlaveAddrSet and I2CMasterDataPut keep. *)
LEMMA AddrKeeps ==
  ASSUME Hardware, NEW d \in {"send", "receive"}, I2CMasterSlaveAddrSet(d)
  PROVE  Hardware'
PROOF
<1>1. UNCHANGED <<on, mdr, wire, next, bus, pointer, count, latch, reg>>
  BY DEF I2CMasterSlaveAddrSet, sensorVars
<1>2. msa' \in {"send", "receive"}
  BY DEF I2CMasterSlaveAddrSet, Hardware, Typed
<1>3. Typed'
  BY <1>1, <1>2 DEF Hardware, Typed
<1>4. Kept' /\ Harmless' /\ Off'
  BY <1>1 DEF Hardware, Kept, Harmless, Off, Free
<1> QED
  BY <1>3, <1>4 DEF Hardware

(* What I2CMasterDataPut keeps. *)
LEMMA PutKeeps ==
  ASSUME Hardware, NEW b \in Int, I2CMasterDataPut(b)
  PROVE  Hardware'
PROOF
<1>1. UNCHANGED <<on, msa, wire, next, bus, pointer, count, latch, reg>>
  BY DEF I2CMasterDataPut, sensorVars
<1>2. mdr' \in Int /\ (~on => mdr' = mdr)
  BY DEF I2CMasterDataPut, Hardware, Typed
<1>3. Typed'
  BY <1>1, <1>2 DEF Hardware, Typed
<1>4. Kept' /\ Harmless' /\ Off'
  BY <1>1, <1>2 DEF Hardware, Kept, Harmless, Off, Free
<1> QED
  BY <1>3, <1>4 DEF Hardware

(* Command c begun: nothing, or c in the direction of the address register *)
(* or of the transfer under way.                                           *)
LEMMA BeginFacts ==
  ASSUME NEW c \in [start : BOOLEAN, stop : BOOLEAN], NEW b \in {"idle", "send", "receive"},
         NEW byte \in Int, msa \in {"send", "receive"}
  PROVE  \/ Begin(c, b, byte) = None /\ ~c.start /\ b = "idle"
         \/ /\ Begin(c, b, byte) \in ByteCommand /\ Begin(c, b, byte) # None
            /\ Begin(c, b, byte).mask = c /\ Begin(c, b, byte).byte = byte
            /\ c.start => Begin(c, b, byte).direction = msa
            /\ ~c.start => Begin(c, b, byte).direction = b /\ b # "idle"
PROOF
<1>1. CASE c.start
  <2>1. Begin(c, b, byte) = [mask |-> c, direction |-> msa, byte |-> byte]
    BY <1>1 DEF Begin
  <2> QED
    BY <1>1, <2>1, CommandFacts
<1>2. CASE ~c.start /\ b # "idle"
  <2>1. Begin(c, b, byte) = [mask |-> c, direction |-> b, byte |-> byte]
    BY <1>2 DEF Begin
  <2> QED
    BY <1>2, <2>1, CommandFacts
<1>3. CASE ~c.start /\ b = "idle"
  BY <1>3 DEF Begin
<1> QED
  BY <1>1, <1>2, <1>3

(* What I2CMasterControl does when no other command is being carried out. *)
LEMMA ControlDoes ==
  ASSUME Hardware, NEW f \in BOOLEAN, NEW l \in BOOLEAN, I2CMasterControl(Mask(f, l))
  PROVE  /\ UNCHANGED <<on, msa, mdr, bus, pointer, count, latch, reg>>
         /\ ~on => wire' = wire /\ next' = next
         /\ on /\ wire # None => wire' = wire /\ next' \in {next, Mask(f, l)}
         /\ on /\ wire = None =>
              /\ next' = None
              /\ \/ wire' = None /\ f = FALSE /\ bus = "idle"
                 \/ /\ wire' \in ByteCommand /\ wire' # None
                    /\ wire'.mask = Mask(f, l) /\ wire'.byte = mdr
                    /\ f = TRUE => wire'.direction = msa
                    /\ f = FALSE => wire'.direction = bus /\ bus # "idle"
PROOF
<1> DEFINE c == Mask(f, l)
<1>1. c \in [start : BOOLEAN, stop : BOOLEAN] /\ c # None /\ c.start = f /\ c.stop = l
  BY CommandFacts
<1>2. UNCHANGED <<on, msa, mdr, bus, pointer, count, latch, reg>>
  BY DEF I2CMasterControl, sensorVars
<1>3. /\ ~on => wire' = wire /\ next' = next
      /\ on /\ wire # None => wire' = wire /\ next' \in {next, c}
  BY DEF I2CMasterControl
<1>4. CASE on /\ wire = None
  <2>1. wire' = Begin(c, bus, mdr) /\ next' = None
    BY <1>4 DEF I2CMasterControl
  <2>2. bus \in {"idle", "send", "receive"} /\ mdr \in Int /\ msa \in {"send", "receive"}
    BY DEF Hardware, Typed
  <2> HIDE DEF c
  <2>3. \/ wire' = None /\ f = FALSE /\ bus = "idle"
        \/ /\ wire' \in ByteCommand /\ wire' # None /\ wire'.mask = c /\ wire'.byte = mdr
           /\ f = TRUE => wire'.direction = msa
           /\ f = FALSE => wire'.direction = bus /\ bus # "idle"
    BY <1>1, <2>1, <2>2, BeginFacts
  <2> QED
    BY <1>2, <1>3, <1>4, <2>1, <2>3 DEF c
<1> QED
  BY <1>2, <1>3, <1>4

(* What I2CMasterControl keeps, when it is not given during another        *)
(* command unless it begins and ends a transfer, and when the byte that    *)
(* opens a longer transfer selects register 0.                             *)
LEMMA ControlKeeps ==
  ASSUME Hardware, NEW f \in BOOLEAN, NEW l \in BOOLEAN, I2CMasterControl(Mask(f, l)),
         wire = None \/ (f = TRUE /\ l = TRUE), f = TRUE /\ l = FALSE /\ msa = "send" => Good
  PROVE  Hardware'
PROOF
<1>1. UNCHANGED <<on, msa, mdr, bus, pointer, count, latch, reg>>
  BY ControlDoes
<1>2. Kept'
  BY <1>1 DEF Hardware, Kept
<1>3. CASE ~on
  <2>1. wire' = wire /\ next' = next
    BY <1>3, ControlDoes
  <2> QED
    BY <1>1, <1>2, <2>1 DEF Hardware, Typed, Harmless, Off, Free
<1>4. CASE on /\ wire # None
  <2>1. wire' = wire /\ next' \in {next, Mask(f, l)} /\ Mask(f, l) = Mask(TRUE, TRUE)
    BY <1>4, ControlDoes
  <2> QED
    BY <1>1, <1>2, <1>4, <2>1 DEF Hardware, Typed, Harmless, Off, Free
<1>5. CASE on /\ wire = None
  <2>1. /\ next' = None
        /\ \/ wire' = None
           \/ /\ wire' \in ByteCommand /\ wire' # None
              /\ wire'.mask = Mask(f, l) /\ wire'.byte = mdr
              /\ f = TRUE => wire'.direction = msa
              /\ f = FALSE => wire'.direction = bus /\ bus # "idle"
    BY <1>5, ControlDoes
  <2>2. Mask(f, l).start = f /\ Mask(f, l).stop = l
    BY CommandFacts
  <2>3. Typed'
    BY <1>1, <2>1 DEF Hardware, Typed
  <2>4. Harmless'
    BY <1>1, <2>1, <2>2 DEF Hardware, Harmless, Good
  <2>5. Off'
    BY <1>1, <1>5, <2>1 DEF Hardware, Off
  <2> QED
    BY <1>2, <2>3, <2>4, <2>5 DEF Hardware
<1> QED
  BY <1>3, <1>4, <1>5 DEF Hardware, Typed

(* A word of a register has a low byte that is a multiple of four. *)
LEMMA LowOfRegister ==
  ASSUME Kept, NEW p \in 0..3
  PROVE  reg[p] \in Int /\ Low(reg[p]) % 4 = 0
PROOF
<1>1. \A x \in Int : x % 16 = 0 => (x % 256) % 4 = 0
  OBVIOUS
<1>2. reg[0] \in Int /\ reg[0] % 16 = 0
  BY DEF Kept
<1>3. CASE p = 0
  BY <1>1, <1>2, <1>3 DEF Low
<1>4. CASE p # 0
  BY <1>4 DEF Kept, Low, CtrlReset
<1> QED
  BY <1>3, <1>4

(* What a byte that goes over the wire does: it selects a register, or     *)
(* writes to register 0, which is to no effect, or reads the word that was *)
(* latched with the first byte.                                            *)
LEMMA TransferDoes ==
  ASSUME Hardware, Transfer
  PROVE  /\ wire \in ByteCommand /\ wire # None /\ reg' = reg /\ on' = on /\ msa' = msa
         /\ bus' = (IF wire.mask.stop THEN "idle" ELSE wire.direction)
         /\ wire' = (IF next = None THEN None ELSE Begin(next, bus', mdr')) /\ next' = None
         /\ count' \in Nat /\ count' # 0
         /\ wire.mask.start => count' = 1
         /\ wire.direction = "send" =>
              /\ mdr' = mdr /\ latch' = latch
              /\ wire.mask.start => pointer' = wire.byte % 4
              /\ ~wire.mask.start => pointer' = pointer
         /\ wire.direction = "receive" =>
              /\ pointer' = pointer /\ mdr' \in Int /\ latch' \in Int
              /\ wire.mask.start => latch' = reg[pointer] /\ mdr' = High(latch')
              /\ ~wire.mask.start =>
                   latch' = latch /\ (count = 1 => mdr' = Low(latch))
PROOF
<1> DEFINE n == IF wire.mask.start THEN 0 ELSE count
           w == IF n = 0 THEN reg[pointer] ELSE latch
<1>1. /\ wire \in ByteCommand /\ wire # None /\ on' = on /\ msa' = msa /\ next' = None
      /\ bus' = (IF wire.mask.stop THEN "idle" ELSE wire.direction)
      /\ wire' = (IF next = None THEN None ELSE Begin(next, bus', mdr'))
  BY DEF Transfer, Hardware, Typed
<1>2. wire.mask.start \in BOOLEAN /\ wire.direction \in {"send", "receive"}
  BY <1>1 DEF ByteCommand
<1>3. /\ count' = IF n < 3 THEN n + 1 ELSE n
      /\ wire.direction = "send" =>
           /\ pointer' = IF n = 0 THEN wire.byte % 4 ELSE pointer
           /\ reg' = IF n = 0 THEN reg ELSE Written(n, wire.byte)
           /\ mdr' = mdr /\ latch' = latch
      /\ wire.direction = "receive" =>
           /\ mdr' = Sent(n, w) /\ latch' = w /\ pointer' = pointer /\ reg' = reg
  BY DEF Transfer
<1>4. /\ count \in Nat /\ latch \in Int /\ pointer \in 0..3 /\ reg[pointer] \in Int
      /\ ~wire.mask.start => count # 0 /\ (wire.direction = "send" => pointer = 0)
  BY <1>1, <1>2 DEF Hardware, Typed, Harmless, Kept
<1>5. n \in Nat /\ (n = 0 <=> wire.mask.start) /\ (~wire.mask.start => n = count)
  BY <1>2, <1>4
<1>6. w \in Int /\ (wire.mask.start => w = reg[pointer]) /\ (~wire.mask.start => w = latch)
  BY <1>4, <1>5
<1> HIDE DEF n, w
<1>7. wire.direction = "send" => reg' = reg
  BY <1>3, <1>4, <1>5 DEF Written
<1>8. /\ count' \in Nat /\ count' # 0 /\ (wire.mask.start => count' = 1)
  BY <1>3, <1>5
<1>9. /\ Sent(n, w) \in Int /\ (n = 0 => Sent(n, w) = High(w))
      /\ (n = 1 => Sent(n, w) = Low(w))
  BY <1>5, <1>6 DEF Sent, High, Low
<1>10. wire.direction = "send" =>
         /\ mdr' = mdr /\ latch' = latch
         /\ wire.mask.start => pointer' = wire.byte % 4
         /\ ~wire.mask.start => pointer' = pointer
  BY <1>3, <1>5
<1>11. wire.direction = "receive" =>
         /\ pointer' = pointer /\ mdr' \in Int /\ latch' \in Int
         /\ wire.mask.start => latch' = reg[pointer] /\ mdr' = High(latch')
         /\ ~wire.mask.start => latch' = latch /\ (count = 1 => mdr' = Low(latch))
  BY <1>3, <1>5, <1>6, <1>9
<1> QED
  BY <1>1, <1>2, <1>3, <1>7, <1>8, <1>10, <1>11

(* What a byte that goes over the wire keeps. *)
LEMMA TransferKeeps ==
  ASSUME Hardware, Transfer
  PROVE  Hardware'
PROOF
<1>1. /\ wire \in ByteCommand /\ wire # None /\ reg' = reg /\ on' = on /\ msa' = msa
      /\ bus' = (IF wire.mask.stop THEN "idle" ELSE wire.direction)
      /\ wire' = (IF next = None THEN None ELSE Begin(next, bus', mdr')) /\ next' = None
      /\ count' \in Nat /\ count' # 0
  BY TransferDoes
<1>2. /\ wire.mask.start \in BOOLEAN /\ wire.mask.stop \in BOOLEAN /\ wire.byte \in Int
      /\ wire.direction \in {"send", "receive"}
  BY <1>1 DEF ByteCommand
<1>3. pointer' \in 0..3 /\ mdr' \in Int /\ latch' \in Int
  <2>1. wire.byte % 4 \in 0..3
    BY <1>2
  <2>2. pointer \in 0..3 /\ mdr \in Int /\ latch \in Int
    BY DEF Hardware, Typed
  <2> QED
    BY <1>2, <2>1, <2>2, TransferDoes
<1>4. bus' \in {"idle", "send", "receive"}
  BY <1>1, <1>2
<1>5. bus' = "send" => pointer' = 0
  BY <1>1, <1>2, TransferDoes DEF Hardware, Harmless
<1>6. \/ wire' = None
      \/ /\ wire' \in ByteCommand /\ wire' # None /\ wire'.mask = Mask(TRUE, TRUE)
         /\ wire'.mask.start = TRUE /\ wire'.mask.stop = TRUE
  <2>1. next \in {None, Mask(TRUE, TRUE)} /\ msa \in {"send", "receive"}
    BY DEF Hardware, Typed
  <2>2. CASE next = None
    BY <1>1, <2>2
  <2>3. CASE next = Mask(TRUE, TRUE)
    <3>1. next \in [start : BOOLEAN, stop : BOOLEAN] /\ next # None
          /\ next.start = TRUE /\ next.stop = TRUE
      BY <2>3, CommandFacts
    <3>2. wire' = Begin(next, bus', mdr')
      BY <1>1, <3>1
    <3>3. wire' = [mask |-> next, direction |-> msa, byte |-> mdr']
      BY <3>1, <3>2 DEF Begin
    <3>4. wire' \in ByteCommand
      BY <1>3, <2>1, <3>1, <3>3 DEF ByteCommand
    <3>5. wire'.mask = next
      BY <3>3
    <3> QED
      BY <2>3, <3>1, <3>4, <3>5, CommandFacts
  <2> QED
    BY <2>1, <2>2, <2>3
<1>7. Typed'
  BY <1>1, <1>3, <1>4, <1>6 DEF Hardware, Typed
<1>8. Kept'
  BY <1>1 DEF Hardware, Kept
<1>9. Harmless'
  BY <1>1, <1>5, <1>6 DEF Harmless
<1>10. Off'
  BY <1>1 DEF Hardware, Off, Free
<1> QED
  BY <1>7, <1>8, <1>9, <1>10 DEF Hardware

-----------------------------------------------------------------------------
(* The stages. *)

(* A byte that goes over the wire leaves every stage what it is: it ends   *)
(* what the stage waits for.                                               *)
LEMMA TransferStages ==
  ASSUME Hardware, Transfer
  PROVE  /\ \A n \in 1..12 : ReadStage(n) => ReadStage(n)'
         /\ \A n \in 1..11 : WriteStage(n) => WriteStage(n)'
PROOF
<1>1. /\ wire # None /\ wire \in ByteCommand /\ next' = None
      /\ reg' = reg /\ on' = on /\ msa' = msa
      /\ bus' = (IF wire.mask.stop THEN "idle" ELSE wire.direction)
      /\ next = None => wire' = None
  BY TransferDoes
<1>2. Opening => Opened'
  <2> SUFFICES ASSUME Opening PROVE Opened'
    OBVIOUS
  <2>1. /\ next = None /\ wire.mask = Mask(TRUE, FALSE) /\ wire.direction = "receive"
    BY <1>1 DEF Opening, Opened, Free
  <2>2. wire.mask.start = TRUE /\ wire.mask.stop = FALSE
    BY <2>1, CommandFacts
  <2>3. wire' = None /\ bus' = "receive"
    BY <1>1, <2>1, <2>2
  <2>4. count' = 1 /\ latch' = reg[pointer] /\ pointer \in 0..3
    BY <2>1, <2>2, TransferDoes DEF Hardware, Typed
  <2>5. Low(latch') % 4 = 0
    BY <2>4, LowOfRegister DEF Hardware
  <2> QED
    BY <2>3, <2>4, <2>5 DEF Opened, Low
<1>3. Closing => Free' /\ Good'
  <2> SUFFICES ASSUME Closing PROVE Free' /\ Good'
    OBVIOUS
  <2>1. /\ next = None /\ wire.mask = Mask(FALSE, TRUE) /\ wire.direction = "receive"
        /\ count = 1 /\ Low(latch) % 4 = 0
    BY <1>1 DEF Closing, Free
  <2>2. wire.mask.start = FALSE /\ wire.mask.stop = TRUE
    BY <2>1, CommandFacts
  <2>3. wire' = None /\ bus' = "idle"
    BY <1>1, <2>1, <2>2
  <2>4. mdr' = Low(latch)
    BY <2>1, <2>2, TransferDoes
  <2> QED
    BY <2>1, <2>3, <2>4 DEF Free, Good
<1>4. Ending => Free'
  BY <1>1 DEF Ending, Free
<1>5. /\ Opened' => Opening' /\ ~Opened /\ ~Free
  BY <1>1 DEF Opening, Opened, Free
<1>6. ASSUME NEW n \in 1..12, ReadStage(n) PROVE ReadStage(n)'
  <2>1. n \notin {5, 6, 8, 9, 11, 12}
    BY <1>1, <1>6 DEF ReadStage, Opened, Free
  <2>2. n = 7 => Opening'
    BY <1>2, <1>5, <1>6 DEF ReadStage
  <2>3. n = 10 => Closing'
    BY <1>3, <1>6 DEF ReadStage, Closing
  <2>4. n >= 6 => (on' => msa' = "receive")
    BY <1>1, <1>6 DEF ReadStage
  <2> QED
    BY <2>1, <2>2, <2>3, <2>4 DEF ReadStage
<1>7. ASSUME NEW n \in 1..11, WriteStage(n) PROVE WriteStage(n)'
  <2>1. n \in {4, 7, 10}
    BY <1>1, <1>7 DEF WriteStage, Free
  <2>2. n = 10 => Ending'
    BY <1>4, <1>7 DEF WriteStage, Ending
  <2> QED
    BY <2>1, <2>2 DEF WriteStage
<1> QED
  BY <1>6, <1>7

(* A step that leaves the hardware alone leaves what is said of it. *)
LEMMA HardwareSame ==
  ASSUME UNCHANGED hardwareVars
  PROVE  /\ UNCHANGED <<on, msa, mdr, wire, next, bus, pointer, count, latch, reg>>
         /\ Hardware => Hardware'
         /\ \A n \in 1..12 : ReadStage(n) => ReadStage(n)'
         /\ \A n \in 1..11 : WriteStage(n) => WriteStage(n)'
PROOF
<1>1. UNCHANGED <<on, msa, mdr, wire, next, bus, pointer, count, latch, reg>>
  BY DEF hardwareVars, masterVars, sensorVars
<1>2. Typed' = Typed /\ Kept' = Kept
  BY <1>1 DEF Typed, Kept
<1>6. Harmless' = Harmless /\ Off' = Off
  BY <1>1 DEF Harmless, Off, Free
<1>3. /\ Free' = Free /\ Good' = Good /\ Opened' = Opened /\ Opening' = Opening
      /\ Closing' = Closing /\ Ending' = Ending
  BY <1>1 DEF Free, Good, Opened, Opening, Closing, Ending
<1>4. \A n \in 1..12 : ReadStage(n) => ReadStage(n)'
  BY <1>1, <1>3 DEF ReadStage
<1>5. \A n \in 1..11 : WriteStage(n) => WriteStage(n)'
  BY <1>1, <1>3 DEF WriteStage
<1> QED
  BY <1>1, <1>2, <1>4, <1>5, <1>6 DEF Hardware

(* A step of temp_i2c_read takes its user from one stage to the next,      *)
(* whatever the master was doing when the routine began.                   *)
LEMMA ReadAdvances ==
  ASSUME UserOK, Hardware, NEW u \in Users, NEW a \in Int, NEW n \in 1..12,
         todo[u] = Rest(temp_i2c_read(a), n), ReadStage(n), I2cStep(u)
  PROVE  /\ n \in 1..11 /\ todo' = [todo EXCEPT ![u] = Rest(temp_i2c_read(a), n + 1)]
         /\ UNCHANGED <<on, pc, rx, started, said, recent, clash, torn>>
         /\ MayRun(u) /\ Hardware' /\ ReadStage(n + 1)' /\ (n <= 2 => wire' = wire)
         /\ \E d \in [high : Int, low : Int] :
              data' = [data EXCEPT ![u] = d] /\ (n = 11 => d.low % 4 = 0)
PROOF
<1>1. n \in 1..11
  <2>1. todo[u] # <<>>
    BY StepDoes
  <2>2. n # 12
    BY <2>1, ReadEnds
  <2> QED
    BY <2>2
<1>2. /\ todo' = [todo EXCEPT ![u] = Rest(temp_i2c_read(a), n + 1)]
      /\ UNCHANGED <<pc, rx, started, said, recent, clash, torn>> /\ MayRun(u)
  <2>1. Tail(todo[u]) = Rest(temp_i2c_read(a), n + 1)
    BY <1>1, ReadRoutine
  <2>2. /\ todo' = [todo EXCEPT ![u] = Tail(todo[u])] /\ MayRun(u)
        /\ UNCHANGED <<pc, rx, started, said, recent, clash, torn>>
    BY StepDoes
  <2> QED
    BY <2>1, <2>2
<1>3. data[u] \in [high : Int, low : Int] /\ data = [data EXCEPT ![u] = data[u]]
  BY DEF UserOK
<1>4. n \in {1, 2, 3, 4, 5, 6, 7, 8, 9, 10, 11}
  BY <1>1
<1>5. CASE n = 1
  <2>1. I2CMasterSlaveAddrSet("send") /\ data' = data
    <3>1. Head(Rest(temp_i2c_read(a), 1)) = Addr("send")
      BY ReadRoutine
    <3>2. todo[u] = Rest(temp_i2c_read(a), 1)
      BY <1>5
    <3>3. Head(todo[u]) = Addr("send")
      BY <3>1, <3>2
    <3> QED
      BY <3>3, AddrStep
  <2>2. Hardware' /\ wire' = wire /\ on' = on
    BY <2>1, AddrKeeps DEF I2CMasterSlaveAddrSet
  <2> QED
    BY <1>1, <1>2, <1>3, <1>5, <2>1, <2>2 DEF ReadStage
<1>6. CASE n = 2
  <2>1. I2CMasterDataPut(a) /\ data' = data
    <3>1. Head(Rest(temp_i2c_read(a), 2)) = Put(a)
      BY ReadRoutine
    <3>2. todo[u] = Rest(temp_i2c_read(a), 2)
      BY <1>6
    <3>3. Head(todo[u]) = Put(a)
      BY <3>1, <3>2
    <3> QED
      BY <3>3, PutStep
  <2>2. Hardware' /\ wire' = wire /\ on' = on
    BY <2>1, PutKeeps DEF I2CMasterDataPut
  <2> QED
    BY <1>1, <1>2, <1>3, <1>6, <2>1, <2>2 DEF ReadStage
<1>7. CASE n = 3
  <2>1. I2CMasterControl(Mask(TRUE, TRUE)) /\ data' = data
    <3>1. Head(Rest(temp_i2c_read(a), 3)) = Control(TRUE, TRUE)
      BY ReadRoutine
    <3>2. todo[u] = Rest(temp_i2c_read(a), 3)
      BY <1>7
    <3>3. Head(todo[u]) = Control(TRUE, TRUE)
      BY <3>1, <3>2
    <3> QED
      BY <3>3, ControlStep
  <2>2. Hardware' /\ on' = on
    BY <2>1, ControlKeeps DEF I2CMasterControl
  <2> QED
    BY <1>1, <1>2, <1>3, <1>7, <2>1, <2>2 DEF ReadStage
<1>8. CASE n = 4
  <2>1. wire = None /\ UNCHANGED hardwareVars /\ data' = data
    <3>1. Head(Rest(temp_i2c_read(a), 4)) = Wait
      BY ReadRoutine
    <3>2. todo[u] = Rest(temp_i2c_read(a), 4)
      BY <1>8
    <3>3. Head(todo[u]) = Wait
      BY <3>1, <3>2
    <3> QED
      BY <3>3, WaitStep
  <2>2. Hardware' /\ wire' = None /\ on' = on
    BY <2>1, HardwareSame
  <2> QED
    BY <1>1, <1>2, <1>3, <1>8, <2>1, <2>2 DEF ReadStage
<1>9. CASE n = 5
  <2>1. I2CMasterSlaveAddrSet("receive") /\ data' = data
    <3>1. Head(Rest(temp_i2c_read(a), 5)) = Addr("receive")
      BY ReadRoutine
    <3>2. todo[u] = Rest(temp_i2c_read(a), 5)
      BY <1>9
    <3>3. Head(todo[u]) = Addr("receive")
      BY <3>1, <3>2
    <3> QED
      BY <3>3, AddrStep
  <2>2. Hardware' /\ wire' = wire /\ on' = on /\ (on => msa' = "receive")
    BY <2>1, AddrKeeps DEF I2CMasterSlaveAddrSet
  <2> QED
    BY <1>1, <1>2, <1>3, <1>9, <2>1, <2>2 DEF ReadStage
<1>10. CASE n = 6
  <2>1. I2CMasterControl(Mask(TRUE, FALSE)) /\ data' = data
    <3>1. Head(Rest(temp_i2c_read(a), 6)) = Control(TRUE, FALSE)
      BY ReadRoutine
    <3>2. todo[u] = Rest(temp_i2c_read(a), 6)
      BY <1>10
    <3>3. Head(todo[u]) = Control(TRUE, FALSE)
      BY <3>1, <3>2
    <3> QED
      BY <3>3, ControlStep
  <2>2. wire = None /\ (on => msa = "receive")
    BY <1>10 DEF ReadStage
  <2>3. on \in BOOLEAN /\ (~on => Free /\ Good)
    BY DEF Hardware, Typed, Off, Good
  <2>4. Hardware' /\ on' = on /\ msa' = msa /\ mdr' = mdr /\ bus' = bus
    BY <2>1, <2>2, <2>3, ControlKeeps, ControlDoes
  <2>5. Opening'
    <3>1. CASE ~on
      <4>1. wire' = wire
        BY <2>1, <3>1, ControlDoes
      <4> QED
        BY <2>3, <2>4, <3>1, <4>1 DEF Opening, Opened, Free, Good
    <3>2. CASE on
      BY <2>1, <2>2, <3>2, ControlDoes DEF Opening
    <3> QED
      BY <2>3, <3>1, <3>2
  <2> QED
    BY <1>1, <1>2, <1>3, <1>10, <2>1, <2>2, <2>4, <2>5 DEF ReadStage
<1>11. CASE n = 7
  <2>1. wire = None /\ UNCHANGED hardwareVars /\ data' = data
    <3>1. Head(Rest(temp_i2c_read(a), 7)) = Wait
      BY ReadRoutine
    <3>2. todo[u] = Rest(temp_i2c_read(a), 7)
      BY <1>11
    <3>3. Head(todo[u]) = Wait
      BY <3>1, <3>2
    <3> QED
      BY <3>3, WaitStep
  <2>2. Hardware' /\ UNCHANGED <<on, msa, mdr, wire, next, bus, pointer, count, latch, reg>>
    BY <2>1, HardwareSame
  <2>3. Opened
    BY <1>11, <2>1 DEF ReadStage, Opening
  <2>4. Opened'
    BY <2>2, <2>3 DEF Opened, Free, Good
  <2> QED
    BY <1>1, <1>2, <1>3, <1>11, <2>1, <2>2, <2>4 DEF ReadStage
<1>12. CASE n = 8
  <2>1. /\ UNCHANGED hardwareVars
        /\ data' = [data EXCEPT ![u]["high"] = I2CMasterDataGet]
    <3>1. Head(Rest(temp_i2c_read(a), 8)) = Get("high")
      BY ReadRoutine
    <3>2. todo[u] = Rest(temp_i2c_read(a), 8)
      BY <1>12
    <3>3. Head(todo[u]) = Get("high")
      BY <3>1, <3>2
    <3> QED
      BY <3>3, GetStep
  <2>2. Hardware' /\ UNCHANGED <<on, msa, mdr, wire, next, bus, pointer, count, latch, reg>>
    BY <2>1, HardwareSame
  <2>3. Opened'
    BY <1>12, <2>2 DEF ReadStage, Opened, Free, Good
  <2>4. I2CMasterDataGet \in Int
    BY DEF I2CMasterDataGet, Hardware, Typed
  <2> DEFINE d == [data[u] EXCEPT !["high"] = I2CMasterDataGet]
  <2>5. d \in [high : Int, low : Int] /\ data' = [data EXCEPT ![u] = d]
    BY <1>3, <2>1, <2>4
  <2>6. ReadStage(n + 1)' /\ on' = on /\ (n = 11 => d.low % 4 = 0)
    BY <1>12, <2>2, <2>3 DEF ReadStage
  <2> HIDE DEF d
  <2>7. \E e \in [high : Int, low : Int] :
          data' = [data EXCEPT ![u] = e] /\ (n = 11 => e.low % 4 = 0)
    BY <2>5, <2>6
  <2> QED
    BY <1>1, <1>2, <1>12, <2>2, <2>6, <2>7
<1>13. CASE n = 9
  <2>1. I2CMasterControl(Mask(FALSE, TRUE)) /\ data' = data
    <3>1. Head(Rest(temp_i2c_read(a), 9)) = Control(FALSE, TRUE)
      BY ReadRoutine
    <3>2. todo[u] = Rest(temp_i2c_read(a), 9)
      BY <1>13
    <3>3. Head(todo[u]) = Control(FALSE, TRUE)
      BY <3>1, <3>2
    <3> QED
      BY <3>3, ControlStep
  <2>2. Opened /\ wire = None /\ (on => msa = "receive")
    BY <1>13 DEF ReadStage, Opened, Free
  <2>3. on \in BOOLEAN /\ (~on => Free /\ Good)
    BY DEF Hardware, Typed, Off, Good
  <2>4. Hardware' /\ UNCHANGED <<on, msa, mdr, bus, count, latch>>
    BY <2>1, <2>2, ControlKeeps, ControlDoes
  <2>5. Closing'
    <3>1. CASE ~on
      <4>1. wire' = wire
        BY <2>1, <3>1, ControlDoes
      <4> QED
        BY <2>3, <2>4, <3>1, <4>1 DEF Closing, Free, Good
    <3>2. CASE on /\ bus = "idle"
      <4>1. wire' = None
        BY <2>1, <2>2, <3>2, ControlDoes
      <4> QED
        BY <2>2, <2>4, <3>2, <4>1 DEF Closing, Opened, Free, Good
    <3>3. CASE on /\ bus # "idle"
      <4>1. bus = "receive" /\ count = 1 /\ Low(latch) % 4 = 0
        BY <2>2, <3>3 DEF Opened, Free
      <4>2. /\ wire' # None /\ next' = None /\ wire'.mask = Mask(FALSE, TRUE)
            /\ wire'.direction = "receive"
        BY <2>1, <2>2, <3>3, <4>1, ControlDoes
      <4> QED
        BY <2>4, <4>1, <4>2 DEF Closing, Low
    <3> QED
      BY <2>3, <3>1, <3>2, <3>3
  <2> QED
    BY <1>1, <1>2, <1>3, <1>13, <2>1, <2>2, <2>4, <2>5 DEF ReadStage
<1>14. CASE n = 10
  <2>1. wire = None /\ UNCHANGED hardwareVars /\ data' = data
    <3>1. Head(Rest(temp_i2c_read(a), 10)) = Wait
      BY ReadRoutine
    <3>2. todo[u] = Rest(temp_i2c_read(a), 10)
      BY <1>14
    <3>3. Head(todo[u]) = Wait
      BY <3>1, <3>2
    <3> QED
      BY <3>3, WaitStep
  <2>2. Hardware' /\ UNCHANGED <<on, msa, mdr, wire, next, bus, pointer, count, latch, reg>>
    BY <2>1, HardwareSame
  <2>3. Free' /\ Good'
    BY <1>14, <2>1, <2>2 DEF ReadStage, Closing, Free, Good
  <2> QED
    BY <1>1, <1>2, <1>3, <1>14, <2>1, <2>2, <2>3 DEF ReadStage
<1>15. CASE n = 11
  <2>1. /\ UNCHANGED hardwareVars
        /\ data' = [data EXCEPT ![u]["low"] = I2CMasterDataGet]
    <3>1. Head(Rest(temp_i2c_read(a), 11)) = Get("low")
      BY ReadRoutine
    <3>2. todo[u] = Rest(temp_i2c_read(a), 11)
      BY <1>15
    <3>3. Head(todo[u]) = Get("low")
      BY <3>1, <3>2
    <3> QED
      BY <3>3, GetStep
  <2>2. Hardware' /\ UNCHANGED <<on, msa, mdr, wire, next, bus, pointer, count, latch, reg>>
    BY <2>1, HardwareSame
  <2>3. Free /\ Good /\ Free' /\ Good'
    BY <1>15, <2>2 DEF ReadStage, Free, Good
  <2>4. I2CMasterDataGet \in Int /\ I2CMasterDataGet % 4 = 0
    BY <2>3 DEF I2CMasterDataGet, Hardware, Typed, Good
  <2> DEFINE d == [data[u] EXCEPT !["low"] = I2CMasterDataGet]
  <2>5. d \in [high : Int, low : Int] /\ d.low % 4 = 0 /\ data' = [data EXCEPT ![u] = d]
    BY <1>3, <2>1, <2>4
  <2>6. ReadStage(n + 1)' /\ on' = on
    BY <1>15, <2>2, <2>3 DEF ReadStage
  <2> HIDE DEF d
  <2>7. \E e \in [high : Int, low : Int] :
          data' = [data EXCEPT ![u] = e] /\ (n = 11 => e.low % 4 = 0)
    BY <1>15, <2>5
  <2> QED
    BY <1>1, <1>2, <1>15, <2>2, <2>6, <2>7
<1> QED
  BY <1>4, <1>5, <1>6, <1>7, <1>8, <1>9, <1>10, <1>11, <1>12, <1>13, <1>14, <1>15

(* A step of temp_i2c_write, when the byte it opens the transfer with      *)
(* selects register 0.                                                     *)
LEMMA WriteAdvances ==
  ASSUME Hardware, NEW u \in Users, NEW w \in Int, NEW b \in Int, b % 4 = 0,
         NEW n \in 1..11, todo[u] = Rest(temp_i2c_write(w, b), n), WriteStage(n), I2cStep(u)
  PROVE  /\ n \in 1..10 /\ todo' = [todo EXCEPT ![u] = Rest(temp_i2c_write(w, b), n + 1)]
         /\ UNCHANGED <<on, pc, data, rx, started, said, recent, clash, torn>>
         /\ MayRun(u) /\ Hardware' /\ WriteStage(n + 1)'
PROOF
<1>1. n \in 1..10
  <2>1. todo[u] # <<>>
    BY StepDoes
  <2>2. n # 11
    BY <2>1, WriteEnds
  <2> QED
    BY <2>2
<1>2. /\ todo' = [todo EXCEPT ![u] = Rest(temp_i2c_write(w, b), n + 1)] /\ MayRun(u)
      /\ UNCHANGED <<pc, rx, started, said, recent, clash, torn>>
  <2>1. Tail(todo[u]) = Rest(temp_i2c_write(w, b), n + 1)
    BY <1>1, WriteRoutine
  <2>2. /\ todo' = [todo EXCEPT ![u] = Tail(todo[u])] /\ MayRun(u)
        /\ UNCHANGED <<pc, rx, started, said, recent, clash, torn>>
    BY StepDoes
  <2> QED
    BY <2>1, <2>2
<1>3. n \in {1, 2, 3, 4, 5, 6, 7, 8, 9, 10}
  BY <1>1
<1>4. on \in BOOLEAN /\ (~on => Free /\ mdr = 0) /\ High(w) \in Int /\ Low(w) \in Int
  BY DEF Hardware, Typed, Off, High, Low
<1>5. CASE n = 1
  <2>1. I2CMasterSlaveAddrSet("send") /\ data' = data
    <3>1. Head(Rest(temp_i2c_write(w, b), 1)) = Addr("send")
      BY WriteRoutine
    <3>2. todo[u] = Rest(temp_i2c_write(w, b), 1)
      BY <1>5
    <3>3. Head(todo[u]) = Addr("send")
      BY <3>1, <3>2
    <3> QED
      BY <3>3, AddrStep
  <2>2. Hardware' /\ wire' = wire /\ on' = on
    BY <2>1, AddrKeeps DEF I2CMasterSlaveAddrSet
  <2>3. WriteStage(n + 1)'
    BY <1>5, <2>2 DEF WriteStage
  <2> QED
    BY <1>1, <1>2, <2>1, <2>2, <2>3
<1>6. CASE n = 2
  <2>1. I2CMasterDataPut(b) /\ data' = data
    <3>1. Head(Rest(temp_i2c_write(w, b), 2)) = Put(b)
      BY WriteRoutine
    <3>2. todo[u] = Rest(temp_i2c_write(w, b), 2)
      BY <1>6
    <3>3. Head(todo[u]) = Put(b)
      BY <3>1, <3>2
    <3> QED
      BY <3>3, PutStep
  <2>2. Hardware' /\ wire' = wire /\ on' = on
    BY <1>4, <2>1, PutKeeps DEF I2CMasterDataPut
  <2>3. mdr' = b \/ mdr' = 0
    BY <1>4, <2>1 DEF I2CMasterDataPut
  <2>4. Good'
    BY <2>3 DEF Good
  <2>5. WriteStage(n + 1)'
    BY <1>6, <2>2, <2>4 DEF WriteStage
  <2> QED
    BY <1>1, <1>2, <2>1, <2>2, <2>5
<1>7. CASE n = 3
  <2>1. I2CMasterControl(Mask(TRUE, FALSE)) /\ data' = data
    <3>1. Head(Rest(temp_i2c_write(w, b), 3)) = Control(TRUE, FALSE)
      BY WriteRoutine
    <3>2. todo[u] = Rest(temp_i2c_write(w, b), 3)
      BY <1>7
    <3>3. Head(todo[u]) = Control(TRUE, FALSE)
      BY <3>1, <3>2
    <3> QED
      BY <3>3, ControlStep
  <2>2. wire = None /\ (n = 3 => Good)
    BY <1>7 DEF WriteStage
  <2>3. Hardware' /\ on' = on
    BY <1>7, <2>1, <2>2, ControlKeeps, ControlDoes
  <2>4. WriteStage(n + 1)'
    BY <1>7 DEF WriteStage
  <2> QED
    BY <1>1, <1>2, <2>1, <2>3, <2>4
<1>8. CASE n = 4
  <2>1. wire = None /\ UNCHANGED hardwareVars /\ data' = data
    <3>1. Head(Rest(temp_i2c_write(w, b), 4)) = Wait
      BY WriteRoutine
    <3>2. todo[u] = Rest(temp_i2c_write(w, b), 4)
      BY <1>8
    <3>3. Head(todo[u]) = Wait
      BY <3>1, <3>2
    <3> QED
      BY <3>3, WaitStep
  <2>2. Hardware' /\ wire' = None /\ on' = on
    BY <2>1, HardwareSame
  <2>3. WriteStage(n + 1)'
    BY <1>8, <2>1, <2>2 DEF WriteStage
  <2> QED
    BY <1>1, <1>2, <2>1, <2>2, <2>3
<1>9. CASE n = 5
  <2>1. I2CMasterDataPut(High(w)) /\ data' = data
    <3>1. Head(Rest(temp_i2c_write(w, b), 5)) = Put(High(w))
      BY WriteRoutine
    <3>2. todo[u] = Rest(temp_i2c_write(w, b), 5)
      BY <1>9
    <3>3. Head(todo[u]) = Put(High(w))
      BY <3>1, <3>2
    <3> QED
      BY <3>3, PutStep
  <2>2. Hardware' /\ wire' = wire /\ on' = on
    BY <1>4, <2>1, PutKeeps DEF I2CMasterDataPut
  <2>3. WriteStage(n + 1)'
    BY <1>9, <2>2 DEF WriteStage
  <2> QED
    BY <1>1, <1>2, <2>1, <2>2, <2>3
<1>10. CASE n = 6
  <2>1. I2CMasterControl(Mask(FALSE, FALSE)) /\ data' = data
    <3>1. Head(Rest(temp_i2c_write(w, b), 6)) = Control(FALSE, FALSE)
      BY WriteRoutine
    <3>2. todo[u] = Rest(temp_i2c_write(w, b), 6)
      BY <1>10
    <3>3. Head(todo[u]) = Control(FALSE, FALSE)
      BY <3>1, <3>2
    <3> QED
      BY <3>3, ControlStep
  <2>2. wire = None /\ (n = 3 => Good)
    BY <1>10 DEF WriteStage
  <2>3. Hardware' /\ on' = on
    BY <1>10, <2>1, <2>2, ControlKeeps, ControlDoes
  <2>4. WriteStage(n + 1)'
    BY <1>10 DEF WriteStage
  <2> QED
    BY <1>1, <1>2, <2>1, <2>3, <2>4
<1>11. CASE n = 7
  <2>1. wire = None /\ UNCHANGED hardwareVars /\ data' = data
    <3>1. Head(Rest(temp_i2c_write(w, b), 7)) = Wait
      BY WriteRoutine
    <3>2. todo[u] = Rest(temp_i2c_write(w, b), 7)
      BY <1>11
    <3>3. Head(todo[u]) = Wait
      BY <3>1, <3>2
    <3> QED
      BY <3>3, WaitStep
  <2>2. Hardware' /\ wire' = None /\ on' = on
    BY <2>1, HardwareSame
  <2>3. WriteStage(n + 1)'
    BY <1>11, <2>1, <2>2 DEF WriteStage
  <2> QED
    BY <1>1, <1>2, <2>1, <2>2, <2>3
<1>12. CASE n = 8
  <2>1. I2CMasterDataPut(Low(w)) /\ data' = data
    <3>1. Head(Rest(temp_i2c_write(w, b), 8)) = Put(Low(w))
      BY WriteRoutine
    <3>2. todo[u] = Rest(temp_i2c_write(w, b), 8)
      BY <1>12
    <3>3. Head(todo[u]) = Put(Low(w))
      BY <3>1, <3>2
    <3> QED
      BY <3>3, PutStep
  <2>2. Hardware' /\ wire' = wire /\ on' = on
    BY <1>4, <2>1, PutKeeps DEF I2CMasterDataPut
  <2>3. WriteStage(n + 1)'
    BY <1>12, <2>2 DEF WriteStage
  <2> QED
    BY <1>1, <1>2, <2>1, <2>2, <2>3
<1>13. CASE n = 9
  <2>1. I2CMasterControl(Mask(FALSE, TRUE)) /\ data' = data
    <3>1. Head(Rest(temp_i2c_write(w, b), 9)) = Control(FALSE, TRUE)
      BY WriteRoutine
    <3>2. todo[u] = Rest(temp_i2c_write(w, b), 9)
      BY <1>13
    <3>3. Head(todo[u]) = Control(FALSE, TRUE)
      BY <3>1, <3>2
    <3> QED
      BY <3>3, ControlStep
  <2>2. wire = None /\ (n = 3 => Good)
    BY <1>13 DEF WriteStage
  <2>3. Hardware' /\ on' = on /\ bus' = bus
    BY <2>1, <2>2, ControlKeeps, ControlDoes
  <2>4. Ending'
    <3>1. CASE ~on
      <4>1. wire' = wire
        BY <2>1, <3>1, ControlDoes
      <4> QED
        BY <1>4, <2>3, <3>1, <4>1 DEF Ending, Free
    <3>2. CASE on
      <4>1. /\ next' = None
            /\ \/ wire' = None /\ bus = "idle"
               \/ wire' # None /\ wire'.mask = Mask(FALSE, TRUE)
        BY <2>1, <2>2, <3>2, ControlDoes
      <4>2. Mask(FALSE, TRUE).stop
        BY DEF Mask
      <4> QED
        BY <2>3, <4>1, <4>2 DEF Ending, Free
    <3> QED
      BY <1>4, <3>1, <3>2
  <2>5. WriteStage(n + 1)'
    BY <1>13, <2>4 DEF WriteStage
  <2> QED
    BY <1>1, <1>2, <2>1, <2>3, <2>5
<1>14. CASE n = 10
  <2>1. wire = None /\ UNCHANGED hardwareVars /\ data' = data
    <3>1. Head(Rest(temp_i2c_write(w, b), 10)) = Wait
      BY WriteRoutine
    <3>2. todo[u] = Rest(temp_i2c_write(w, b), 10)
      BY <1>14
    <3>3. Head(todo[u]) = Wait
      BY <3>1, <3>2
    <3> QED
      BY <3>3, WaitStep
  <2>2. Hardware' /\ wire' = None /\ on' = on /\ bus' = bus
    BY <2>1, HardwareSame
  <2>3. WriteStage(n + 1)'
    BY <1>14, <2>1, <2>2 DEF WriteStage, Ending, Free
  <2> QED
    BY <1>1, <1>2, <2>1, <2>2, <2>3
<1> QED
  BY <1>3, <1>5, <1>6, <1>7, <1>8, <1>9, <1>10, <1>11, <1>12, <1>13, <1>14

-----------------------------------------------------------------------------
(* The bus: one lemma for each action. *)

(* At the start. *)
LEMMA InitBus == Init => BusInv
PROOF
<1> SUFFICES ASSUME Init PROVE BusInv
  OBVIOUS
<1>1. PICK t \in Temps : reg = RegReset(t)
  <2>1. HardwareInit
    BY Zenon DEF Init
  <2> QED
    BY Zenon, <2>1 DEF HardwareInit
<1>2. t \in Int /\ t % 16 = 0
  <2>1. t \in Word /\ t % 16 = 0
    BY TempsAssumption
  <2> QED
    BY <2>1 DEF Word
<1>3. Kept
  BY <1>1, <1>2 DEF Kept, RegReset, CtrlReset
<1>4. /\ on = FALSE /\ msa = "send" /\ mdr = 0 /\ wire = None /\ next = None
      /\ bus = "idle" /\ pointer = 0 /\ count = 0 /\ latch = 0
  BY DEF Init, HardwareInit
<1>5. Typed /\ Harmless /\ Off /\ Free
  <2>1. Typed
    <3>1. on \in BOOLEAN
      BY <1>4
    <3>2. /\ msa \in {"send", "receive"} /\ bus \in {"idle", "send", "receive"}
          /\ mdr \in Int /\ latch \in Int /\ count \in Nat /\ pointer \in 0..3
      BY <1>4
    <3>3. wire \in ByteCommand \cup {None} /\ next \in {None, Mask(TRUE, TRUE)}
      BY <1>4
    <3> QED
      BY <3>1, <3>2, <3>3 DEF Typed
  <2>2. Harmless /\ Free
    BY <1>4 DEF Harmless, Free
  <2>3. Off
    BY <1>4, <2>2 DEF Off
  <2> QED
    BY <2>1, <2>2, <2>3
<1>6. /\ pc = [task |-> "reset", timer |-> "idle"]
      /\ todo = [u \in Users |-> <<>>] /\ data = [u \in Users |-> [high |-> 0, low |-> 0]]
  BY DEF Init
<1>7. /\ pc["task"] = "reset" /\ pc["timer"] = "idle"
      /\ todo["task"] = <<>> /\ todo["timer"] = <<>>
  BY <1>6 DEF Users
<1>8. pc \in [Users -> {"idle", "reset", "enable", "recv", "read", "write", "dead"}]
  BY <1>6 DEF Users
<1>9. UserOK
  BY <1>6, <1>7, <1>8 DEF UserOK, Users
<1>10. On /\ TimerOK /\ TaskOK
  BY <1>5, <1>7 DEF On, TimerOK, TaskOK, TaskPlace, TaskStage, LowRead, TaskReads, AtRest
<1> QED
  BY <1>3, <1>5, <1>9, <1>10 DEF BusInv, Hardware

(* A step of one user's routine leaves the users what they are. *)
LEMMA UsersKept ==
  ASSUME UserOK, NEW u \in Users, NEW q, NEW d \in [high : Int, low : Int],
         pc' = pc, todo' = [todo EXCEPT ![u] = q], data' = [data EXCEPT ![u] = d]
  PROVE  /\ UserOK' /\ todo'[u] = q /\ data'[u] = d
         /\ \A v \in Users : v # u => todo'[v] = todo[v] /\ data'[v] = data[v]
PROOF
<1>1. todo = [v \in Users |-> todo[v]] /\ data \in [Users -> [high : Int, low : Int]]
  BY DEF UserOK
<1>2. /\ todo'[u] = q /\ data'[u] = d
      /\ \A v \in Users : v # u => todo'[v] = todo[v] /\ data'[v] = data[v]
  BY <1>1
<1>3. todo' = [v \in Users |-> todo'[v]] /\ data' \in [Users -> [high : Int, low : Int]]
  BY <1>1
<1> QED
  BY <1>2, <1>3 DEF UserOK

(* A step of temp_task in a routine. *)
LEMMA TaskStepBus == BusInv /\ I2cStep("task") => BusInv'
PROOF
<1> SUFFICES ASSUME BusInv, I2cStep("task") PROVE BusInv'
  OBVIOUS
<1> USE DEF Users
<1>1. UserOK /\ Hardware /\ On /\ TimerOK /\ TaskOK
  BY DEF BusInv
<1>2. pc["timer"] = "idle" /\ todo["task"] # <<>>
  BY <1>1, StepDoes DEF MayRun
<1>3. TaskStage /\ todo["timer"] = <<>>
  BY <1>1, <1>2 DEF TaskOK, TimerOK, TimerReads
<1>4. CASE \E n \in 1..12 : TaskReads(n) /\ ReadStage(n) /\ (n <= 3 => wire = None)
  <2>1. PICK n \in 1..12 : TaskReads(n) /\ ReadStage(n) /\ (n <= 3 => wire = None)
    BY <1>4
  <2>2. todo["task"] = Rest(temp_i2c_read(1), n) /\ pc["task"] = "read"
    BY <2>1 DEF TaskReads, TEMP_REG_CTRL
  <2>3. /\ n \in 1..11 /\ todo' = [todo EXCEPT !["task"] = Rest(temp_i2c_read(1), n + 1)]
        /\ on' = on /\ pc' = pc
        /\ Hardware' /\ ReadStage(n + 1)' /\ (n <= 2 => wire' = wire)
        /\ \E d \in [high : Int, low : Int] :
             data' = [data EXCEPT !["task"] = d] /\ (n = 11 => d.low % 4 = 0)
    BY <1>1, <2>1, <2>2, ReadAdvances
  <2>4. PICK d \in [high : Int, low : Int] :
             data' = [data EXCEPT !["task"] = d] /\ (n = 11 => d.low % 4 = 0)
    BY <2>3
  <2>5. /\ UserOK' /\ todo'["task"] = Rest(temp_i2c_read(1), n + 1) /\ data'["task"] = d
        /\ todo'["timer"] = todo["timer"]
    BY <1>1, <2>3, <2>4, UsersKept
  <2>6. n + 1 \in 1..12
    BY <2>3
  <2>7. TaskReads(n + 1)'
    BY <2>2, <2>3, <2>5 DEF TaskReads, TEMP_REG_CTRL
  <2>8. n + 1 <= 3 => wire' = None
    BY <2>1, <2>3
  <2>9. TaskStage' /\ TaskPlace'
    BY <2>3, <2>6, <2>7, <2>8 DEF TaskStage, TaskPlace
  <2>10. LowRead'
    <3> SUFFICES ASSUME TaskReads(12)' PROVE data'["task"].low % 4 = 0
      BY DEF LowRead
    <3>1. Rest(temp_i2c_read(1), n + 1) = Rest(temp_i2c_read(1), 12)
      BY <2>5 DEF TaskReads, TEMP_REG_CTRL
    <3>2. n + 1 = 12
      BY <2>6, <3>1, ReadEnds
    <3> QED
      BY <2>3, <2>4, <2>5, <3>2
  <2>11. On' /\ TimerOK'
    BY <1>1, <1>2, <1>3, <2>3, <2>5 DEF On, TimerOK
  <2> QED
    BY <2>3, <2>5, <2>9, <2>10, <2>11 DEF BusInv, TaskOK
<1>5. CASE \E n \in 1..11 : TaskWrites(n) /\ WriteStage(n)
  <2>1. PICK n \in 1..11 : TaskWrites(n) /\ WriteStage(n)
    BY <1>5
  <2>2. PICK b \in Int : b % 4 = 0 /\ todo["task"] = Rest(temp_i2c_write(1, b), n)
    BY <2>1 DEF TaskWrites, TEMP_REG_CTRL
  <2>3. /\ n \in 1..10 /\ todo' = [todo EXCEPT !["task"] = Rest(temp_i2c_write(1, b), n + 1)]
        /\ on' = on /\ pc' = pc /\ data' = data /\ Hardware' /\ WriteStage(n + 1)'
    BY <1>1, <2>1, <2>2, WriteAdvances
  <2>4. data' = [data EXCEPT !["task"] = data["task"]]
        /\ data["task"] \in [high : Int, low : Int]
    BY <1>1, <2>3 DEF UserOK
  <2>5. /\ UserOK' /\ todo'["task"] = Rest(temp_i2c_write(1, b), n + 1)
        /\ todo'["timer"] = todo["timer"]
    BY <1>1, <2>3, <2>4, UsersKept
  <2>6. n + 1 \in 1..11
    BY <2>3
  <2>7. TaskWrites(n + 1)'
    BY <2>1, <2>2, <2>3, <2>5 DEF TaskWrites, TEMP_REG_CTRL
  <2>8. TaskStage' /\ TaskPlace'
    BY <2>3, <2>6, <2>7 DEF TaskStage, TaskPlace
  <2>9. LowRead'
    BY <2>1, <2>3 DEF LowRead, TaskReads, TaskWrites
  <2>10. On' /\ TimerOK'
    BY <1>1, <1>2, <1>3, <2>3, <2>5 DEF On, TimerOK
  <2> QED
    BY <2>3, <2>5, <2>8, <2>9, <2>10 DEF BusInv, TaskOK
<1> QED
  BY <1>2, <1>3, <1>4, <1>5 DEF TaskStage, AtRest

(* A step of temp_read at the master. *)
LEMMA TimerStepBus == BusInv /\ I2cStep("timer") => BusInv'
PROOF
<1> SUFFICES ASSUME BusInv, I2cStep("timer") PROVE BusInv'
  OBVIOUS
<1> USE DEF Users
<1>1. UserOK /\ Hardware /\ On /\ TimerOK /\ TaskOK
  BY DEF BusInv
<1>2. todo["timer"] # <<>>
  BY StepDoes
<1>3. PICK n \in 1..12 : TimerReads(n) /\ ReadStage(n)
  BY <1>1, <1>2 DEF TimerOK
<1>4. todo["timer"] = Rest(temp_i2c_read(0), n) /\ pc["timer"] = "read"
  BY <1>3 DEF TimerReads, TEMP_REG_TEMP
<1>5. /\ n \in 1..11 /\ todo' = [todo EXCEPT !["timer"] = Rest(temp_i2c_read(0), n + 1)]
      /\ on' = on /\ pc' = pc /\ Hardware' /\ ReadStage(n + 1)'
      /\ \E d \in [high : Int, low : Int] : data' = [data EXCEPT !["timer"] = d]
  BY <1>1, <1>3, <1>4, ReadAdvances
<1>6. PICK d \in [high : Int, low : Int] : data' = [data EXCEPT !["timer"] = d]
  BY <1>5
<1>7. /\ UserOK' /\ todo'["timer"] = Rest(temp_i2c_read(0), n + 1)
      /\ data'["task"] = data["task"] /\ todo'["task"] = todo["task"]
  BY <1>1, <1>5, <1>6, UsersKept
<1>8. n + 1 \in 1..12
  BY <1>5
<1>9. TimerReads(n + 1)'
  BY <1>4, <1>5, <1>7 DEF TimerReads, TEMP_REG_TEMP
<1>10. TimerOK'
  BY <1>5, <1>8, <1>9 DEF TimerOK
<1>11. On' /\ LowRead' /\ TaskPlace'
  BY <1>1, <1>5, <1>7 DEF On, LowRead, TaskOK, TaskPlace, TaskReads, TaskWrites, AtRest
<1>12. pc'["timer"] # "idle"
  BY <1>4, <1>5
<1> QED
  BY <1>5, <1>7, <1>10, <1>11, <1>12 DEF BusInv, TaskOK


(* temp_i2c_init: the master is reset. *)
LEMMA ResetBus == BusInv /\ TempReset => BusInv'
PROOF
<1> SUFFICES ASSUME BusInv, TempReset PROVE BusInv'
  OBVIOUS
<1> USE DEF Users
<1>1. UserOK /\ Hardware /\ On /\ TimerOK /\ TaskOK
  BY DEF BusInv
<1>2. /\ pc["timer"] = "idle" /\ pc["task"] = "reset" /\ pc' = [pc EXCEPT !["task"] = "enable"]
      /\ todo' = todo /\ data' = data
  BY DEF TempReset, MayRun, Goto
<1>3. /\ on' = FALSE /\ msa' = "send" /\ mdr' = 0 /\ wire' = None /\ next' = None
      /\ bus' = "idle" /\ UNCHANGED <<pointer, count, latch, reg>>
  BY DEF TempReset, SysCtlPeripheralReset
<1>4. pc'["task"] = "enable" /\ pc'["timer"] = "idle" /\ UserOK'
  BY <1>1, <1>2 DEF UserOK
<1>5. Typed'
  <2>1. on' \in BOOLEAN
    BY <1>3
  <2>2. pointer' \in 0..3 /\ count' \in Nat /\ latch' \in Int
    BY <1>1, <1>3 DEF Hardware, Typed
  <2>3. /\ msa' \in {"send", "receive"} /\ bus' \in {"idle", "send", "receive"}
        /\ mdr' \in Int /\ wire' \in ByteCommand \cup {None}
        /\ next' \in {None, Mask(TRUE, TRUE)}
    BY <1>3
  <2> QED
    BY <2>1, <2>2, <2>3 DEF Typed
<1>6. Hardware' /\ Free'
  <2>1. Kept'
    BY <1>1, <1>3 DEF Hardware, Kept
  <2>2. Harmless' /\ Free'
    BY <1>3 DEF Harmless, Free
  <2>3. Off'
    BY <1>3 DEF Off, Free
  <2> QED
    BY <1>5, <2>1, <2>2, <2>3 DEF Hardware
<1>7. todo["timer"] = <<>> /\ todo["task"] = <<>>
  BY <1>1, <1>2 DEF TimerOK, TimerReads, TaskOK, TaskPlace, TaskReads, TaskWrites, AtRest
<1>8. On' /\ TimerOK' /\ TaskOK'
  BY <1>2, <1>4, <1>6, <1>7
  DEF On, TimerOK, TaskOK, TaskPlace, TaskStage, LowRead, TaskReads, AtRest
<1> QED
  BY <1>4, <1>6, <1>8 DEF BusInv

(* And enabled. *)
LEMMA EnableBus == BusInv /\ TempEnable => BusInv'
PROOF
<1> SUFFICES ASSUME BusInv, TempEnable PROVE BusInv'
  OBVIOUS
<1> USE DEF Users
<1>1. UserOK /\ Hardware /\ On /\ TimerOK /\ TaskOK
  BY DEF BusInv
<1>2. /\ pc["timer"] = "idle" /\ pc["task"] = "enable" /\ pc' = [pc EXCEPT !["task"] = "recv"]
      /\ todo' = todo /\ data' = data
  BY DEF TempEnable, MayRun, Goto
<1>3. /\ on' = TRUE
      /\ UNCHANGED <<msa, mdr, wire, next, bus, pointer, count, latch, reg>>
  BY DEF TempEnable, I2CMasterInitExpClk, sensorVars
<1>4. pc'["task"] = "recv" /\ pc'["timer"] = "idle" /\ UserOK'
  BY <1>1, <1>2 DEF UserOK
<1>5. todo["timer"] = <<>> /\ todo["task"] = <<>> /\ Free
  BY <1>1, <1>2
  DEF TimerOK, TimerReads, TaskOK, TaskStage, TaskReads, TaskWrites, AtRest
<1>6. Hardware' /\ Free'
  <2>1. on' \in BOOLEAN
    BY <1>3
  <2>2. Typed'
    BY <1>1, <1>3, <2>1 DEF Hardware, Typed
  <2>3. Kept' /\ Harmless' /\ Free'
    BY <1>1, <1>3, <1>5 DEF Hardware, Kept, Harmless, Free
  <2>4. Off'
    BY <1>1, <1>3 DEF Hardware, Off
  <2> QED
    BY <2>2, <2>3, <2>4 DEF Hardware
<1>7. On'
  BY <1>3 DEF On
<1>8. TimerOK' /\ TaskOK'
  BY <1>2, <1>4, <1>5, <1>6
  DEF TimerOK, TaskOK, TaskPlace, TaskStage, LowRead, TaskReads, AtRest
<1> QED
  BY <1>4, <1>6, <1>7, <1>8 DEF BusInv

(* Where temp_task goes with a command. *)
LEMMA CommandDoes ==
  ASSUME NEW c \in Commands, TempCommand(c)
  PROVE  \/ pc' = [pc EXCEPT !["task"] = "reset"] /\ todo' = todo
         \/ pc' = [pc EXCEPT !["task"] = "dead"] /\ todo' = todo
         \/ /\ pc' = [pc EXCEPT !["task"] = "read"]
            /\ todo' = [todo EXCEPT !["task"] = temp_i2c_read(1)]
            /\ c \in {TEMP_SHUTDOWN, TEMP_WAKEUP}
PROOF
<1> USE DEF TEMP_INIT, TEMP_PERIOD, TEMP_SHUTDOWN, TEMP_WAKEUP, TEMP_KILL, TEMP_REG_CTRL
<1>1. c \in {0, 1, 2, 3, 4}
  BY DEF Commands
<1>2. CASE c = 0
  BY <1>2 DEF TempCommand, Goto
<1>3. CASE c \in {2, 3}
  BY <1>3 DEF TempCommand, Goto, Call
<1>4. CASE c = 1
  BY <1>4 DEF TempCommand, Goto
<1>5. CASE c = 4
  BY <1>5 DEF TempCommand, Goto
<1> QED
  BY <1>1, <1>2, <1>3, <1>4, <1>5

(* A command, which is taken when the bus is free. *)
LEMMA CommandBus == ASSUME NEW c \in Commands PROVE BusInv /\ TempCommand(c) => BusInv'
PROOF
<1> SUFFICES ASSUME BusInv, TempCommand(c) PROVE BusInv'
  OBVIOUS
<1> USE DEF Users
<1>1. UserOK /\ Hardware /\ On /\ TimerOK /\ TaskOK
  BY DEF BusInv
<1>2. /\ pc["timer"] = "idle" /\ pc["task"] = "recv" /\ data' = data
      /\ UNCHANGED hardwareVars
  BY DEF TempCommand, MayRun
<1>3. todo["timer"] = <<>> /\ todo["task"] = <<>> /\ Free
  BY <1>1, <1>2
  DEF TimerOK, TimerReads, TaskOK, TaskStage, TaskReads, TaskWrites, AtRest
<1>4. \/ pc' = [pc EXCEPT !["task"] = "reset"] /\ todo' = todo
      \/ pc' = [pc EXCEPT !["task"] = "dead"] /\ todo' = todo
      \/ /\ pc' = [pc EXCEPT !["task"] = "read"]
         /\ todo' = [todo EXCEPT !["task"] = temp_i2c_read(1)]
  BY CommandDoes
<1>5. /\ UNCHANGED <<on, msa, mdr, wire, next, bus, pointer, count, latch, reg>>
      /\ Hardware' /\ Free'
  BY <1>1, <1>2, <1>3, HardwareSame DEF Free
<1>6. UserOK' /\ pc'["timer"] = "idle" /\ todo'["timer"] = <<>>
  BY <1>1, <1>2, <1>3, <1>4 DEF UserOK
<1>7. On' /\ TimerOK'
  BY <1>1, <1>2, <1>5, <1>6 DEF On, TimerOK
<1>8. CASE pc'["task"] \in {"reset", "dead"} /\ todo' = todo
  BY <1>3, <1>5, <1>6, <1>7, <1>8
  DEF BusInv, TaskOK, TaskPlace, TaskStage, LowRead, TaskReads, AtRest
<1>9. CASE pc'["task"] = "read" /\ todo'["task"] = temp_i2c_read(1)
  <2>1. temp_i2c_read(1) = Rest(temp_i2c_read(1), 1)
    BY ReadRoutine
  <2>2. TaskReads(1)'
    BY <1>9, <2>1 DEF TaskReads, TEMP_REG_CTRL
  <2>3. ReadStage(1)' /\ wire' = None
    BY <1>5 DEF ReadStage, Free
  <2>4. TaskStage' /\ TaskPlace'
    BY <2>2, <2>3 DEF TaskStage, TaskPlace
  <2>5. ~TaskReads(12)'
    <3>1. Rest(temp_i2c_read(1), 12) = <<>> /\ Rest(temp_i2c_read(1), 1) # <<>>
      BY ReadEnds
    <3> QED
      BY <1>9, <2>1, <3>1 DEF TaskReads, TEMP_REG_CTRL
  <2> QED
    BY <1>5, <1>6, <1>7, <2>4, <2>5 DEF BusInv, TaskOK, LowRead
<1> QED
  BY <1>1, <1>4, <1>8, <1>9 DEF UserOK

(* The byte that temp_i2c_write will begin with, whose argument is the low *)
(* byte of what was read.                                                  *)
LEMMA ModifiedFacts ==
  ASSUME NEW h \in Int, NEW l \in Int, l % 4 = 0, NEW w,
         w = SetBit(256 * h + l) \/ w = ClearBit(256 * h + l)
  PROVE  Low(w) \in Int /\ Low(w) % 4 = 0
PROOF
<1>1. w = 256 * h + l \/ w = 256 * h + l + 256 \/ w = 256 * h + l - 256
  BY DEF SetBit, ClearBit, TEMP_REG_CTRL_SD
<1>2. w \in Int /\ w % 4 = 0
  BY <1>1
<1>3. \A x \in Int : x % 4 = 0 => (x % 256) \in Int /\ (x % 256) % 4 = 0
  OBVIOUS
<1> QED
  BY <1>2, <1>3 DEF Low


(* What was read is changed, and begins to be written. *)
LEMMA ModifyBus == BusInv /\ TempModify => BusInv'
PROOF
<1> SUFFICES ASSUME BusInv, TempModify PROVE BusInv'
  OBVIOUS
<1> USE DEF Users
<1>1. UserOK /\ Hardware /\ On /\ TimerOK /\ TaskOK
  BY DEF BusInv
<1>2. /\ pc["timer"] = "idle" /\ pc["task"] = "read" /\ todo["task"] = <<>>
      /\ pc' = [pc EXCEPT !["task"] = "write"]
      /\ data' = data /\ UNCHANGED hardwareVars
  BY DEF TempModify, MayRun, Goto
<1>3. TaskReads(12) /\ ReadStage(12)
  <2>1. PICK n \in 1..12 : TaskReads(n) /\ ReadStage(n)
    BY <1>1, <1>2 DEF TaskOK, TaskStage, AtRest, TaskWrites
  <2>2. n = 12
    BY <1>2, <2>1, ReadEnds DEF TaskReads
  <2> QED
    BY <2>1, <2>2
<1>4. Free /\ data["task"].low % 4 = 0 /\ data["task"] \in [high : Int, low : Int]
  BY <1>1, <1>3 DEF ReadStage, TaskOK, LowRead, UserOK
<1> DEFINE w == IF rx = TEMP_SHUTDOWN THEN SetBit(Value("task")) ELSE ClearBit(Value("task"))
           b == Low(w)
<1>5. todo' = [todo EXCEPT !["task"] = temp_i2c_write(1, b)]
  BY DEF TempModify, Call, TEMP_REG_CTRL
<1>6. b \in Int /\ b % 4 = 0
  <2>1. w = SetBit(256 * data["task"].high + data["task"].low)
        \/ w = ClearBit(256 * data["task"].high + data["task"].low)
    BY DEF Value
  <2> HIDE DEF w
  <2> QED
    BY <1>4, <2>1, ModifiedFacts
<1> HIDE DEF b
<1>7. /\ UserOK' /\ pc'["task"] = "write" /\ pc'["timer"] = "idle"
      /\ todo'["timer"] = todo["timer"] /\ todo'["task"] = temp_i2c_write(1, b)
  BY <1>1, <1>2, <1>5 DEF UserOK
<1>8. /\ UNCHANGED <<on, msa, mdr, wire, next, bus, pointer, count, latch, reg>>
      /\ Hardware'
  BY <1>1, <1>2, HardwareSame
<1>9. On' /\ TimerOK'
  BY <1>1, <1>2, <1>7, <1>8 DEF On, TimerOK, TimerReads
<1>10. TaskWrites(1)'
  <2>1. temp_i2c_write(1, b) = Rest(temp_i2c_write(1, b), 1)
    BY WriteRoutine
  <2> QED
    BY <1>6, <1>7, <2>1 DEF TaskWrites, TEMP_REG_CTRL
<1>11. WriteStage(1)'
  BY <1>4, <1>8 DEF WriteStage, Free
<1>12. TaskStage' /\ TaskPlace' /\ LowRead'
  BY <1>7, <1>10, <1>11 DEF TaskStage, TaskPlace, LowRead, TaskReads
<1> QED
  BY <1>7, <1>8, <1>9, <1>12 DEF BusInv, TaskOK

(* It has been written. *)
LEMMA WrittenBus == BusInv /\ TempWritten => BusInv'
PROOF
<1> SUFFICES ASSUME BusInv, TempWritten PROVE BusInv'
  OBVIOUS
<1> USE DEF Users
<1>1. UserOK /\ Hardware /\ On /\ TimerOK /\ TaskOK
  BY DEF BusInv
<1>2. /\ pc["timer"] = "idle" /\ pc["task"] = "write" /\ todo["task"] = <<>>
      /\ pc' = [pc EXCEPT !["task"] = "recv"]
      /\ data' = data /\ todo' = todo /\ UNCHANGED hardwareVars
  BY DEF TempWritten, MayRun, Goto
<1>3. Free
  <2>1. PICK n \in 1..11 : TaskWrites(n) /\ WriteStage(n)
    BY <1>1, <1>2 DEF TaskOK, TaskStage, AtRest, TaskReads
  <2>2. n = 11
    BY <1>2, <2>1, WriteEnds DEF TaskWrites
  <2> QED
    BY <2>1, <2>2 DEF WriteStage
<1>4. UserOK' /\ pc'["task"] = "recv" /\ pc'["timer"] = "idle"
  BY <1>1, <1>2 DEF UserOK
<1>5. /\ UNCHANGED <<on, msa, mdr, wire, next, bus, pointer, count, latch, reg>>
      /\ Hardware' /\ Free'
  BY <1>1, <1>2, <1>3, HardwareSame DEF Free
<1>6. On' /\ TimerOK'
  BY <1>1, <1>2, <1>4, <1>5 DEF On, TimerOK, TimerReads
<1>7. TaskStage' /\ TaskPlace' /\ LowRead'
  BY <1>2, <1>4, <1>5 DEF TaskStage, TaskPlace, AtRest, LowRead, TaskReads
<1> QED
  BY <1>4, <1>5, <1>6, <1>7 DEF BusInv, TaskOK

(* The timer expires, wherever temp_task is. *)
LEMMA ExpiresBus == BusInv /\ TimerExpires => BusInv'
PROOF
<1> SUFFICES ASSUME BusInv, TimerExpires PROVE BusInv'
  OBVIOUS
<1> USE DEF Users
<1>1. UserOK /\ Hardware /\ On /\ TimerOK /\ TaskOK
  BY DEF BusInv
<1>2. /\ pc["timer"] = "idle" /\ pc' = [pc EXCEPT !["timer"] = "read"]
      /\ todo' = [todo EXCEPT !["timer"] = temp_i2c_read(0)]
      /\ data' = data /\ UNCHANGED hardwareVars
  BY DEF TimerExpires, Goto, Call, TEMP_REG_TEMP
<1>3. /\ UserOK' /\ pc'["timer"] = "read" /\ pc'["task"] = pc["task"]
      /\ todo'["task"] = todo["task"] /\ todo'["timer"] = temp_i2c_read(0)
  BY <1>1, <1>2 DEF UserOK
<1>4. UNCHANGED <<on, wire>> /\ Hardware'
  BY <1>1, <1>2, HardwareSame
<1>5. TimerReads(1)'
  <2>1. temp_i2c_read(0) = Rest(temp_i2c_read(0), 1)
    BY ReadRoutine
  <2> QED
    BY <1>3, <2>1 DEF TimerReads, TEMP_REG_TEMP
<1>6. TimerOK' /\ On'
  BY <1>1, <1>3, <1>4, <1>5 DEF TimerOK, ReadStage, On
<1>7. TaskPlace' /\ LowRead'
  BY <1>1, <1>2, <1>3 DEF TaskOK, TaskPlace, LowRead, TaskReads, TaskWrites, AtRest
<1> QED
  BY <1>3, <1>4, <1>6, <1>7 DEF BusInv, TaskOK

(* temp_read has ended: the bus is free, which is all that temp_task needs  *)
(* to go on from any of its steps.                                         *)
LEMMA ReadingBus == BusInv /\ temp_read => BusInv'
PROOF
<1> SUFFICES ASSUME BusInv, temp_read PROVE BusInv'
  OBVIOUS
<1> USE DEF Users
<1>1. UserOK /\ Hardware /\ On /\ TimerOK /\ TaskOK
  BY DEF BusInv
<1>2. /\ pc["timer"] = "read" /\ todo["timer"] = <<>> /\ pc' = [pc EXCEPT !["timer"] = "idle"]
      /\ todo' = todo /\ data' = data /\ UNCHANGED hardwareVars
  BY DEF temp_read, Goto
<1>3. Free /\ Good /\ (on => msa = "receive")
  <2>1. PICK n \in 1..12 : TimerReads(n) /\ ReadStage(n)
    BY <1>1, <1>2 DEF TimerOK
  <2>2. n = 12
    BY <1>2, <2>1, ReadEnds DEF TimerReads
  <2> QED
    BY <2>1, <2>2 DEF ReadStage
<1>4. UserOK' /\ pc'["timer"] = "idle" /\ pc'["task"] = pc["task"]
  BY <1>1, <1>2 DEF UserOK
<1>5. /\ UNCHANGED <<on, msa, mdr, wire, next, bus, pointer, count, latch, reg>>
      /\ Hardware' /\ Free' /\ Good'
  BY <1>1, <1>2, <1>3, HardwareSame DEF Free, Good
<1>6. On' /\ TimerOK'
  BY <1>1, <1>2, <1>4, <1>5 DEF On, TimerOK
<1>7. TaskPlace' /\ LowRead'
  BY <1>1, <1>2, <1>4 DEF TaskOK, TaskPlace, LowRead, TaskReads, TaskWrites, AtRest
<1>8. wire' = None /\ (\A n \in 1..12 : ReadStage(n)') /\ (\A n \in 1..11 : WriteStage(n)')
  BY <1>3, <1>5
  DEF ReadStage, WriteStage, Opening, Opened, Closing, Ending, Free
<1>9. TaskStage'
  BY <1>5, <1>7, <1>8 DEF TaskPlace, TaskStage
<1> QED
  BY <1>4, <1>5, <1>6, <1>7, <1>9 DEF BusInv, TaskOK

(* A byte goes over the wire. *)
LEMMA TransferBus == BusInv /\ Transfer /\ UNCHANGED userVars => BusInv'
PROOF
<1> SUFFICES ASSUME BusInv, Transfer, UNCHANGED userVars PROVE BusInv'
  OBVIOUS
<1> USE DEF Users
<1>1. UserOK /\ Hardware /\ On /\ TimerOK /\ TaskOK
  BY DEF BusInv
<1>2. pc' = pc /\ todo' = todo /\ data' = data
  BY DEF userVars
<1>3. Hardware' /\ wire # None /\ ~Free /\ on' = on
  BY <1>1, TransferKeeps, TransferDoes DEF Free
<1>4. /\ \A n \in 1..12 : ReadStage(n) => ReadStage(n)'
      /\ \A n \in 1..11 : WriteStage(n) => WriteStage(n)'
  BY <1>1, TransferStages
<1>5. UserOK' /\ On' /\ TaskPlace' /\ LowRead'
  BY <1>1, <1>2, <1>3
  DEF UserOK, On, TaskOK, TaskPlace, LowRead, TaskReads, TaskWrites, AtRest
<1>6. TimerOK'
  BY <1>1, <1>2, <1>4 DEF TimerOK, TimerReads
<1>7. TaskStage => TaskStage'
  <2>1. ASSUME NEW n \in 1..12, TaskReads(n), ReadStage(n), n <= 3 => wire = None
        PROVE  TaskReads(n)' /\ ReadStage(n)' /\ ~(n <= 3)
    BY <1>2, <1>3, <1>4, <2>1 DEF TaskReads
  <2>2. ASSUME NEW n \in 1..11, TaskWrites(n), WriteStage(n)
        PROVE  TaskWrites(n)' /\ WriteStage(n)'
    BY <1>2, <1>4, <2>2 DEF TaskWrites
  <2> QED
    BY <1>3, <2>1, <2>2 DEF TaskStage
<1> QED
  BY <1>1, <1>2, <1>3, <1>5, <1>6, <1>7 DEF BusInv, TaskOK

(* The sensor measures. *)
LEMMA ConvertBus ==
  ASSUME NEW t \in Temps PROVE BusInv /\ Convert(t) /\ UNCHANGED userVars => BusInv'
PROOF
<1> SUFFICES ASSUME BusInv, Convert(t), UNCHANGED userVars PROVE BusInv'
  OBVIOUS
<1>1. UserOK /\ Hardware /\ On /\ TimerOK /\ TaskOK
  BY DEF BusInv
<1>2. /\ pc' = pc /\ todo' = todo /\ data' = data
      /\ UNCHANGED <<on, msa, mdr, wire, next, bus, pointer, count, latch>>
  BY DEF userVars, Convert, masterVars, sensorVars
<1>3. reg' = [reg EXCEPT ![0] = t]
  BY SMTT(30) DEF Convert
<1>4. t \in Int /\ t % 16 = 0
  <2>1. t \in Word /\ t % 16 = 0
    BY TempsAssumption
  <2> QED
    BY <2>1 DEF Word
<1>5. Kept'
  BY <1>1, <1>3, <1>4 DEF Hardware, Kept
<1>6. Typed' = Typed /\ Harmless' = Harmless /\ Off' = Off /\ On' = On /\ Free' = Free
  BY <1>2 DEF Typed, Harmless, Off, On, Free
<1>7. \A n : ReadStage(n)' = ReadStage(n) /\ WriteStage(n)' = WriteStage(n)
  BY <1>2 DEF ReadStage, WriteStage, Opening, Opened, Closing, Ending, Free, Good
<1>8. UserOK' /\ TaskPlace' = TaskPlace /\ LowRead' = LowRead
  BY <1>1, <1>2 DEF UserOK, TaskPlace, LowRead, TaskReads, TaskWrites, AtRest
<1>9. TimerOK' = TimerOK
  BY <1>2, <1>7 DEF TimerOK, TimerReads
<1>10. TaskStage' = TaskStage
  BY <1>2, <1>6, <1>7 DEF TaskStage, TaskReads, TaskWrites, AtRest
<1> QED
  BY <1>1, <1>2, <1>5, <1>6, <1>8, <1>9, <1>10 DEF BusInv, Hardware, TaskOK

(* Every step keeps the invariant of the bus. *)
LEMMA NextBus == BusInv /\ [Next]_vars => BusInv'
PROOF
<1> SUFFICES ASSUME BusInv, [Next]_vars PROVE BusInv'
  OBVIOUS
<1>1. CASE UNCHANGED vars
  <2>1. UNCHANGED <<on, msa, mdr, wire, next, bus, pointer, count, latch, reg, pc, todo, data>>
    BY <1>1 DEF vars, userVars, hardwareVars, masterVars, sensorVars
  <2>2. Hardware' = Hardware /\ On' = On /\ Free' = Free
    BY <2>1 DEF Hardware, Typed, Kept, Harmless, Off, On, Free
  <2>3. \A n : ReadStage(n)' = ReadStage(n) /\ WriteStage(n)' = WriteStage(n)
    BY <2>1 DEF ReadStage, WriteStage, Opening, Opened, Closing, Ending, Free, Good
  <2>4. UserOK' = UserOK /\ TaskPlace' = TaskPlace /\ LowRead' = LowRead
    BY <2>1 DEF UserOK, TaskPlace, LowRead, TaskReads, TaskWrites, AtRest
  <2>5. TimerOK' = TimerOK /\ TaskStage' = TaskStage
    BY <2>1, <2>2, <2>3 DEF TimerOK, TimerReads, TaskStage, TaskReads, TaskWrites, AtRest
  <2> QED
    BY <2>1, <2>2, <2>4, <2>5 DEF BusInv, TaskOK
<1>2. CASE TaskNext
  BY <1>2, TaskStepBus, ResetBus, EnableBus, ModifyBus, WrittenBus, CommandBus
  DEF TaskNext, TaskGoesOn
<1>3. CASE TimerNext
  BY <1>3, TimerStepBus, ReadingBus DEF TimerNext
<1>4. CASE TimerExpires
  BY <1>4, ExpiresBus
<1>5. CASE HardwareNext
  BY <1>5, TransferBus, ConvertBus DEF HardwareNext
<1> QED
  BY <1>1, <1>2, <1>3, <1>4, <1>5 DEF Next

(* BusFree: when neither temp_task nor temp_read is in a routine, the bus  *)
(* is free and no command is pending, however the two were interleaved.    *)
THEOREM BusFreeCorrect == Spec => []BusFree
PROOF
<1>1. BusInv => BusFree
  BY DEF BusInv, TaskOK, TaskStage, TaskReads, TaskWrites, AtRest, Free, BusFree, I2CMasterBusy
<1> QED
  BY <1>1, InitBus, NextBus, PTL DEF Spec

(* ConfigKept: no step writes to the sensor's configuration or to its      *)
(* limits, not even temp_i2c_write, which is given its arguments in the    *)
(* wrong order.                                                            *)
THEOREM ConfigCorrect == Spec => ConfigKept
PROOF
<1>1. BusInv /\ BusInv' => \A r \in 1..3 : reg'[r] = reg[r]
  BY DEF BusInv, Hardware, Kept
<1>2. BusInv /\ BusInv' => [\A r \in 1..3 : reg'[r] = reg[r]]_vars
  BY <1>1
<1> QED
  BY <1>2, InitBus, NextBus, PTL DEF Spec, ConfigKept

-----------------------------------------------------------------------------
(* What is read. *)

(* The register of a user is a register. *)
LEMMA RegisterFacts ==
  ASSUME NEW u \in Users
  PROVE  Register(u) \in {0, 1} /\ Register(u) % 4 = Register(u)
PROOF
  BY DEF Register, TEMP_REG_TEMP, TEMP_REG_CTRL

(* A word is its two bytes. *)
LEMMA WordFacts == \A x \in Int : 256 * High(x) + Low(x) = x /\ High(x) \in Int /\ Low(x) \in Int
PROOF
  BY DEF High, Low

(* A step of temp_i2c_read, of a user that is not interrupted. *)
LEMMA ExactAdvances ==
  ASSUME UserOK, Hardware, NEW u \in Users, NEW n \in 1..12,
         todo[u] = Rest(temp_i2c_read(Register(u)), n), ExactStage(u, n), I2cStep(u)
  PROVE  /\ n \in 1..11
         /\ todo' = [todo EXCEPT ![u] = Rest(temp_i2c_read(Register(u)), n + 1)]
         /\ UNCHANGED <<pc, said, recent, clash, torn, reg>> /\ MayRun(u)
         /\ ExactStage(u, n + 1)'
PROOF
<1>1. n \in 1..11 /\ n \in {1, 2, 3, 4, 5, 6, 7, 8, 9, 10, 11}
  <2>1. todo[u] # <<>>
    BY StepDoes
  <2>2. n # 12
    BY <2>1, ReadEnds
  <2> QED
    BY <2>2
<1>2. /\ todo' = [todo EXCEPT ![u] = Rest(temp_i2c_read(Register(u)), n + 1)] /\ MayRun(u)
      /\ UNCHANGED <<pc, rx, started, said, recent, clash, torn>>
  <2>1. Tail(todo[u]) = Rest(temp_i2c_read(Register(u)), n + 1)
    BY <1>1, ReadRoutine
  <2>2. /\ todo' = [todo EXCEPT ![u] = Tail(todo[u])] /\ MayRun(u)
        /\ UNCHANGED <<pc, rx, started, said, recent, clash, torn>>
    BY StepDoes
  <2> QED
    BY <2>1, <2>2
<1>3. Truth(u)' = Truth(u) /\ Register(u)' = Register(u)
  BY <1>2 DEF Truth, Register
<1>4. on /\ next = None
  BY DEF ExactStage
<1>5. data \in [Users -> [high : Int, low : Int]]
  BY DEF UserOK
<1>6. CASE n = 1
  <2>1. Head(todo[u]) = Addr("send")
    <3>1. Head(Rest(temp_i2c_read(Register(u)), 1)) = Addr("send")
      BY ReadRoutine
    <3> QED
      BY <1>6, <3>1
  <2>2. I2CMasterSlaveAddrSet("send") /\ data' = data
    BY <2>1, AddrStep
  <2>3. /\ UNCHANGED <<on, mdr, wire, next, bus, pointer, count, latch, reg>>
        /\ msa' = "send"
    BY <1>4, <2>2 DEF I2CMasterSlaveAddrSet, sensorVars
  <2>8. ExactStage(u, n + 1)'
    BY <1>3, <1>4, <1>6, <2>2, <2>3 DEF ExactStage
  <2> QED
    BY <1>1, <1>2, <2>3, <2>8
<1>7. CASE n = 2
  <2>1. Head(todo[u]) = Put(Register(u))
    <3>1. Head(Rest(temp_i2c_read(Register(u)), 2)) = Put(Register(u))
      BY ReadRoutine
    <3> QED
      BY <1>7, <3>1
  <2>2. I2CMasterDataPut(Register(u)) /\ data' = data
    BY <2>1, PutStep
  <2>3. /\ UNCHANGED <<on, msa, wire, next, bus, pointer, count, latch, reg>>
        /\ mdr' = Register(u)
    BY <1>4, <2>2 DEF I2CMasterDataPut, sensorVars
  <2>8. ExactStage(u, n + 1)'
    BY <1>3, <1>4, <1>7, <2>2, <2>3 DEF ExactStage
  <2> QED
    BY <1>1, <1>2, <2>3, <2>8
<1>8. CASE n = 3
  <2>1. Head(todo[u]) = Control(TRUE, TRUE)
    <3>1. Head(Rest(temp_i2c_read(Register(u)), 3)) = Control(TRUE, TRUE)
      BY ReadRoutine
    <3> QED
      BY <1>8, <3>1
  <2>2. I2CMasterControl(Mask(TRUE, TRUE)) /\ data' = data
    BY <2>1, ControlStep
  <2>4. wire = None
    BY <1>8 DEF ExactStage
  <2>3. /\ UNCHANGED <<on, msa, mdr, bus, pointer, count, latch, reg>> /\ next' = None
        /\ wire' # None /\ wire'.mask = Mask(TRUE, TRUE) /\ wire'.byte = mdr
        /\ wire'.direction = msa
    BY <1>4, <2>2, <2>4, ControlDoes
  <2>8. ExactStage(u, n + 1)'
    BY <1>3, <1>4, <1>8, <2>2, <2>3, <2>4 DEF ExactStage
  <2> QED
    BY <1>1, <1>2, <2>3, <2>8
<1>9. CASE n = 4
  <2>1. Head(todo[u]) = Wait
    <3>1. Head(Rest(temp_i2c_read(Register(u)), 4)) = Wait
      BY ReadRoutine
    <3> QED
      BY <1>9, <3>1
  <2>2. wire = None /\ UNCHANGED hardwareVars /\ data' = data
    BY <2>1, WaitStep
  <2>3. UNCHANGED <<on, msa, mdr, wire, next, bus, pointer, count, latch, reg>>
    BY <2>2, HardwareSame
  <2>8. ExactStage(u, n + 1)'
    BY <1>3, <1>4, <1>9, <2>2, <2>3 DEF ExactStage
  <2> QED
    BY <1>1, <1>2, <2>3, <2>8
<1>10. CASE n = 5
  <2>1. Head(todo[u]) = Addr("receive")
    <3>1. Head(Rest(temp_i2c_read(Register(u)), 5)) = Addr("receive")
      BY ReadRoutine
    <3> QED
      BY <1>10, <3>1
  <2>2. I2CMasterSlaveAddrSet("receive") /\ data' = data
    BY <2>1, AddrStep
  <2>3. /\ UNCHANGED <<on, mdr, wire, next, bus, pointer, count, latch, reg>>
        /\ msa' = "receive"
    BY <1>4, <2>2 DEF I2CMasterSlaveAddrSet, sensorVars
  <2>8. ExactStage(u, n + 1)'
    BY <1>3, <1>4, <1>10, <2>2, <2>3 DEF ExactStage
  <2> QED
    BY <1>1, <1>2, <2>3, <2>8
<1>11. CASE n = 6
  <2>1. Head(todo[u]) = Control(TRUE, FALSE)
    <3>1. Head(Rest(temp_i2c_read(Register(u)), 6)) = Control(TRUE, FALSE)
      BY ReadRoutine
    <3> QED
      BY <1>11, <3>1
  <2>2. I2CMasterControl(Mask(TRUE, FALSE)) /\ data' = data
    BY <2>1, ControlStep
  <2>4. wire = None
    BY <1>11 DEF ExactStage
  <2>3. /\ UNCHANGED <<on, msa, mdr, bus, pointer, count, latch, reg>> /\ next' = None
        /\ wire' # None /\ wire'.mask = Mask(TRUE, FALSE) /\ wire'.byte = mdr
        /\ wire'.direction = msa
    BY <1>4, <2>2, <2>4, ControlDoes
  <2>8. ExactStage(u, n + 1)'
    BY <1>3, <1>4, <1>11, <2>2, <2>3, <2>4 DEF ExactStage
  <2> QED
    BY <1>1, <1>2, <2>3, <2>8
<1>12. CASE n = 7
  <2>1. Head(todo[u]) = Wait
    <3>1. Head(Rest(temp_i2c_read(Register(u)), 7)) = Wait
      BY ReadRoutine
    <3> QED
      BY <1>12, <3>1
  <2>2. wire = None /\ UNCHANGED hardwareVars /\ data' = data
    BY <2>1, WaitStep
  <2>3. UNCHANGED <<on, msa, mdr, wire, next, bus, pointer, count, latch, reg>>
    BY <2>2, HardwareSame
  <2>8. ExactStage(u, n + 1)'
    BY <1>3, <1>4, <1>12, <2>2, <2>3 DEF ExactStage, Have, High, Low
  <2> QED
    BY <1>1, <1>2, <2>3, <2>8
<1>13. CASE n = 8
  <2>1. Head(todo[u]) = Get("high")
    <3>1. Head(Rest(temp_i2c_read(Register(u)), 8)) = Get("high")
      BY ReadRoutine
    <3> QED
      BY <1>13, <3>1
  <2>2. UNCHANGED hardwareVars /\ data' = [data EXCEPT ![u]["high"] = I2CMasterDataGet]
    BY <2>1, GetStep
  <2>4. UNCHANGED <<on, msa, mdr, wire, next, bus, pointer, count, latch, reg>>
    BY <2>2, HardwareSame
  <2>3. data'[u].high = mdr
    BY <1>4, <1>5, <2>2 DEF I2CMasterDataGet
  <2>8. ExactStage(u, n + 1)'
    BY <1>3, <1>4, <1>13, <2>3, <2>4 DEF ExactStage, Have, High
  <2> QED
    BY <1>1, <1>2, <2>4, <2>8
<1>14. CASE n = 9
  <2>1. Head(todo[u]) = Control(FALSE, TRUE)
    <3>1. Head(Rest(temp_i2c_read(Register(u)), 9)) = Control(FALSE, TRUE)
      BY ReadRoutine
    <3> QED
      BY <1>14, <3>1
  <2>2. I2CMasterControl(Mask(FALSE, TRUE)) /\ data' = data
    BY <2>1, ControlStep
  <2>4. wire = None /\ bus = "receive"
    BY <1>14 DEF ExactStage, Have
  <2>3. /\ UNCHANGED <<on, msa, mdr, bus, pointer, count, latch, reg>> /\ next' = None
        /\ wire' # None /\ wire'.mask = Mask(FALSE, TRUE) /\ wire'.byte = mdr
        /\ wire'.direction = bus
    BY <1>4, <2>2, <2>4, ControlDoes
  <2>5. latch' \in Truth(u)' /\ data'[u].high = High(latch') /\ count' = 1
    BY <1>3, <1>14, <2>2, <2>3 DEF ExactStage, Have, High
  <2>8. ExactStage(u, n + 1)'
    BY <1>4, <1>14, <2>3, <2>4, <2>5 DEF ExactStage
  <2> QED
    BY <1>1, <1>2, <2>3, <2>8
<1>15. CASE n = 10
  <2>1. Head(todo[u]) = Wait
    <3>1. Head(Rest(temp_i2c_read(Register(u)), 10)) = Wait
      BY ReadRoutine
    <3> QED
      BY <1>15, <3>1
  <2>2. wire = None /\ UNCHANGED hardwareVars /\ data' = data
    BY <2>1, WaitStep
  <2>3. UNCHANGED <<on, msa, mdr, wire, next, bus, pointer, count, latch, reg>>
    BY <2>2, HardwareSame
  <2>8. ExactStage(u, n + 1)'
    BY <1>3, <1>4, <1>15, <2>2, <2>3 DEF ExactStage, Have, High, Low
  <2> QED
    BY <1>1, <1>2, <2>3, <2>8
<1>16. CASE n = 11
  <2>1. Head(todo[u]) = Get("low")
    <3>1. Head(Rest(temp_i2c_read(Register(u)), 11)) = Get("low")
      BY ReadRoutine
    <3> QED
      BY <1>16, <3>1
  <2>2. UNCHANGED hardwareVars /\ data' = [data EXCEPT ![u]["low"] = I2CMasterDataGet]
    BY <2>1, GetStep
  <2>4. UNCHANGED <<on, msa, mdr, wire, next, bus, pointer, count, latch, reg>>
    BY <2>2, HardwareSame
  <2>3. data'[u].low = mdr /\ data'[u].high = data[u].high
    BY <1>4, <1>5, <2>2 DEF I2CMasterDataGet
  <2>5. latch \in Int /\ latch \in Truth(u) /\ data[u].high = High(latch) /\ mdr = Low(latch)
    BY <1>16 DEF ExactStage, Hardware, Typed
  <2>6. Value(u)' = 256 * High(latch) + Low(latch)
    BY <2>3, <2>5 DEF Value
  <2>7. Value(u)' \in Truth(u)'
    BY <1>3, <2>5, <2>6, WordFacts
  <2>8. ExactStage(u, n + 1)'
    BY <1>4, <1>16, <2>4, <2>7 DEF ExactStage
  <2> QED
    BY <1>1, <1>2, <2>4, <2>8
<1> QED
  BY <1>1, <1>6, <1>7, <1>8, <1>9, <1>10, <1>11, <1>12, <1>13, <1>14, <1>15, <1>16

(* A byte goes over the wire for a user that is not interrupted: it is one *)
(* of the word the sensor holds.                                           *)
LEMMA TransferExact ==
  ASSUME Hardware, Transfer, UNCHANGED <<data, recent>>, NEW u \in Users, NEW n \in 1..12,
         reg[Register(u)] \in Truth(u), ExactStage(u, n)
  PROVE  ExactStage(u, n)'
PROOF
<1>1. /\ wire # None /\ next = None /\ next' = None /\ wire' = None /\ on /\ on' = on
      /\ msa' = msa /\ reg' = reg
      /\ bus' = (IF wire.mask.stop THEN "idle" ELSE wire.direction)
  BY TransferDoes DEF ExactStage
<1>2. Truth(u)' = Truth(u) /\ Register(u)' = Register(u) /\ data' = data
  BY DEF Truth, Register
<1>3. n \in {4, 7, 10}
  BY <1>1 DEF ExactStage, Have
<1>4. CASE n = 4
  <2>1. /\ wire.mask = Mask(TRUE, TRUE) /\ wire.direction = "send"
        /\ wire.byte = Register(u)
    BY <1>1, <1>4 DEF ExactStage
  <2>2. wire.mask.start
    BY <2>1, CommandFacts
  <2>3. pointer' = Register(u)
    BY <2>1, <2>2, TransferDoes, RegisterFacts
  <2> QED
    BY <1>1, <1>2, <1>4, <2>3 DEF ExactStage
<1>5. CASE n = 7
  <2>1. /\ wire.mask = Mask(TRUE, FALSE) /\ wire.direction = "receive"
        /\ pointer = Register(u)
    BY <1>1, <1>5 DEF ExactStage, Have
  <2>2. wire.mask.start /\ ~wire.mask.stop
    BY <2>1, CommandFacts
  <2>3. count' = 1 /\ latch' = reg[Register(u)] /\ mdr' = High(latch')
    BY <2>1, <2>2, TransferDoes
  <2>4. Have(u)'
    BY <1>1, <1>2, <2>1, <2>2, <2>3 DEF Have, High
  <2> QED
    BY <1>1, <1>5, <2>4 DEF ExactStage
<1>6. CASE n = 10
  <2>1. /\ wire.mask = Mask(FALSE, TRUE) /\ wire.direction = "receive" /\ count = 1
        /\ latch \in Truth(u) /\ data[u].high = High(latch)
    BY <1>1, <1>6 DEF ExactStage
  <2>2. ~wire.mask.start
    BY <2>1, CommandFacts
  <2>3. latch' = latch /\ mdr' = Low(latch)
    BY <2>1, <2>2, TransferDoes
  <2> QED
    BY <1>1, <1>2, <1>6, <2>1, <2>3 DEF ExactStage, High, Low
<1> QED
  BY <1>3, <1>4, <1>5, <1>6

(* A temperature is measured meanwhile. *)
LEMMA ConvertExact ==
  ASSUME UNCHANGED <<masterVars, sensorVars, data>>, NEW u \in Users, NEW n \in 1..12,
         Truth(u) \subseteq Truth(u)', ExactStage(u, n)
  PROVE  ExactStage(u, n)'
PROOF
<1>1. UNCHANGED <<on, msa, mdr, wire, next, bus, pointer, count, latch, data>>
  BY DEF masterVars, sensorVars
<1>2. Register(u)' = Register(u) /\ Value(u)' = Value(u)
  BY <1>1 DEF Register, Value
<1>3. Have(u) => Have(u)'
  BY <1>1 DEF Have, High
<1>4. High(latch)' = High(latch) /\ Low(latch)' = Low(latch)
  BY <1>1 DEF High, Low
<1>5. \A x : x \in Truth(u) => x \in Truth(u)'
  OBVIOUS
<1> QED
  BY <1>1, <1>2, <1>3, <1>4, <1>5 DEF ExactStage

(* What temp_read reads, where it did not begin amid a command: one lemma   *)
(* for all actions.                                                        *)
LEMMA NextReading == BusInv /\ ReadingInv /\ [Next]_vars => ReadingInv'
PROOF
<1> SUFFICES ASSUME BusInv, ReadingInv, [Next]_vars, pc'["timer"] = "read", ~clash'
             PROVE  /\ (reg[TEMP_REG_TEMP] \in recent)'
                    /\ \E n \in 1..12 : TimerReads(n)' /\ ExactStage("timer", n)'
  BY DEF ReadingInv
<1> USE DEF Users
<1>1. UserOK /\ Hardware /\ Hardware' /\ UserOK'
  BY NextBus DEF BusInv
<1>2. CASE UNCHANGED vars
  <2>1. /\ UNCHANGED <<pc, todo, data, clash, recent, reg, masterVars, sensorVars>>
        /\ Truth("timer")' = Truth("timer")
    BY <1>2 DEF vars, userVars, hardwareVars, histVars, Truth
  <2>2. reg[0] \in recent /\ \E n \in 1..12 : TimerReads(n) /\ ExactStage("timer", n)
    BY <2>1 DEF ReadingInv, TEMP_REG_TEMP
  <2> QED
    BY <2>1, <2>2, ConvertExact DEF TimerReads, TEMP_REG_TEMP
<1>3. CASE TaskNext
  <2>1. MayRun("task")
    BY <1>3, StepDoes
    DEF TaskNext, TaskGoesOn, TempReset, TempEnable, TempCommand, TempModify, TempWritten
  <2>2. pc["timer"] = "idle"
    BY <2>1 DEF MayRun
  <2>3. pc'["timer"] = pc["timer"]
    <3>1. pc' = pc \/ \E l : pc' = [pc EXCEPT !["task"] = l]
      <4>1. CASE I2cStep("task")
        BY <4>1, StepDoes
      <4>2. CASE TempReset \/ TempEnable \/ TempModify \/ TempWritten
        BY <4>2 DEF TempReset, TempEnable, TempModify, TempWritten, Goto
      <4>3. ASSUME NEW c \in Commands, TempCommand(c) PROVE \E l : pc' = [pc EXCEPT !["task"] = l]
        BY <4>3, CommandDoes
      <4> QED
        BY <1>3, <4>1, <4>2, <4>3 DEF TaskNext, TaskGoesOn
    <3> QED
      BY <1>1, <3>1 DEF UserOK
  <2> QED
    BY <2>2, <2>3
<1>4. CASE I2cStep("timer")
  <2>1. pc' = pc /\ clash' = clash
    BY <1>4, StepDoes
  <2>2. PICK n \in 1..12 : TimerReads(n) /\ ExactStage("timer", n)
    BY <2>1 DEF ReadingInv
  <2>3. todo["timer"] = Rest(temp_i2c_read(Register("timer")), n) /\ Register("timer") = 0
    BY <2>2 DEF TimerReads, Register, TEMP_REG_TEMP
  <2>4. /\ n \in 1..11
        /\ todo' = [todo EXCEPT !["timer"] = Rest(temp_i2c_read(Register("timer")), n + 1)]
        /\ UNCHANGED <<recent, reg>> /\ ExactStage("timer", n + 1)'
    BY <1>1, <1>4, <2>2, <2>3, ExactAdvances
  <2>5. todo'["timer"] = Rest(temp_i2c_read(0), n + 1)
    BY <1>1, <2>3, <2>4 DEF UserOK
  <2>6. TimerReads(n + 1)' /\ n + 1 \in 1..12
    BY <2>4, <2>5 DEF TimerReads, TEMP_REG_TEMP
  <2>7. reg[0] \in recent
    BY <2>1 DEF ReadingInv, TEMP_REG_TEMP
  <2> QED
    BY <2>4, <2>6, <2>7 DEF TEMP_REG_TEMP
<1>5. CASE temp_read
  BY <1>1, <1>5 DEF temp_read, Goto, UserOK
<1>6. CASE TimerExpires
  <2>1. /\ recent' = {reg[0]} /\ clash' = (I2CMasterBusy \/ ~on)
        /\ UNCHANGED hardwareVars /\ todo' = [todo EXCEPT !["timer"] = temp_i2c_read(0)]
    BY <1>6 DEF TimerExpires, Call, TEMP_REG_TEMP
  <2>2. wire = None /\ on
    BY <2>1 DEF I2CMasterBusy
  <2>3. UNCHANGED <<on, msa, mdr, wire, next, bus, pointer, count, latch, reg>>
    BY <2>1, HardwareSame
  <2>4. wire' = None /\ on' /\ next' = None
    BY <1>1, <2>2, <2>3 DEF Hardware, Off
  <2>5. ExactStage("timer", 1)'
    BY <2>4 DEF ExactStage
  <2>6. TimerReads(1)'
    <3>1. temp_i2c_read(0) = Rest(temp_i2c_read(0), 1)
      BY ReadRoutine
    <3>2. todo'["timer"] = temp_i2c_read(0)
      BY <1>1, <2>1 DEF UserOK
    <3> QED
      BY <3>1, <3>2 DEF TimerReads, TEMP_REG_TEMP
  <2> QED
    BY <2>1, <2>3, <2>5, <2>6 DEF TEMP_REG_TEMP
<1>7. CASE HardwareNext
  <2>1. pc' = pc /\ todo' = todo /\ data' = data /\ clash' = clash
    BY <1>7 DEF HardwareNext, userVars
  <2>2. reg[0] \in recent /\ \E n \in 1..12 : TimerReads(n) /\ ExactStage("timer", n)
    BY <2>1 DEF ReadingInv, TEMP_REG_TEMP
  <2>3. PICK n \in 1..12 : TimerReads(n) /\ ExactStage("timer", n)
    BY <2>2
  <2>4. TimerReads(n)'
    BY <2>1, <2>3 DEF TimerReads
  <2>5. CASE Transfer /\ recent' = recent
    <3>1. reg[Register("timer")] \in Truth("timer")
      BY <2>2 DEF Register, Truth, TEMP_REG_TEMP
    <3>2. ExactStage("timer", n)'
      BY <1>1, <2>1, <2>3, <2>5, <3>1, TransferExact
    <3>3. reg' = reg
      BY <1>1, <2>5, TransferDoes
    <3> QED
      BY <2>2, <2>4, <2>5, <3>2, <3>3 DEF TEMP_REG_TEMP
  <2>6. CASE \E t \in Temps : Convert(t) /\ recent' = recent \cup {t}
    <3>1. PICK t \in Temps : Convert(t) /\ recent' = recent \cup {t}
      BY <2>6
    <3>2. UNCHANGED <<masterVars, sensorVars>> /\ reg' = [reg EXCEPT ![0] = t]
      BY <3>1 DEF Convert
    <3>3. Truth("timer") \subseteq Truth("timer")'
      BY <3>1 DEF Truth
    <3>4. ExactStage("timer", n)'
      BY <2>1, <2>3, <3>2, <3>3, ConvertExact
    <3>5. reg'[0] \in recent'
      BY <1>1, <3>1, <3>2 DEF Hardware, Kept
    <3> QED
      BY <2>4, <3>4, <3>5 DEF TEMP_REG_TEMP
  <2> QED
    BY <1>7, <2>5, <2>6 DEF HardwareNext
<1> QED
  BY <1>2, <1>3, <1>4, <1>5, <1>6, <1>7 DEF Next, TimerNext


(* temp_task leaves the timer and the histories of temp_read alone, and    *)
(* runs when the timer does not.                                           *)
LEMMA TaskLeavesTimer ==
  ASSUME UserOK, TaskNext
  PROVE  /\ pc["timer"] = "idle" /\ pc'["timer"] = "idle"
         /\ said' = said /\ recent' = recent /\ clash' = clash
PROOF
<1>1. CASE I2cStep("task")
  BY <1>1, StepDoes DEF MayRun, Users
<1>2. CASE TempReset \/ TempEnable \/ TempModify \/ TempWritten
  BY <1>2 DEF TempReset, TempEnable, TempModify, TempWritten, Goto, MayRun, histVars,
              UserOK, Users
<1>3. ASSUME NEW c \in Commands, TempCommand(c)
      PROVE  /\ pc["timer"] = "idle" /\ pc'["timer"] = "idle"
             /\ said' = said /\ recent' = recent /\ clash' = clash
  <2>1. pc["timer"] = "idle" /\ said' = said /\ recent' = recent /\ clash' = clash
    BY <1>3 DEF TempCommand, MayRun
  <2> QED
    BY <1>3, <2>1, CommandDoes DEF UserOK, Users
<1> QED
  BY <1>1, <1>2, <1>3 DEF TaskNext, TaskGoesOn

(* What temp_read has sent, by the same token. *)
LEMMA NextSaid == BusInv /\ ReadingInv /\ ReadingTrue /\ [Next]_vars => ReadingTrue'
PROOF
<1> SUFFICES ASSUME BusInv, ReadingInv, ReadingTrue, [Next]_vars PROVE ReadingTrue'
  OBVIOUS
<1> USE DEF Users
<1>1. UserOK
  BY DEF BusInv
<1>2. CASE /\ pc'["timer"] = pc["timer"] /\ said' = said /\ clash' = clash
           /\ recent \subseteq recent'
  BY <1>2 DEF ReadingTrue
<1>3. CASE TimerExpires
  <2>1. pc'["timer"] = "read"
    BY <1>1, <1>3 DEF TimerExpires, Goto, UserOK
  <2> QED
    BY <2>1 DEF ReadingTrue
<1>4. CASE temp_read
  <2>1. /\ pc["timer"] = "read" /\ todo["timer"] = <<>>
        /\ said' = [line |-> Line(Value("timer")), sentence |-> Sentence(Value("timer"))]
        /\ clash' = clash /\ recent' = recent
    BY <1>4 DEF temp_read
  <2>2. ~clash => Value("timer") \in recent
    <3> SUFFICES ASSUME ~clash PROVE Value("timer") \in recent
      OBVIOUS
    <3>1. PICK n \in 1..12 : TimerReads(n) /\ ExactStage("timer", n)
      BY <2>1 DEF ReadingInv
    <3>2. n = 12
      BY <2>1, <3>1, ReadEnds DEF TimerReads
    <3> QED
      BY <3>1, <3>2 DEF ExactStage, Truth
  <2> DEFINE v == Value("timer")
  <2>3. /\ said' = [line |-> Line(v), sentence |-> Sentence(v)]
        /\ ~clash' => v \in recent'
    BY <2>1, <2>2
  <2> HIDE DEF v
  <2> QED
    BY <2>3 DEF ReadingTrue
<1>5. CASE UNCHANGED vars
  BY <1>2, <1>5 DEF vars, userVars, histVars
<1>6. CASE TaskNext
  BY <1>1, <1>2, <1>6, TaskLeavesTimer
<1>7. CASE I2cStep("timer")
  BY <1>2, <1>7, StepDoes
<1>8. CASE HardwareNext
  BY <1>2, <1>8 DEF HardwareNext, userVars
<1> QED
  BY <1>3, <1>4, <1>5, <1>6, <1>7, <1>8 DEF Next, TimerNext

(* What temp_shutdown and temp_wakeup read, while temp_read does not come  *)
(* between.                                                                *)
LEMMA NextCtrl == BusInv /\ CtrlInv /\ [Next]_vars => CtrlInv'
PROOF
<1> SUFFICES ASSUME BusInv, CtrlInv, [Next]_vars, ~torn'
             PROVE  /\ pc'["timer"] = "idle"
                    /\ pc'["task"] = "read" =>
                         \E n \in 1..12 : TaskReads(n)' /\ ExactStage("task", n)'
  BY DEF CtrlInv
<1> USE DEF Users
<1>1. UserOK /\ Hardware /\ On /\ TimerOK /\ TaskOK
  BY DEF BusInv
<1>2. CASE TaskNext
  <2>1. pc["timer"] = "idle" /\ pc'["timer"] = "idle"
    BY <1>1, <1>2, TaskLeavesTimer
  <2>2. CASE I2cStep("task")
    <3>1. pc' = pc /\ torn' = torn
      BY <2>2, StepDoes
    <3> SUFFICES ASSUME pc["task"] = "read"
                 PROVE  \E n \in 1..12 : TaskReads(n)' /\ ExactStage("task", n)'
      BY <2>1, <3>1
    <3>2. PICK n \in 1..12 : TaskReads(n) /\ ExactStage("task", n)
      BY <3>1 DEF CtrlInv
    <3>3. todo["task"] = Rest(temp_i2c_read(Register("task")), n) /\ Register("task") = 1
      BY <3>2 DEF TaskReads, Register, TEMP_REG_CTRL
    <3>4. /\ n \in 1..11 /\ ExactStage("task", n + 1)'
          /\ todo' = [todo EXCEPT !["task"] = Rest(temp_i2c_read(Register("task")), n + 1)]
      BY <1>1, <2>2, <3>2, <3>3, ExactAdvances
    <3>5. todo'["task"] = Rest(temp_i2c_read(1), n + 1)
      BY <1>1, <3>3, <3>4 DEF UserOK
    <3>6. TaskReads(n + 1)' /\ n + 1 \in 1..12
      BY <3>1, <3>4, <3>5 DEF TaskReads, TEMP_REG_CTRL
    <3> QED
      BY <3>4, <3>6
  <2>3. CASE TempReset \/ TempEnable \/ TempModify \/ TempWritten
    <3>1. pc'["task"] # "read"
      BY <1>1, <2>3 DEF TempReset, TempEnable, TempModify, TempWritten, Goto, UserOK
    <3> QED
      BY <2>1, <3>1
  <2>4. ASSUME NEW c \in Commands, TempCommand(c), pc'["task"] = "read"
        PROVE  \E n \in 1..12 : TaskReads(n)' /\ ExactStage("task", n)'
    <3>1. pc["task"] = "recv" /\ UNCHANGED hardwareVars
      BY <2>4 DEF TempCommand
    <3>2. todo'["task"] = temp_i2c_read(1)
      BY <1>1, <2>4, <3>1, CommandDoes DEF UserOK
    <3>3. UNCHANGED <<on, msa, mdr, wire, next, bus, pointer, count, latch, reg>>
      BY <3>1, HardwareSame
    <3>4. wire = None /\ next = None
      BY <1>1, <2>1, <3>1 DEF TaskOK, TaskStage, TaskReads, TaskWrites, Free, Hardware, Off
    <3>5. on
      BY <1>1, <3>1 DEF On
    <3>6. ExactStage("task", 1)'
      BY <3>3, <3>4, <3>5 DEF ExactStage
    <3>7. temp_i2c_read(1) = Rest(temp_i2c_read(1), 1)
      BY ReadRoutine
    <3> QED
      BY <2>4, <3>2, <3>6, <3>7 DEF TaskReads, TEMP_REG_CTRL
  <2> QED
    BY <1>2, <2>1, <2>2, <2>3, <2>4 DEF TaskNext, TaskGoesOn
<1>3. CASE I2cStep("timer")
  <2>1. todo["timer"] # <<>> /\ torn' = torn
    BY <1>3, StepDoes
  <2>2. pc["timer"] # "idle"
    BY <1>1, <2>1 DEF TimerOK, TimerReads
  <2> QED
    BY <2>1, <2>2 DEF CtrlInv
<1>4. CASE temp_read
  BY <1>4 DEF temp_read, CtrlInv
<1>5. CASE TimerExpires
  BY <1>5 DEF TimerExpires
<1>6. CASE HardwareNext \/ UNCHANGED vars
  <2>1. pc' = pc /\ todo' = todo /\ data' = data /\ torn' = torn
    BY <1>6 DEF HardwareNext, userVars, vars, histVars
  <2>2. pc'["timer"] = "idle"
    BY <2>1 DEF CtrlInv
  <2> SUFFICES ASSUME pc["task"] = "read"
               PROVE  \E n \in 1..12 : TaskReads(n)' /\ ExactStage("task", n)'
    BY <2>1, <2>2
  <2>3. PICK n \in 1..12 : TaskReads(n) /\ ExactStage("task", n)
    BY <2>1 DEF CtrlInv
  <2>4. TaskReads(n)'
    BY <2>1, <2>3 DEF TaskReads
  <2>5. CASE Transfer /\ recent' = recent
    <3>1. reg[Register("task")] \in Truth("task")
      BY <1>1 DEF Register, Truth, TEMP_REG_CTRL, Hardware, Kept
    <3>2. ExactStage("task", n)'
      BY <1>1, <2>1, <2>3, <2>5, <3>1, TransferExact
    <3> QED
      BY <2>4, <3>2
  <2>6. CASE UNCHANGED <<masterVars, sensorVars>>
    <3>1. Truth("task") \subseteq Truth("task")'
      BY DEF Truth
    <3>2. ExactStage("task", n)'
      BY <2>1, <2>3, <2>6, <3>1, ConvertExact
    <3> QED
      BY <2>4, <3>2
  <2> QED
    BY <1>6, <2>5, <2>6 DEF HardwareNext, Convert, vars, hardwareVars
<1> QED
  BY <1>2, <1>3, <1>4, <1>5, <1>6 DEF Next, TimerNext

(* ReadingTrue: what temp_read sends is a temperature that the sensor had  *)
(* while it ran, unless it began when the master was in use or disabled.   *)
THEOREM ReadingCorrect == Spec => []ReadingTrue
PROOF
<1>1. Init => ReadingInv /\ ReadingTrue
  BY DEF Init, ReadingInv, ReadingTrue
<1> QED
  BY <1>1, InitBus, NextBus, NextReading, NextSaid, PTL DEF Spec

(* CtrlTrue: what temp_shutdown and temp_wakeup read is the sensor's       *)
(* configuration, unless temp_read came between.                           *)
THEOREM CtrlCorrect == Spec => []CtrlTrue
PROOF
<1>1. Init => CtrlInv
  BY DEF Init, CtrlInv
<1>2. BusInv /\ CtrlInv => CtrlTrue
  <2> SUFFICES ASSUME BusInv, CtrlInv, pc["task"] = "read", todo["task"] = <<>>, ~torn
               PROVE  Value("task") = reg[TEMP_REG_CTRL]
    BY DEF CtrlTrue
  <2>1. PICK n \in 1..12 : TaskReads(n) /\ ExactStage("task", n)
    BY DEF CtrlInv
  <2>2. n = 12
    BY <2>1, ReadEnds DEF TaskReads
  <2> QED
    BY <2>1, <2>2 DEF ExactStage, Truth, TEMP_REG_CTRL, BusInv, Hardware, Kept
<1> QED
  BY <1>1, <1>2, InitBus, NextBus, NextCtrl, PTL DEF Spec


(* The upper twelve bits of a word are a number; its highest bit says      *)
(* whether the word is negative.                                           *)
LEMMA SignBit ==
  ASSUME NEW d \in Nat, d < 65536
  PROVE  /\ d \div 16 \in 0..4095
         /\ ((d \div 16) \div 2048) % 2 = 1 <=> d >= 32768
PROOF
<1>1. d \div 16 \in 0..4095 /\ (d \div 16 >= 2048 <=> d >= 32768)
  OBVIOUS
<1>2. \A e \in 0..4095 : (e \div 2048) % 2 = 1 <=> e >= 2048
  OBVIOUS
<1> QED
  BY <1>1, <1>2

(* Rounding gives a nearest whole degree, and of two as near the one       *)
(* farther from zero.                                                      *)
LEMMA RoundNearest ==
  ASSUME NEW c \in Int
  PROVE  /\ round(c) \in Int
         /\ Distance(16 * round(c), c) <= 8
         /\ Distance(16 * round(c), c) = 8 => (16 * round(c) < c <=> c < 0)
PROOF
<1>1. CASE c < 0
  <2> DEFINE n == (8 - c) \div 16
  <2>1. n \in Int /\ 16 * n <= 8 - c /\ 8 - c < 16 * n + 16
    OBVIOUS
  <2>2. round(c) = -n
    BY <1>1 DEF round
  <2> HIDE DEF n
  <2> QED
    BY <1>1, <2>1, <2>2 DEF Distance
<1>2. CASE c >= 0
  <2> DEFINE n == (c + 8) \div 16
  <2>1. n \in Int /\ 16 * n <= c + 8 /\ c + 8 < 16 * n + 16
    OBVIOUS
  <2>2. round(c) = n
    BY <1>2 DEF round
  <2> HIDE DEF n
  <2> QED
    BY <1>2, <2>1, <2>2 DEF Distance
<1> QED
  BY <1>1, <1>2

(* A degree that fits twelve bits of sixteenths fits eight bits, or is 128. *)
LEMMA RoundRange ==
  ASSUME NEW c \in Int, -2048 <= c, c <= 2047
  PROVE  round(c) \in -128..128
  BY DEF round

(* The arithmetic half of ConversionRight, for every word of the register  *)
(* and all sixteen values of the four bits that the conversion drops: the  *)
(* temperature is the word's upper twelve bits in two's complement, and    *)
(* what is sent is the nearest whole degree, within the sensor's range.    *)
THEOREM RoundingCorrect ==
  \A d \in Nat : d < 65536 =>
    /\ temp_conv(d) = Signed(d)
    /\ round(temp_conv(d)) \in -128..128
    /\ Distance(16 * round(temp_conv(d)), temp_conv(d)) <= 8
    /\ Distance(16 * round(temp_conv(d)), temp_conv(d)) = 8
         => (16 * round(temp_conv(d)) < temp_conv(d) <=> temp_conv(d) < 0)
PROOF
<1> TAKE d \in Nat
<1> HAVE d < 65536
<1> DEFINE e == d \div 16
<1>1. e \in 0..4095 /\ ((e \div 2048) % 2 = 1 <=> d >= 32768) /\ d \in Int
  BY SignBit
<1>2. temp_conv(d) = IF (e \div 2048) % 2 = 1 THEN -((4095 - e) + 1) ELSE e
  BY DEF temp_conv
<1>3. Signed(d) = IF d < 32768 THEN e ELSE e - 4096
  BY DEF Signed
<1>4. e < 2048 <=> d < 32768
  BY <1>1
<1> HIDE DEF e
<1>5. CASE d < 32768
  <2>1. ~((e \div 2048) % 2 = 1)
    BY <1>1, <1>5
  <2>2. temp_conv(d) = e /\ Signed(d) = e
    BY <2>1, <1>2, <1>3, <1>5
  <2>3. e \in Int /\ -2048 <= e /\ e <= 2047
    BY <1>1, <1>4, <1>5
  <2> QED
    BY <2>2, <2>3, RoundNearest, RoundRange
<1>6. CASE ~(d < 32768)
  <2>1. (e \div 2048) % 2 = 1
    BY <1>1, <1>6
  <2>2. -((4095 - e) + 1) = e - 4096
    BY <1>1
  <2>3. temp_conv(d) = e - 4096 /\ Signed(d) = e - 4096
    BY <2>1, <2>2, <1>2, <1>3, <1>6
  <2>4. e - 4096 \in Int /\ -2048 <= e - 4096 /\ e - 4096 <= 2047
    BY <1>1, <1>4, <1>6
  <2> QED
    BY <2>3, <2>4, RoundNearest, RoundRange
<1> QED
  BY <1>5, <1>6


-----------------------------------------------------------------------------
(* One turn of itoa's loop, and a function that is what the loop computes  *)
(* for the numbers up to k.                                                *)
DigitStep(f, n) ==
  IF n < 10 THEN <<Digit[(n % 10) + 1]>> ELSE <<Digit[(n % 10) + 1]>> \o f[n \div 10]
Computes(f, k) == f = [n \in 0..k |-> DigitStep(f, n)]

(* Such a function for some numbers gives one for ten times as many: the   *)
(* loop takes one turn more.                                               *)
LEMMA OneDigitMore ==
  ASSUME NEW k \in Nat, NEW m \in Nat, m <= 10 * k + 9, NEW f, Computes(f, k)
  PROVE  \E g : Computes(g, m)
PROOF
<1> DEFINE g == [n \in 0..m |-> DigitStep(f, n)]
<1>1. ASSUME NEW n \in 0..m, ~(n < 10)
      PROVE  f[n \div 10] = g[n \div 10]
  <2>1. n \div 10 \in 0..k /\ n \div 10 \in 0..m
    BY <1>1
  <2>2. f[n \div 10] = DigitStep(f, n \div 10)
    BY <2>1 DEF Computes
  <2> QED
    BY <2>1, <2>2
<1>2. ASSUME NEW n \in 0..m
      PROVE  DigitStep(f, n) = DigitStep(g, n)
  BY <1>1 DEF DigitStep
<1>3. g = [n \in 0..m |-> DigitStep(g, n)]
  BY <1>2
<1> QED
  BY <1>3 DEF Computes

(* So digits, which TLA+ only says to be a function with this equation if  *)
(* there is one, has it: an int has at most ten digits.                    *)
LEMMA DigitsComputed == Computes(digits, INT_MAX)
PROOF
<1>0. \E f : Computes(f, 0)
  <2> DEFINE g == [n \in 0..0 |-> DigitStep(<<>>, n)]
  <2>1. \A n \in 0..0 : DigitStep(<<>>, n) = DigitStep(g, n)
    BY DEF DigitStep
  <2>2. g = [n \in 0..0 |-> DigitStep(g, n)]
    BY <2>1
  <2> QED
    BY <2>2 DEF Computes
<1>1. \E f : Computes(f, 9)
  BY <1>0, OneDigitMore
<1>2. \E f : Computes(f, 99)
  BY <1>1, OneDigitMore
<1>3. \E f : Computes(f, 999)
  BY <1>2, OneDigitMore
<1>4. \E f : Computes(f, 9999)
  BY <1>3, OneDigitMore
<1>5. \E f : Computes(f, 99999)
  BY <1>4, OneDigitMore
<1>6. \E f : Computes(f, 999999)
  BY <1>5, OneDigitMore
<1>7. \E f : Computes(f, 9999999)
  BY <1>6, OneDigitMore
<1>8. \E f : Computes(f, 99999999)
  BY <1>7, OneDigitMore
<1>9. \E f : Computes(f, 999999999)
  BY <1>8, OneDigitMore
<1>10. \E f : Computes(f, INT_MAX)
  BY <1>9, OneDigitMore DEF INT_MAX
<1>11. digits = CHOOSE f : Computes(f, INT_MAX)
  BY DEF digits, Computes, DigitStep
<1> QED
  BY <1>10, <1>11

(* The characters of a text, and short texts of them put together. *)
Characters == {Digit[i + 1] : i \in 0..9} \cup {"-"}
LEMMA OneInFront ==
  ASSUME NEW S, NEW s \in Seq(S), NEW t \in Seq(S), NEW r \in Seq(S)
  PROVE  Len(s) = 1 /\ Len(r) = Len(t) + 1 /\ r[1] = s[1]
           /\ (\A i \in 1..Len(t) : r[i + 1] = t[i])
         => s \o t = r
PROOF
<1>0. /\ s \o t \in Seq(S) /\ Len(s \o t) = Len(s) + Len(t) /\ Prefix(s, s \o t)
      /\ \A k \in 1..Len(t) : (s \o t)[Len(s) + k] = t[k]
  BY JoinFacts
<1> SUFFICES ASSUME Len(s) = 1, Len(r) = Len(t) + 1, r[1] = s[1],
                    \A i \in 1..Len(t) : r[i + 1] = t[i]
             PROVE  s \o t = r
  OBVIOUS
<1>1. s \o t \in Seq(S) /\ Len(s \o t) = Len(r)
  <2>1. Len(t) \in Nat /\ Len(s) + Len(t) = Len(t) + 1
    OBVIOUS
  <2> QED
    BY <1>0, <2>1, Zenon
<1>2. (s \o t)[1] = r[1]
  BY <1>0 DEF Prefix
<1>3. \A k \in 1..Len(t) : (s \o t)[1 + k] = t[k]
  BY <1>0, Zenon
<1>4. ASSUME NEW i \in 1..Len(r) PROVE (s \o t)[i] = r[i]
  <2>1. CASE i = 1
    BY <1>2, <2>1
  <2>2. CASE i # 1
    <3>1. i - 1 \in 1..Len(t) /\ 1 + (i - 1) = i /\ (i - 1) + 1 = i
      BY <2>2
    <3>2. (s \o t)[1 + (i - 1)] = t[i - 1] /\ r[(i - 1) + 1] = t[i - 1]
      BY <1>3, <3>1
    <3> QED
      BY <3>1, <3>2, Zenon
  <2> QED
    BY <2>1, <2>2
<1> QED
  BY <1>1, <1>4, SameElements, Zenon

LEMMA Together ==
  ASSUME NEW S, NEW x \in S, NEW y \in S, NEW z \in S
  PROVE  <<x>> \o <<y>> = <<x, y>> /\ <<x>> \o <<y, z>> = <<x, y, z>>
PROOF
<1>1. <<x>> \in Seq(S) /\ Len(<<x>>) = 1 /\ <<x>>[1] = x
  OBVIOUS
<1>2. <<x>> \o <<y>> = <<x, y>>
  <2>1. <<y>> \in Seq(S) /\ Len(<<y>>) = 1 /\ <<y>>[1] = y
    OBVIOUS
  <2>2. <<x, y>> \in Seq(S) /\ Len(<<x, y>>) = 2 /\ <<x, y>>[1] = x /\ <<x, y>>[2] = y
    OBVIOUS
  <2>3. Len(<<x, y>>) = Len(<<y>>) + 1 /\ <<x, y>>[1] = <<x>>[1]
    BY <1>1, <2>1, <2>2
  <2>4. \A i \in 1..Len(<<y>>) : <<x, y>>[i + 1] = <<y>>[i]
    BY <2>1, <2>2
  <2> QED
    BY <1>1, <2>1, <2>2, <2>3, <2>4, OneInFront, Zenon
<1>3. <<x>> \o <<y, z>> = <<x, y, z>>
  <2>1. <<y, z>> \in Seq(S) /\ Len(<<y, z>>) = 2 /\ <<y, z>>[1] = y /\ <<y, z>>[2] = z
    OBVIOUS
  <2>2. /\ <<x, y, z>> \in Seq(S) /\ Len(<<x, y, z>>) = 3
        /\ <<x, y, z>>[1] = x /\ <<x, y, z>>[2] = y /\ <<x, y, z>>[3] = z
    OBVIOUS
  <2>3. Len(<<x, y, z>>) = Len(<<y, z>>) + 1 /\ <<x, y, z>>[1] = <<x>>[1]
    BY <1>1, <2>1, <2>2
  <2>4. \A i \in 1..Len(<<y, z>>) : <<x, y, z>>[i + 1] = <<y, z>>[i]
    <3> TAKE i \in 1..Len(<<y, z>>)
    <3>1. i = 1 \/ i = 2
      BY <2>1
    <3> QED
      BY <2>1, <2>2, <3>1
  <2> QED
    BY <1>1, <2>1, <2>2, <2>3, <2>4, OneInFront, Zenon
<1> QED
  BY <1>2, <1>3

LEMMA DigitIsCharacter == \A i \in 0..9 : Digit[i + 1] \in Characters
BY DEF Characters

(* The digits of the numbers of a reading. *)
LEMMA DigitsShort ==
  ASSUME NEW n \in Nat, n < 1000
  PROVE  /\ n < 10 => digits[n] = <<Digit[n + 1]>>
         /\ 10 <= n /\ n < 100 => digits[n] = <<Digit[(n % 10) + 1], Digit[(n \div 10) + 1]>>
         /\ 100 <= n => digits[n] = <<Digit[(n % 10) + 1], Digit[((n \div 10) % 10) + 1],
                                      Digit[(n \div 100) + 1]>>
PROOF
<1>1. \A i \in Nat : i < 1000 => digits[i] = DigitStep(digits, i)
  <2> TAKE i \in Nat
  <2> HAVE i < 1000
  <2>1. i \in 0..INT_MAX
    <3>1. INT_MAX \in Int /\ 1000 <= INT_MAX
      BY DEF INT_MAX
    <3> QED
      BY <3>1
  <2> QED
    BY <2>1, DigitsComputed DEF Computes
<1>2. \A i \in Nat : i < 10 => digits[i] = <<Digit[i + 1]>>
  <2> TAKE i \in Nat
  <2> HAVE i < 10
  <2>1. i % 10 = i /\ i < 1000
    OBVIOUS
  <2>2. digits[i] = <<Digit[(i % 10) + 1]>>
    <3>1. digits[i] = DigitStep(digits, i)
      BY <1>1, <2>1
    <3> QED
      BY <3>1 DEF DigitStep
  <2> QED
    BY <2>1, <2>2, Zenon
<1>3. \A i \in Nat : 10 <= i /\ i < 100 =>
        digits[i] = <<Digit[(i % 10) + 1], Digit[(i \div 10) + 1]>>
  <2> TAKE i \in Nat
  <2> HAVE 10 <= i /\ i < 100
  <2>1. i \div 10 \in 0..9 /\ i % 10 \in 0..9 /\ ~(i < 10) /\ i < 1000
    OBVIOUS
  <2>2. digits[i] = <<Digit[(i % 10) + 1]>> \o digits[i \div 10]
    <3>1. digits[i] = DigitStep(digits, i)
      BY <1>1, <2>1
    <3> QED
      BY <2>1, <3>1 DEF DigitStep
  <2>3. digits[i \div 10] = <<Digit[(i \div 10) + 1]>>
    BY <1>2, <2>1
  <2>4. Digit[(i % 10) + 1] \in Characters /\ Digit[(i \div 10) + 1] \in Characters
    BY <2>1, DigitIsCharacter
  <2>5. <<Digit[(i % 10) + 1]>> \o <<Digit[(i \div 10) + 1]>>
          = <<Digit[(i % 10) + 1], Digit[(i \div 10) + 1]>>
    BY <2>4, Together, Zenon
  <2> QED
    BY <2>2, <2>3, <2>5, Zenon
<1>4. 100 <= n =>
        digits[n] = <<Digit[(n % 10) + 1], Digit[((n \div 10) % 10) + 1], Digit[(n \div 100) + 1]>>
  <2> HAVE 100 <= n
  <2> DEFINE q == n \div 10
  <2>1. /\ q \in Nat /\ 10 <= q /\ q < 100 /\ q \div 10 = n \div 100
        /\ n % 10 \in 0..9 /\ q % 10 \in 0..9 /\ q \div 10 \in 0..9 /\ ~(n < 10)
    OBVIOUS
  <2>2. digits[n] = <<Digit[(n % 10) + 1]>> \o digits[q]
    <3>1. digits[n] = DigitStep(digits, n)
      BY <1>1, <2>1
    <3> QED
      BY <2>1, <3>1 DEF DigitStep
  <2> HIDE DEF q
  <2>3. digits[q] = <<Digit[(q % 10) + 1], Digit[(q \div 10) + 1]>>
    BY <1>3, <2>1
  <2>4. /\ Digit[(n % 10) + 1] \in Characters /\ Digit[(q % 10) + 1] \in Characters
        /\ Digit[(q \div 10) + 1] \in Characters
    BY <2>1, DigitIsCharacter
  <2>5. <<Digit[(n % 10) + 1]>> \o <<Digit[(q % 10) + 1], Digit[(q \div 10) + 1]>>
          = <<Digit[(n % 10) + 1], Digit[(q % 10) + 1], Digit[(q \div 10) + 1]>>
    BY <2>4, Together, Zenon
  <2>6. digits[n] = <<Digit[(n % 10) + 1], Digit[(q % 10) + 1], Digit[(q \div 10) + 1]>>
    BY <2>2, <2>3, <2>5, Zenon
  <2>7. (q \div 10) + 1 = (n \div 100) + 1
    BY <2>1
  <2>8. digits[n] = <<Digit[(n % 10) + 1], Digit[(q % 10) + 1], Digit[(n \div 100) + 1]>>
    BY <2>6, <2>7, Zenon
  <2> QED
    BY <2>8, Zenon DEF q
<1> QED
  BY <1>2, <1>3, <1>4

(* A digit stands for its number, and only the first one is a zero. *)
LEMMA DigitValues ==
  /\ \A i \in 0..9 : DigitValue(Digit[i + 1]) = i
  /\ \A i \in 1..9 : Digit[i + 1] # "0"
PROOF
<1>1. \A i, j \in 0..9 : Digit[i + 1] = Digit[j + 1] => i = j
  BY DEF Digit
<1>2. ASSUME NEW i \in 0..9 PROVE DigitValue(Digit[i + 1]) = i
  BY <1>1 DEF DigitValue
<1>3. ASSUME NEW i \in 1..9 PROVE Digit[i + 1] # "0"
  <2>1. Digit[0 + 1] = "0" /\ 0 \in 0..9 /\ i \in 0..9
    BY DEF Digit
  <2> QED
    BY <1>1, <2>1
<1> QED
  BY <1>2, <1>3

(* What the texts of one, two and three digits stand for. *)
Values(s, v) == v = [i \in 0..Len(s) |-> IF i = 0 THEN 0 ELSE 10 * v[i - 1] + DigitValue(s[i])]
LEMMA NumberIs ==
  ASSUME NEW s, NEW w, Values(s, w)
  PROVE  \E v : Values(s, v) /\ Number(s) = v[Len(s)]
PROOF
<1>1. Number(s) = (CHOOSE v : Values(s, v))[Len(s)]
  BY DEF Number, Values
<1> QED
  BY <1>1

LEMMA Numbers ==
  ASSUME NEW s, NEW x \in Nat, NEW y \in Nat, NEW z \in Nat
  PROVE  /\ Len(s) = 1 /\ DigitValue(s[1]) = x => Number(s) = x
         /\ Len(s) = 2 /\ DigitValue(s[1]) = x /\ DigitValue(s[2]) = y
              => Number(s) = 10 * x + y
         /\ Len(s) = 3 /\ DigitValue(s[1]) = x /\ DigitValue(s[2]) = y /\ DigitValue(s[3]) = z
              => Number(s) = 100 * x + 10 * y + z
PROOF
<1>1. ASSUME Len(s) = 1, DigitValue(s[1]) = x
      PROVE  Number(s) = x
  <2> DEFINE w == [i \in 0..1 |-> IF i = 0 THEN 0 ELSE x]
  <2>1. ASSUME NEW i \in 0..1
        PROVE  w[i] = IF i = 0 THEN 0 ELSE 10 * w[i - 1] + DigitValue(s[i])
    BY <1>1
  <2>2. Values(s, w)
    BY <1>1, <2>1 DEF Values
  <2>3. PICK v : Values(s, v) /\ Number(s) = v[1]
    BY <1>1, <2>2, NumberIs
  <2>4. v[0] = 0 /\ v[1] = 10 * v[0] + x
    BY <1>1, <2>3 DEF Values
  <2> QED
    BY <2>3, <2>4
<1>2. ASSUME Len(s) = 2, DigitValue(s[1]) = x, DigitValue(s[2]) = y
      PROVE  Number(s) = 10 * x + y
  <2> DEFINE w == [i \in 0..2 |-> IF i = 0 THEN 0 ELSE IF i = 1 THEN x ELSE 10 * x + y]
  <2>1. w[0] = 0 /\ w[1] = 10 * w[0] + DigitValue(s[1])
                 /\ w[2] = 10 * w[1] + DigitValue(s[2])
    BY <1>2
  <2>2. ASSUME NEW i \in 0..2
        PROVE  w[i] = IF i = 0 THEN 0 ELSE 10 * w[i - 1] + DigitValue(s[i])
    <3>1. i = 0 \/ i = 1 \/ i = 2
      OBVIOUS
    <3> HIDE DEF w
    <3> QED
      BY <2>1, <3>1
  <2>3. Values(s, w)
    BY <1>2, <2>2 DEF Values
  <2>4. PICK v : Values(s, v) /\ Number(s) = v[2]
    BY <1>2, <2>3, NumberIs
  <2>5. v[0] = 0 /\ v[1] = 10 * v[0] + x /\ v[2] = 10 * v[1] + y
    BY <1>2, <2>4 DEF Values
  <2> QED
    BY <2>4, <2>5
<1>3. ASSUME Len(s) = 3, DigitValue(s[1]) = x, DigitValue(s[2]) = y, DigitValue(s[3]) = z
      PROVE  Number(s) = 100 * x + 10 * y + z
  <2> DEFINE w == [i \in 0..3 |-> IF i = 0 THEN 0 ELSE IF i = 1 THEN x
                                  ELSE IF i = 2 THEN 10 * x + y ELSE 10 * (10 * x + y) + z]
  <2>1. w[0] = 0 /\ w[1] = 10 * w[0] + DigitValue(s[1])
                 /\ w[2] = 10 * w[1] + DigitValue(s[2])
                 /\ w[3] = 10 * w[2] + DigitValue(s[3])
    BY <1>3
  <2>2. ASSUME NEW i \in 0..3
        PROVE  w[i] = IF i = 0 THEN 0 ELSE 10 * w[i - 1] + DigitValue(s[i])
    <3>1. i = 0 \/ i = 1 \/ i = 2 \/ i = 3
      OBVIOUS
    <3> HIDE DEF w
    <3> QED
      BY <2>1, <3>1
  <2>3. Values(s, w)
    BY <1>3, <2>2 DEF Values
  <2>4. PICK v : Values(s, v) /\ Number(s) = v[3]
    BY <1>3, <2>3, NumberIs
  <2>5. v[0] = 0 /\ v[1] = 10 * v[0] + x /\ v[2] = 10 * v[1] + y /\ v[3] = 10 * v[2] + z
    BY <1>3, <2>4 DEF Values
  <2> QED
    BY <2>4, <2>5
<1> QED
  BY <1>1, <1>2, <1>3

(* The digits of a number up to 999, the last one first, read backwards    *)
(* stand for it, and begin with a zero only for zero.                      *)
LEMMA DigitsDenote ==
  ASSUME NEW n \in Nat, n < 1000
  PROVE  \E s : /\ s = Reverse(digits[n]) /\ s \in Seq(Characters) /\ Len(s) \in 1..3
                /\ digits[n] \in Seq(Characters) /\ Len(digits[n]) = Len(s)
                /\ Number(s) = n
                /\ Len(s) > 1 \/ n > 0 => s[1] # "0"
PROOF
<1> DEFINE IsText(s) ==
      /\ s = Reverse(digits[n]) /\ s \in Seq(Characters) /\ Len(s) \in 1..3
      /\ digits[n] \in Seq(Characters) /\ Len(digits[n]) = Len(s)
      /\ Number(s) = n
      /\ Len(s) > 1 \/ n > 0 => s[1] # "0"
<1>1. ASSUME NEW s, IsText(s) PROVE \E r : IsText(r)
  BY <1>1
<1>2. CASE n < 10
  <2>1. PICK a : a = Digit[n + 1]
    OBVIOUS
  <2>2. n \in 0..9 /\ DigitValue(a) = n /\ a \in Characters /\ (n > 0 => a # "0")
    BY <1>2, <2>1, DigitValues, DigitIsCharacter
  <2>3. digits[n] = <<a>>
    BY <1>2, <2>1, DigitsShort
  <2>4. PICK s : s = <<a>>
    OBVIOUS
  <2>5. s \in Seq(Characters) /\ Len(s) = 1 /\ s[1] = a /\ digits[n] = s
    BY <2>2, <2>3, <2>4
  <2>6. Reverse(s) = s
    <3>1. Reverse(<<a>>) = <<a>>
      BY <2>2 DEF Reverse
    <3> QED
      BY <2>4, <3>1
  <2>7. Number(s) = n
    BY <2>2, <2>5, Numbers
  <2> QED
    BY <2>2, <2>5, <2>6, <2>7, <1>1
<1>3. CASE 10 <= n /\ n < 100
  <2>1. PICK x \in Nat, y \in Nat : x = n \div 10 /\ y = n % 10
    OBVIOUS
  <2>2. x \in 1..9 /\ y \in 0..9 /\ n = 10 * x + y
    BY <1>3, <2>1
  <2>3. PICK a, b : a = Digit[x + 1] /\ b = Digit[y + 1]
    OBVIOUS
  <2>4. digits[n] = <<b, a>>
    BY <1>3, <2>1, <2>3, DigitsShort
  <2>5. /\ DigitValue(a) = x /\ DigitValue(b) = y /\ a # "0"
        /\ a \in Characters /\ b \in Characters
    BY <2>2, <2>3, DigitValues, DigitIsCharacter
  <2>6. PICK s : s = <<a, b>>
    OBVIOUS
  <2>7. /\ s \in Seq(Characters) /\ Len(s) = 2 /\ s[1] = a /\ s[2] = b
        /\ digits[n] \in Seq(Characters) /\ Len(digits[n]) = 2
    BY <2>4, <2>5, <2>6
  <2>8. s = Reverse(digits[n])
    <3>1. Reverse(<<b, a>>) = <<a, b>>
      BY <2>5 DEF Reverse
    <3> QED
      BY <2>4, <2>6, <3>1
  <2>9. Number(s) = n
    BY <2>2, <2>5, <2>7, Numbers
  <2> QED
    BY <2>5, <2>7, <2>8, <2>9, <1>1
<1>4. CASE 100 <= n
  <2>1. PICK q \in Nat, z \in Nat : q = n \div 10 /\ z = n % 10
    OBVIOUS
  <2>2. PICK x \in Nat, y \in Nat : x = q \div 10 /\ y = q % 10
    OBVIOUS
  <2>3. n \div 100 = x
    BY <2>1, <2>2
  <2>4. q \in 10..99 /\ z \in 0..9 /\ n = 10 * q + z
    BY <1>4, <2>1
  <2>5. x \in 1..9 /\ y \in 0..9 /\ q = 10 * x + y
    BY <2>2, <2>4
  <2>6. n = 100 * x + 10 * y + z
    BY <2>4, <2>5
  <2>7. PICK a, b, c : a = Digit[x + 1] /\ b = Digit[y + 1] /\ c = Digit[z + 1]
    OBVIOUS
  <2>8. digits[n] = <<c, b, a>>
    BY <1>4, <2>1, <2>2, <2>3, <2>7, DigitsShort
  <2>9. /\ DigitValue(a) = x /\ DigitValue(b) = y /\ DigitValue(c) = z /\ a # "0"
        /\ a \in Characters /\ b \in Characters /\ c \in Characters
    BY <2>4, <2>5, <2>7, DigitValues, DigitIsCharacter
  <2>10. PICK s : s = <<a, b, c>>
    OBVIOUS
  <2>11. /\ s \in Seq(Characters) /\ Len(s) = 3 /\ s[1] = a /\ s[2] = b /\ s[3] = c
         /\ digits[n] \in Seq(Characters) /\ Len(digits[n]) = 3
    BY <2>8, <2>9, <2>10
  <2>12. s = Reverse(digits[n])
    <3>1. Reverse(<<c, b, a>>) = <<a, b, c>>
      BY <2>9 DEF Reverse
    <3> QED
      BY <2>8, <2>10, <3>1
  <2>13. Number(s) = n
    BY <2>6, <2>9, <2>11, Numbers
  <2> QED
    BY <2>9, <2>11, <2>12, <2>13, <1>1
<1> QED
  BY <1>2, <1>3, <1>4

(* The text of a number between -999 and 999 stands for it. *)
LEMMA TextDenotes ==
  ASSUME NEW n \in Int, -1000 < n, n < 1000
  PROVE  Denotes(itoa(n), n)
PROOF
<1>1. CASE n >= 0
  <2>1. itoa(n) = Reverse(digits[n]) /\ n \in Nat /\ ~(n < 0)
    BY <1>1 DEF itoa
  <2>2. PICK s : /\ s = Reverse(digits[n]) /\ s \in Seq(Characters) /\ Len(s) \in 1..3
                 /\ Number(s) = n /\ (Len(s) > 1 => s[1] # "0")
    BY <2>1, DigitsDenote
  <2>3. s # <<>> /\ Len(s) < 10
    <3>1. \A k \in 1..3 : k >= 1 /\ k < 10
      OBVIOUS
    <3>2. Len(<<>>) = 0
      OBVIOUS
    <3>3. Len(s) >= 1 /\ Len(s) < 10
      BY <2>2, <3>1, Zenon
    <3> QED
      BY <3>2, <3>3
  <2>4. Denotes(s, n)
    BY <2>1, <2>2, <2>3, Zenon DEF Denotes
  <2> QED
    BY <2>1, <2>2, <2>4, Zenon
<1>2. CASE n < 0
  <2>1. PICK d : d = digits[-n]
    OBVIOUS
  <2>2. itoa(n) = Reverse(Append(d, "-")) /\ -n \in Nat /\ -n < 1000 /\ -n > 0
    BY <1>2, <2>1 DEF itoa
  <2>3. PICK s : /\ s = Reverse(d) /\ s \in Seq(Characters) /\ Len(s) \in 1..3
                 /\ d \in Seq(Characters) /\ Len(d) = Len(s)
                 /\ Number(s) = -n /\ s[1] # "0"
    BY <2>1, <2>2, DigitsDenote
  <2>4. PICK e : e = Append(d, "-")
    OBVIOUS
  <2>5. /\ e \in Seq(Characters) /\ Len(e) = Len(s) + 1 /\ e[Len(s) + 1] = "-"
        /\ \A i \in 1..Len(s) : e[i] = d[i]
    <3>1. "-" \in Characters
      BY DEF Characters
    <3> QED
      BY <2>3, <2>4, <3>1
  <2>6. PICK t : t = Reverse(e)
    OBVIOUS
  <2>7. t = [i \in 1..(Len(s) + 1) |-> e[(Len(s) + 1 - i) + 1]]
    BY <2>5, <2>6 DEF Reverse
  <2>8. \A i \in 1..(Len(s) + 1) : e[(Len(s) + 1 - i) + 1] \in Characters
    BY <2>3, <2>5
  <2>9. t \in Seq(Characters) /\ Len(t) = Len(s) + 1
    BY <2>3, <2>7, <2>8
  <2>10. t[1] = "-"
    BY <2>3, <2>5, <2>7
  <2>11. \A i \in 1..Len(s) : t[i + 1] = s[i]
    <3> TAKE i \in 1..Len(s)
    <3>1. /\ i + 1 \in 1..(Len(s) + 1) /\ (Len(s) + 1 - (i + 1)) + 1 = (Len(s) - i) + 1
          /\ (Len(s) - i) + 1 \in 1..Len(s)
      BY <2>3
    <3>2. t[i + 1] = e[(Len(s) - i) + 1]
      BY <2>7, <3>1
    <3>3. s[i] = d[(Len(s) - i) + 1]
      BY <2>3, <3>1 DEF Reverse
    <3> QED
      BY <2>5, <3>1, <3>2, <3>3
  <2>12. Tail(t) = s
    BY <2>3, <2>9, <2>11
  <2>13. t # <<>> /\ Len(t) < 10 /\ Len(t) > 1 /\ t[2] = s[1]
    <3>1. 1 \in 1..Len(s)
      BY <2>3
    <3>2. t[1 + 1] = s[1]
      BY <2>11, <3>1
    <3> QED
      BY <2>3, <2>9, <3>2
  <2>14. Denotes(t, n)
    BY <1>2, <2>3, <2>10, <2>12, <2>13, Zenon DEF Denotes
  <2> QED
    BY <2>2, <2>4, <2>6, <2>14, Zenon
<1> QED
  BY <1>1, <1>2

(* What is sent of a reading is right for every word of the register and   *)
(* all sixteen values of the four bits that the conversion drops, and so   *)
(* in every state.                                                         *)
THEOREM ConversionCorrect ==
  /\ \A d \in Words : Right(d)
  /\ Spec => []ConversionRight
PROOF
<1>1. \A d \in Words : d \in Nat /\ d < 65536
  BY DEF Words
<1>2. ASSUME NEW d \in Words PROVE Right(d)
  <2> DEFINE c == temp_conv(d) n == round(c)
  <2>1. /\ c = Signed(d) /\ n \in -128..128 /\ Distance(16 * n, c) <= 8
        /\ Distance(16 * n, c) = 8 => (16 * n < c <=> c < 0)
    BY <1>1, RoundingCorrect
  <2>2. n \in Int /\ -1000 < n /\ n < 1000
    <3> HIDE DEF n
    <3> QED
      BY <2>1
  <2>3. Denotes(itoa(n), n)
    <3> HIDE DEF n
    <3> QED
      BY <2>2, TextDenotes
  <2>4. (16 * n < c <=> c < 0) => (16 * n < c) = (c < 0)
    <3> HIDE DEF n, c
    <3> QED
      OBVIOUS
  <2>5. Distance(16 * n, c) = 8 => (16 * n < c) = (c < 0)
    <3> HIDE DEF n, c
    <3> QED
      BY <2>1, <2>4, Zenon
  <2> QED
    BY <2>1, <2>3, <2>5, Zenon DEF Right
<1>3. \A d \in Words : Right(d)
  BY <1>2
<1>4. ConversionRight
  BY <1>3 DEF ConversionRight
<1> QED
  BY <1>3, <1>4, PTL
=============================================================================
