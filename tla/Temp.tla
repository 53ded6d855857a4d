-------------------------------- MODULE Temp --------------------------------
(***************************************************************************)
(* temp.c at its sensor: temp_task obeys the commands of temp.h, and       *)
(* temp_read, a timer callback, reads the temperature.  Both drive the     *)
(* same I2C master and wait in busy loops.  The callback runs in the timer *)
(* task, whose priority is higher: it goes between any two steps of        *)
(* temp_task, never the other way round.                                   *)
(*                                                                         *)
(* What the tasks' queues do is in Tiva.tla; here a command is there       *)
(* whenever temp_task looks for one.  temp_per is left out: nobody reads   *)
(* it once the timer is created.                                           *)
(***************************************************************************)
EXTENDS I2c, TempConv

TEMP_REG_TEMP == 0
TEMP_REG_CTRL == 1
TEMP_REG_CTRL_SD == 256

TEMP_INIT == 0
TEMP_PERIOD == 1
TEMP_SHUTDOWN == 2
TEMP_WAKEUP == 3
TEMP_KILL == 4
Commands == TEMP_INIT..TEMP_KILL

Users == {"task", "timer"}

VARIABLES
  pc,           \* [Users -> where temp_task and temp_read are]
  todo,         \* [Users -> the steps of its routine still to take]
  data,         \* [Users -> the two bytes it has read]
  rx,           \* the command temp_task handles
  started,      \* the timer was started
  said,         \* history: the line and the sentence sent last
  recent,       \* history: the temperatures since temp_read began
  clash,        \* history: temp_read began while the master was in use
  torn          \* history: temp_read began since temp_task's command

userVars == <<pc, todo, data, rx, started>>
histVars == <<said, recent, clash, torn>>
hardwareVars == <<masterVars, sensorVars, reg>>
vars == <<userVars, hardwareVars, histVars>>

Init ==
  /\ HardwareInit
  /\ pc = [task |-> "reset", timer |-> "idle"]
  /\ todo = [u \in Users |-> <<>>]
  /\ data = [u \in Users |-> [high |-> 0, low |-> 0]]
  /\ rx = TEMP_INIT /\ started = FALSE
  /\ said = [line |-> <<>>, sentence |-> <<>>]
  /\ recent = {} /\ clash = FALSE /\ torn = FALSE

-----------------------------------------------------------------------------
(* The routines, as the steps they take at the master. *)
Addr(direction) == [op |-> "addr", arg |-> direction]
Put(byte) == [op |-> "put", arg |-> byte]
Control(start, stop) == [op |-> "control", arg |-> Mask(start, stop)]
Wait == [op |-> "wait"]
Get(half) == [op |-> "get", arg |-> half]

temp_i2c_read_NoFinish(address) ==
  << Addr("send"), Put(address), Control(TRUE, TRUE), Wait,
     Addr("receive"), Control(TRUE, FALSE), Wait, Get("high"),
     Control(FALSE, FALSE), Wait, Get("low") >>
temp_i2c_read_NoWait(address) ==
  << Addr("send"), Put(address), Control(TRUE, TRUE), Wait,
     Addr("receive"), Control(TRUE, FALSE), Get("high"),
     Control(FALSE, TRUE), Wait, Get("low") >>
temp_i2c_read_NoFirstWait(address) ==
  << Addr("send"), Put(address), Control(TRUE, TRUE),
     Addr("receive"), Control(TRUE, FALSE), Wait, Get("high"),
     Control(FALSE, TRUE), Wait, Get("low") >>
temp_i2c_read(address) ==
  << Addr("send"), Put(address), Control(TRUE, TRUE), Wait,
     Addr("receive"), Control(TRUE, FALSE), Wait, Get("high"),
     Control(FALSE, TRUE), Wait, Get("low") >>

temp_i2c_write_LowFirst(word, address) ==
  << Addr("send"), Put(Low(word)), Control(TRUE, FALSE), Wait,
     Put(High(word)), Control(FALSE, FALSE), Wait,
     Put(address), Control(FALSE, TRUE), Wait >>
temp_i2c_write(word, address) ==
  << Addr("send"), Put(address), Control(TRUE, FALSE), Wait,
     Put(High(word)), Control(FALSE, FALSE), Wait,
     Put(Low(word)), Control(FALSE, TRUE), Wait >>

-----------------------------------------------------------------------------
MayRun(u) == u = "timer" \/ pc["timer"] = "idle"

Goto(u, l) == pc' = [pc EXCEPT ![u] = l]
Call(u, routine) == todo' = [todo EXCEPT ![u] = routine]

Idle_Inverted == I2CMasterBusy
Idle == ~I2CMasterBusy

(* One step of the routine u is in. *)
I2cStep(u) ==
  /\ MayRun(u) /\ todo[u] # <<>>
  /\ LET s == Head(todo[u]) IN
     /\ CASE s.op = "addr" -> I2CMasterSlaveAddrSet(s.arg)
          [] s.op = "put" -> I2CMasterDataPut(s.arg)
          [] s.op = "control" -> I2CMasterControl(s.arg)
          [] s.op = "wait" -> Idle /\ UNCHANGED hardwareVars
          [] s.op = "get" -> UNCHANGED hardwareVars
     /\ data' = IF s.op = "get" THEN [data EXCEPT ![u][s.arg] = I2CMasterDataGet]
                                ELSE data
  /\ Call(u, Tail(todo[u]))
  /\ UNCHANGED <<pc, rx, started, histVars>>

Value(u) == 256 * data[u].high + data[u].low

-----------------------------------------------------------------------------
(* temp_task *)

(* temp_i2c_init: the master is reset, and enabled when that is done.      *)
TempReset ==
  /\ MayRun("task") /\ pc["task"] = "reset"
  /\ SysCtlPeripheralReset
  /\ Goto("task", "enable")
  /\ UNCHANGED <<todo, data, rx, started, histVars>>
TempEnable ==
  /\ MayRun("task") /\ pc["task"] = "enable"
  /\ I2CMasterInitExpClk
  /\ Goto("task", "recv")
  /\ started' = TRUE
  /\ UNCHANGED <<todo, data, rx, histVars>>

(* TEMP_PERIOD falls through to TEMP_KILL. *)
TempCommand(c) ==
  /\ MayRun("task") /\ pc["task"] = "recv"
  /\ rx' = c
  /\ torn' = FALSE
  /\ CASE c = TEMP_INIT -> Goto("task", "reset") /\ UNCHANGED todo
       [] c \in {TEMP_SHUTDOWN, TEMP_WAKEUP} ->
            Goto("task", "read") /\ Call("task", temp_i2c_read(TEMP_REG_CTRL))
       [] c \in {TEMP_PERIOD, TEMP_KILL} -> Goto("task", "dead") /\ UNCHANGED todo
  /\ UNCHANGED <<data, started, hardwareVars, said, recent, clash>>

SetBit(w) == IF (w \div TEMP_REG_CTRL_SD) % 2 = 1 THEN w ELSE w + TEMP_REG_CTRL_SD
ClearBit(w) == IF (w \div TEMP_REG_CTRL_SD) % 2 = 1 THEN w - TEMP_REG_CTRL_SD ELSE w

(* temp_shutdown and temp_wakeup call temp_i2c_write(TEMP_REG_CTRL, data),  *)
(* whose parameters are the word and the address, in this order.           *)
TempModify ==
  /\ MayRun("task") /\ pc["task"] = "read" /\ todo["task"] = <<>>
  /\ LET w == IF rx = TEMP_SHUTDOWN THEN SetBit(Value("task")) ELSE ClearBit(Value("task"))
     IN Call("task", temp_i2c_write(TEMP_REG_CTRL, Low(w)))
  /\ Goto("task", "write")
  /\ UNCHANGED <<data, rx, started, hardwareVars, histVars>>
TempWritten ==
  /\ MayRun("task") /\ pc["task"] = "write" /\ todo["task"] = <<>>
  /\ Goto("task", "recv")
  /\ UNCHANGED <<todo, data, rx, started, hardwareVars, histVars>>

-----------------------------------------------------------------------------
(* temp_read, in the timer task *)
TimerExpires ==
  /\ started /\ pc["timer"] = "idle"
  /\ Goto("timer", "read")
  /\ Call("timer", temp_i2c_read(TEMP_REG_TEMP))
  /\ recent' = {reg[0]} /\ clash' = (I2CMasterBusy \/ ~on) /\ torn' = TRUE
  /\ UNCHANGED <<data, rx, started, hardwareVars, said>>
temp_read ==
  /\ pc["timer"] = "read" /\ todo["timer"] = <<>>
  /\ said' = [line |-> Line(Value("timer")), sentence |-> Sentence(Value("timer"))]
  /\ Goto("timer", "idle")
  /\ UNCHANGED <<todo, data, rx, started, hardwareVars, recent, clash, torn>>

-----------------------------------------------------------------------------
HardwareNext ==
  /\ \/ Transfer /\ recent' = recent
     \/ \E t \in Temps : Convert(t) /\ recent' = recent \cup {t}
  /\ UNCHANGED <<userVars, said, clash, torn>>

TaskGoesOn == I2cStep("task") \/ TempReset \/ TempEnable \/ TempModify \/ TempWritten
TaskNext == TaskGoesOn \/ \E c \in Commands : TempCommand(c)
TimerNext == I2cStep("timer") \/ temp_read
Next == TaskNext \/ TimerNext \/ TimerExpires \/ HardwareNext

Spec == Init /\ [][Next]_vars

(* The bus goes on; the timer task goes on; and temp_task, which runs when  *)
(* it may again and again, for the timer's period is long.  Nothing is     *)
(* asked of the commands, the timer and the weather.                       *)
Fairness ==
  /\ WF_vars(TimerNext) /\ SF_vars(TaskGoesOn)
  /\ WF_vars(Transfer /\ UNCHANGED <<userVars, histVars>>)
FairSpec == Spec /\ Fairness
=============================================================================
