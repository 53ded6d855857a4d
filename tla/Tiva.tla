-------------------------------- MODULE Tiva --------------------------------
(***************************************************************************)
(* The TIVA board (tiva.c, temp.c, msg.c) under FreeRTOS: main_task, which *)
(* connects and then routes, temp_task with its heartbeat, and the timer   *)
(* task, in which temp_read runs.  Every queue operation has a timeout.    *)
(*                                                                         *)
(* Time is counted in units of TEMP_HEARTBEAT_MS.  A task of a lower       *)
(* priority runs only when none of a higher one is ready (timers 4, main   *)
(* 2, temperature 1), and a unit passes only when none is: what the tasks  *)
(* compute takes no time.                                                  *)
(***************************************************************************)
EXTENDS Integers, Sequences

CONSTANTS
  MSG_MAXMSGS,                  \* capacity of a message queue
  configTIMER_QUEUE_LENGTH,     \* capacity of the timer task's queue
  TEMP_HEARTBEAT_MS, TIVA_HEARTBEAT_PERIOD, TEMP_PER,
  SendTimeout,                  \* the 500 ticks of msg_send and msg_route
  timeOut,                      \* of the socket
  ApiMsgs,                      \* what other code may send to the tasks
  ApiBudget,                    \* bound: how many of them
  StallCap                      \* bound of the histories stall and since

Byte == 0..255
DEFS_ID_BBG == 0
DEFS_ID_TIVA == 1
DEFS_TASK_TIVA == 0
DEFS_TASK_TEMP == 1
DEFS_TASK_GAS == 2
DEFS_TASK_SPEAK == 1
DEFS_TASK_LOG == 2
LOG_LOG == 1
TIVA_HEARTBEAT == 0
TEMP_PERIOD == 1
TEMP_KILL == 4

Msg == [from : Byte, devt : Byte, to : Byte, cmd : Byte]
Message(f, d, t, c) == [from |-> f, devt |-> d, to |-> t, cmd |-> c]
Heartbeat == Message(DEFS_TASK_TEMP, DEFS_ID_TIVA, DEFS_TASK_TIVA, TIVA_HEARTBEAT)
Line == Message(DEFS_TASK_TEMP, DEFS_ID_BBG, DEFS_TASK_LOG, LOG_LOG)
Sentence == Message(DEFS_TASK_TEMP, DEFS_ID_BBG, DEFS_TASK_SPEAK, LOG_LOG)
Connected == Message(DEFS_TASK_TIVA, DEFS_ID_BBG, DEFS_TASK_LOG, LOG_LOG)

(* A command (re)starts a timer, which then has this many units left: it   *)
(* carries the time it was given, which may be long ago.                   *)
Timers == {"read", "temp_hb", "gas_hb"}
Command == [timer : Timers, left : Int]
Period(t) == IF t = "read" THEN TEMP_PER ELSE TIVA_HEARTBEAT_PERIOD

ASSUME TimeAssumption ==
  /\ TEMP_HEARTBEAT_MS \in Nat \ {0} /\ TIVA_HEARTBEAT_PERIOD \in Nat \ {0}
  /\ TEMP_PER \in Nat \ {0} /\ SendTimeout \in Nat \ {0} /\ timeOut \in Nat
  /\ StallCap \in Nat
ASSUME QueueAssumption ==
  /\ MSG_MAXMSGS \in Nat \ {0} /\ configTIMER_QUEUE_LENGTH \in Nat \ {0}
  /\ ApiBudget \in Nat
  /\ ApiMsgs \subseteq {m \in Msg : m.devt = DEFS_ID_TIVA
                          /\ m.to \in {DEFS_TASK_TIVA, DEFS_TASK_TEMP}}

VARIABLES
  main_queue, temp_queue,       \* msg_queues of main_task and temp_task
  pc,                           \* where each task is
  rec_msg,                      \* the message main_task works on
  wait,                         \* units until a blocked task gives up
  blocked,                      \* FreeRTOS_send finds no room in the stream
  commands,                     \* xTimerQueue, the timer task's queue
  running, due,                 \* active timers, units until they expire
  free,                         \* units main_task now waits for work, up to
                                \* one more than a heartbeat
  stall,                        \* units since it did for longer than a heartbeat
  since,                        \* units since it last took a message
  used                          \* messages of ApiMsgs sent so far

queueVars == <<main_queue, temp_queue>>
timerVars == <<commands, running, due>>
histVars == <<free, stall, since, used>>
vars == <<queueVars, pc, rec_msg, wait, blocked, timerVars, histVars>>

Init ==
  /\ main_queue = <<>> /\ temp_queue = <<>>
  /\ pc = [main |-> "connect", temp |-> "start", timer |-> "select"]
  /\ rec_msg = Heartbeat
  /\ wait = [main |-> 0, temp |-> 0, timer |-> 0]
  /\ blocked = FALSE
  /\ commands = <<>> /\ running = {} /\ due = [t \in Timers |-> 0]
  /\ free = 0 /\ stall = 0 /\ since = 0 /\ used = 0

-----------------------------------------------------------------------------
(* Who is ready to run. *)
HasRoom(q) == Len(q) < MSG_MAXMSGS
CommandRoom == Len(commands) < configTIMER_QUEUE_LENGTH
Expired(t) == t \in running /\ due[t] <= 0

SendReturns_Forever == ~blocked
SendReturns == ~blocked \/ wait["main"] = 0

TimerReady ==
  \/ pc["timer"] = "select" /\ (commands # <<>> \/ \E t \in Timers : Expired(t))
  \/ pc["timer"] = "drain"
  \/ pc["timer"] \in {"line", "sentence"} /\ (HasRoom(main_queue) \/ wait["timer"] = 0)
MainReady ==
  \/ pc["main"] = "hello" /\ (HasRoom(main_queue) \/ wait["main"] = 0)
  \/ pc["main"] \in {"start_temp", "start_gas", "reset"} /\ CommandRoom
  \/ pc["main"] = "recv" /\ main_queue # <<>>
  \/ pc["main"] = "write" /\ SendReturns
  \/ pc["main"] = "route" /\ (HasRoom(temp_queue) \/ wait["main"] = 0)
TempReady ==
  \/ pc["temp"] = "start" /\ CommandRoom
  \/ pc["temp"] = "recv" /\ (temp_queue # <<>> \/ wait["temp"] = 0)
  \/ pc["temp"] = "beat" /\ (HasRoom(main_queue) \/ wait["temp"] = 0)

MainMayRun == ~TimerReady
TempMayRun == ~TimerReady /\ ~MainReady

(* Task k goes to l, where it waits for at most n units. *)
Await(k, l, n) ==
  /\ pc' = [pc EXCEPT ![k] = l]
  /\ wait' = [wait EXCEPT ![k] = n]
Goto(k, l) == Await(k, l, 0)

(* xQueueSend by task k: it waits for room, and gives the message up when   *)
(* its time is over; nobody looks at the result.                           *)
QueueSend(k, q, m) ==
  \/ HasRoom(q) /\ q' = Append(q, m)
  \/ ~HasRoom(q) /\ wait[k] = 0 /\ q' = q
msg_send(k, m) == QueueSend(k, main_queue, m) /\ UNCHANGED temp_queue

(* xTimerStart and xTimerReset wait for room for ever. *)
Issue(t) ==
  /\ CommandRoom
  /\ commands' = Append(commands, [timer |-> t, left |-> Period(t)])
  /\ UNCHANGED <<running, due>>

-----------------------------------------------------------------------------
(* the timer task: one timer that has expired, then all the commands *)

(* Timer t runs for n more units.  If its time is over it is started again  *)
(* by a command of the timer task itself, which does not wait for room and *)
(* stops the system if there is none (configASSERT): see ReloadsFit.       *)
Insert(t, n, rest, again) ==
  IF n > 0
  THEN /\ running' = running \cup {t} /\ due' = [due EXCEPT ![t] = n]
       /\ commands' = rest
  ELSE /\ Len(rest) < configTIMER_QUEUE_LENGTH
       /\ running' = running \ {t} /\ due' = [due EXCEPT ![t] = 0]
       /\ commands' = Append(rest, [timer |-> t, left |-> again])

(* The earliest one first.  The callbacks of the heartbeats are empty.     *)
prvProcessExpiredTimer(t) ==
  /\ pc["timer"] = "select" /\ Expired(t)
  /\ \A u \in Timers : Expired(u) => due[t] <= due[u]
  /\ Insert(t, due[t] + Period(t), commands, due[t] + Period(t))
  /\ IF t = "read" THEN Await("timer", "line", SendTimeout)
                   ELSE Goto("timer", "drain")
  /\ UNCHANGED <<queueVars, rec_msg, blocked, histVars>>

vQueueWaitForMessageRestricted ==
  /\ pc["timer"] = "select" /\ commands # <<>> /\ \A t \in Timers : ~Expired(t)
  /\ Goto("timer", "drain")
  /\ UNCHANGED <<queueVars, rec_msg, blocked, timerVars, histVars>>

(* A timer whose time is over when its command is read expires there; only *)
(* heartbeats do, whose callbacks are empty (ReloadsFit).                  *)
prvProcessReceivedCommands ==
  /\ pc["timer"] = "drain"
  /\ IF commands = <<>>
       THEN Goto("timer", "select") /\ UNCHANGED timerVars
       ELSE LET c == Head(commands) IN
            /\ Insert(c.timer, c.left, Tail(commands), c.left + Period(c.timer))
            /\ UNCHANGED <<pc, wait>>
  /\ UNCHANGED <<queueVars, rec_msg, blocked, histVars>>

temp_read_line_LongTimeout ==
  /\ pc["timer"] = "line"
  /\ msg_send("timer", Line)
  /\ Await("timer", "sentence", TEMP_PER)
  /\ UNCHANGED <<rec_msg, blocked, timerVars, histVars>>
temp_read_line_OneTimeout ==
  /\ pc["timer"] = "line"
  /\ msg_send("timer", Line)
  /\ Await("timer", "sentence", wait["timer"])
  /\ UNCHANGED <<rec_msg, blocked, timerVars, histVars>>

(* temp_read sends a line for the log and a sentence, whatever it read.     *)
temp_read_line ==
  /\ pc["timer"] = "line"
  /\ msg_send("timer", Line)
  /\ Await("timer", "sentence", SendTimeout)
  /\ UNCHANGED <<rec_msg, blocked, timerVars, histVars>>
temp_read_sentence ==
  /\ pc["timer"] = "sentence"
  /\ msg_send("timer", Sentence)
  /\ Goto("timer", "drain")
  /\ UNCHANGED <<rec_msg, blocked, timerVars, histVars>>

-----------------------------------------------------------------------------
(* main_task *)

(* The network comes up, and FreeRTOS_connect is called until it succeeds.  *)
tiva_open_socket ==
  /\ pc["main"] = "connect"
  /\ Await("main", "hello", SendTimeout)
  /\ UNCHANGED <<queueVars, rec_msg, blocked, timerVars, histVars>>

(* main_task sends to its own queue, which it does not yet read. *)
MainHello ==
  /\ MainMayRun /\ pc["main"] = "hello"
  /\ msg_send("main", Connected)
  /\ Goto("main", "start_temp")
  /\ UNCHANGED <<rec_msg, blocked, timerVars, histVars>>

MainStartTimer ==
  /\ MainMayRun
  /\ \/ pc["main"] = "start_temp" /\ Issue("temp_hb") /\ Goto("main", "start_gas")
     \/ pc["main"] = "start_gas" /\ Issue("gas_hb") /\ Goto("main", "recv")
  /\ UNCHANGED <<queueVars, rec_msg, blocked, histVars>>

(* Where main_task goes with message m.  tiva_exit does nothing. *)
Handle(m) ==
  IF m.devt # DEFS_ID_TIVA THEN Await("main", "write", timeOut)
  ELSE IF m.to # DEFS_TASK_TIVA THEN Await("main", "route", SendTimeout)
  ELSE IF m.cmd = TIVA_HEARTBEAT /\ m.from \in {DEFS_TASK_TEMP, DEFS_TASK_GAS}
         THEN Goto("main", "reset")
  ELSE Goto("main", "recv")

MainRecv ==
  /\ MainMayRun /\ pc["main"] = "recv" /\ main_queue # <<>>
  /\ rec_msg' = Head(main_queue)
  /\ main_queue' = Tail(main_queue)
  /\ Handle(Head(main_queue))
  /\ blocked' \in {FALSE, Head(main_queue).devt # DEFS_ID_TIVA}
  /\ since' = 0
  /\ UNCHANGED <<temp_queue, timerVars, free, stall, used>>

(* The result of FreeRTOS_send is not looked at: the message was sent, the   *)
(* connection is closed, or there was no room for timeOut.                 *)
MainWrite ==
  /\ MainMayRun /\ pc["main"] = "write" /\ SendReturns
  /\ blocked' = FALSE
  /\ Goto("main", "recv")
  /\ UNCHANGED <<queueVars, rec_msg, timerVars, histVars>>

msg_route ==
  /\ MainMayRun /\ pc["main"] = "route"
  /\ QueueSend("main", temp_queue, rec_msg)
  /\ Goto("main", "recv")
  /\ UNCHANGED <<main_queue, rec_msg, blocked, timerVars, histVars>>

tiva_heartbeat_Swapped ==
  /\ MainMayRun /\ pc["main"] = "reset"
  /\ Issue(IF rec_msg.from = DEFS_TASK_GAS THEN "temp_hb" ELSE "gas_hb")
  /\ Goto("main", "recv")
  /\ UNCHANGED <<queueVars, rec_msg, blocked, histVars>>
tiva_heartbeat_Both ==
  /\ MainMayRun /\ pc["main"] = "reset"
  /\ Len(commands) + 2 <= configTIMER_QUEUE_LENGTH
  /\ commands' = commands \o [i \in 1..2 |-> LET t == <<"temp_hb", "gas_hb">>[i] IN
                                             [timer |-> t, left |-> Period(t)]]
  /\ Goto("main", "recv")
  /\ UNCHANGED <<queueVars, rec_msg, blocked, running, due, histVars>>
tiva_heartbeat ==
  /\ MainMayRun /\ pc["main"] = "reset"
  /\ Issue(IF rec_msg.from = DEFS_TASK_TEMP THEN "temp_hb" ELSE "gas_hb")
  /\ Goto("main", "recv")
  /\ UNCHANGED <<queueVars, rec_msg, blocked, histVars>>

-----------------------------------------------------------------------------
(* temp_task *)

TempStart ==
  /\ TempMayRun /\ pc["temp"] = "start"
  /\ Issue("read")
  /\ Await("temp", "recv", TEMP_HEARTBEAT_MS)
  /\ UNCHANGED <<queueVars, rec_msg, blocked, histVars>>

(* TEMP_PERIOD falls through to TEMP_KILL; the timer never sees temp_per.   *)
(* The other commands only touch the sensor.                               *)
TempRecv ==
  /\ TempMayRun /\ pc["temp"] = "recv" /\ temp_queue # <<>>
  /\ temp_queue' = Tail(temp_queue)
  /\ IF Head(temp_queue).cmd \in {TEMP_PERIOD, TEMP_KILL}
       THEN Goto("temp", "dead")
       ELSE Await("temp", "beat", SendTimeout)
  /\ UNCHANGED <<main_queue, rec_msg, blocked, timerVars, histVars>>
TempTimeout ==
  /\ TempMayRun /\ pc["temp"] = "recv" /\ temp_queue = <<>> /\ wait["temp"] = 0
  /\ Await("temp", "beat", SendTimeout)
  /\ UNCHANGED <<queueVars, rec_msg, blocked, timerVars, histVars>>
TempBeat ==
  /\ TempMayRun /\ pc["temp"] = "beat"
  /\ msg_send("temp", Heartbeat)
  /\ Await("temp", "recv", TEMP_HEARTBEAT_MS)
  /\ UNCHANGED <<rec_msg, blocked, timerVars, histVars>>

-----------------------------------------------------------------------------
(* the environment *)

Quiet == ~TimerReady /\ ~MainReady /\ ~TempReady

Older(n) == IF n < StallCap THEN n + 1 ELSE n

(* One unit passes. *)
Tick ==
  /\ Quiet
  /\ wait' = [k \in DOMAIN wait |-> IF wait[k] > 0 THEN wait[k] - 1 ELSE 0]
  /\ due' = [t \in Timers |-> IF t \in running THEN due[t] - 1 ELSE due[t]]
  /\ commands' = [i \in DOMAIN commands |-> [commands[i] EXCEPT !.left = @ - 1]]
  /\ free' = IF pc["main"] # "recv" THEN 0
             ELSE IF free <= TEMP_HEARTBEAT_MS THEN free + 1 ELSE free
  /\ stall' = IF free' > TEMP_HEARTBEAT_MS THEN 0 ELSE Older(stall)
  /\ since' = Older(since)
  /\ UNCHANGED <<queueVars, pc, rec_msg, blocked, running, used>>

(* The other end makes room in the stream, or the connection is closed. *)
Unblock ==
  /\ blocked /\ blocked' = FALSE
  /\ UNCHANGED <<queueVars, pc, rec_msg, wait, timerVars, histVars>>

(* Some other task uses the tasks' API.  The timer task goes before it. *)
ApiSend ==
  /\ ~TimerReady
  /\ used < ApiBudget /\ HasRoom(main_queue)
  /\ \E m \in ApiMsgs : main_queue' = Append(main_queue, m)
  /\ used' = used + 1
  /\ UNCHANGED <<temp_queue, pc, rec_msg, wait, blocked, timerVars, free, stall, since>>

TimerNext == (\E t \in Timers : prvProcessExpiredTimer(t))
               \/ vQueueWaitForMessageRestricted \/ prvProcessReceivedCommands
               \/ temp_read_line \/ temp_read_sentence
MainNext == MainHello \/ MainStartTimer \/ MainRecv \/ MainWrite \/ msg_route
              \/ tiva_heartbeat
TempNext == TempStart \/ TempRecv \/ TempTimeout \/ TempBeat
EnvNext == tiva_open_socket \/ Unblock \/ ApiSend
Next == TimerNext \/ MainNext \/ TempNext \/ Tick \/ EnvNext

Spec == Init /\ [][Next]_vars

(* A task that stays ready runs, and time goes on.  Nothing is asked of    *)
(* the network.                                                            *)
Fairness ==
  /\ WF_vars(TimerNext) /\ WF_vars(MainNext) /\ WF_vars(TempNext)
  /\ WF_vars(Tick)
FairSpec == Spec /\ Fairness
=============================================================================
