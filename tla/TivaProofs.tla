----------------------------- MODULE TivaProofs -----------------------------
(***************************************************************************)
(* Theorems about the tasks of the TIVA board, for queues of every length, *)
(* all periods and timeouts and whatever other code sends to them.         *)
(***************************************************************************)
EXTENDS TivaProps, TLAPS

Tasks == {"main", "temp", "timer"}
Starting == {"connect", "hello", "start_temp"}
MainLabels == Starting \cup {"start_gas", "reset", "recv", "write", "route"}
TempLabels == {"start", "recv", "beat", "dead"}
TimerLabels == {"select", "drain", "line", "sentence"}

QueuesOK ==
  /\ main_queue \in Seq(Msg) /\ Len(main_queue) <= MSG_MAXMSGS
  /\ temp_queue \in Seq(Msg) /\ Len(temp_queue) <= MSG_MAXMSGS
  /\ rec_msg \in Msg /\ blocked \in BOOLEAN
TasksOK ==
  /\ pc \in [Tasks -> MainLabels \cup TempLabels \cup TimerLabels]
  /\ pc["main"] \in MainLabels /\ pc["temp"] \in TempLabels
  /\ pc["timer"] \in TimerLabels
  /\ wait \in [Tasks -> Nat]
TimersOK ==
  /\ commands \in Seq(Command) /\ running \in SUBSET Timers
  /\ due \in [Timers -> Int]
HistoriesOK == free \in Nat /\ stall \in Nat /\ since \in Nat /\ used \in Nat
TypeOK == QueuesOK /\ TasksOK /\ TimersOK /\ HistoriesOK

-----------------------------------------------------------------------------
(* The commands main_task may still give before temp_read, which runs in   *)
(* the timer task, gets on: the two of its start, or a reset.              *)
Owed ==
  IF pc["main"] \in Starting THEN 2
  ELSE IF pc["main"] \in {"start_gas", "reset"} THEN 1 ELSE 0
Given == Len(commands)
Sum == Given + Owed
Room == HasRoom(main_queue)

NoneExpired == \A t \in Timers : ~Expired(t)

(* While the timer task selects, a command is read before anything else    *)
(* runs; while it waits in temp_read, main_task gives commands, but for    *)
(* each message it takes the timer task goes one step on.                  *)
Counted ==
  /\ pc["timer"] = "select" =>
       Given <= 1 /\ (Given # 0 => NoneExpired)
  /\ pc["timer"] = "line" =>
       (~Room => Sum <= 2) /\ Sum <= 3
  /\ pc["timer"] = "sentence" =>
       (~Room => Sum <= 3) /\ Sum <= 4
  /\ Given <= 3
(* Until temp_task has started it there is no timer of temp_read.          *)
Unstarted ==
  pc["temp"] = "start" =>
    /\ "read" \notin running /\ pc["timer"] \in {"select", "drain"}
    /\ \A i \in DOMAIN commands : commands[i].timer # "read"
(* The command that starts that timer is read at once.                     *)
StartedAtOnce ==
  \A i \in DOMAIN commands : commands[i].timer = "read" =>
    commands[i].left = TEMP_PER /\ pc["timer"] \in {"select", "drain"}
(* temp_read is never late: it waits for two sends, no longer than its own *)
(* period.                                                                 *)
OnTime ==
  /\ pc["timer"] \in {"select", "drain"} => due["read"] >= 0
  /\ pc["timer"] = "line" =>
       /\ wait["timer"] <= SendTimeout
       /\ due["read"] >= TEMP_PER - SendTimeout + wait["timer"]
  /\ pc["timer"] = "sentence" =>
       /\ wait["timer"] <= SendTimeout
       /\ due["read"] >= TEMP_PER - 2 * SendTimeout + wait["timer"]
TimerInv == TypeOK /\ Counted /\ Unstarted /\ StartedAtOnce /\ OnTime

-----------------------------------------------------------------------------
(* The messages the tasks make are messages. *)
LEMMA MessagesTyped ==
  /\ Heartbeat \in Msg /\ Line \in Msg /\ Sentence \in Msg /\ Connected \in Msg
  /\ ApiMsgs \subseteq Msg
  BY QueueAssumption
     DEF Heartbeat, Line, Sentence, Connected, Message, Msg, Byte, DEFS_TASK_TEMP,
         DEFS_TASK_TIVA, DEFS_TASK_LOG, DEFS_TASK_SPEAK, DEFS_ID_TIVA, DEFS_ID_BBG,
         TIVA_HEARTBEAT, LOG_LOG

(* A task that goes somewhere leaves the others where they are. *)
LEMMA AwaitTypes ==
  ASSUME TasksOK, NEW k \in Tasks, NEW l, NEW n \in Nat, Await(k, l, n),
         \/ k = "main" /\ l \in MainLabels
         \/ k = "temp" /\ l \in TempLabels
         \/ k = "timer" /\ l \in TimerLabels
  PROVE  /\ TasksOK'
         /\ pc'[k] = l /\ wait'[k] = n
         /\ \A j \in Tasks \ {k} : pc'[j] = pc[j] /\ wait'[j] = wait[j]
  <1>1. /\ pc' = [pc EXCEPT ![k] = l] /\ wait' = [wait EXCEPT ![k] = n]
        /\ pc \in [Tasks -> MainLabels \cup TempLabels \cup TimerLabels]
        /\ wait \in [Tasks -> Nat]
    BY DEF Await, TasksOK
  <1>2. /\ pc' \in [Tasks -> MainLabels \cup TempLabels \cup TimerLabels]
        /\ wait' \in [Tasks -> Nat]
    BY <1>1
  <1>3. /\ pc'[k] = l /\ wait'[k] = n
        /\ \A j \in Tasks \ {k} : pc'[j] = pc[j] /\ wait'[j] = wait[j]
    BY <1>1
  <1>4. "main" \in Tasks /\ "temp" \in Tasks /\ "timer" \in Tasks
    BY DEF Tasks
  <1>5. /\ pc["main"] \in MainLabels /\ pc["temp"] \in TempLabels
        /\ pc["timer"] \in TimerLabels
    BY DEF TasksOK
  <1>6. /\ pc'["main"] \in MainLabels /\ pc'["temp"] \in TempLabels
        /\ pc'["timer"] \in TimerLabels
    BY <1>3, <1>4, <1>5
  <1> QED BY <1>2, <1>3, <1>6 DEF TasksOK

(* The same, for a step without a timeout. *)
LEMMA GotoTypes ==
  ASSUME TasksOK, NEW k \in Tasks, NEW l, Goto(k, l),
         \/ k = "main" /\ l \in MainLabels
         \/ k = "temp" /\ l \in TempLabels
         \/ k = "timer" /\ l \in TimerLabels
  PROVE  /\ TasksOK'
         /\ pc'[k] = l /\ wait'[k] = 0
         /\ \A j \in Tasks \ {k} : pc'[j] = pc[j] /\ wait'[j] = wait[j]
  <1>1. Await(k, l, 0) /\ 0 \in Nat
    BY DEF Goto
  <1> QED BY <1>1, AwaitTypes

(* A message is put into a queue that has room, and taken out of one that  *)
(* is not empty: both keep the queue's bound, and the second makes room.   *)
LEMMA QueueFacts ==
  /\ <<>> \in Seq(Msg) /\ Len(<<>>) <= MSG_MAXMSGS
  /\ \A q \in Seq(Msg), m \in Msg : HasRoom(q) =>
       /\ Append(q, m) \in Seq(Msg) /\ Len(Append(q, m)) = Len(q) + 1
       /\ Len(Append(q, m)) <= MSG_MAXMSGS
  /\ \A q \in Seq(Msg) : q # <<>> /\ Len(q) <= MSG_MAXMSGS =>
       /\ Tail(q) \in Seq(Msg) /\ Len(Tail(q)) = Len(q) - 1 /\ Head(q) \in Msg
       /\ Len(Tail(q)) <= MSG_MAXMSGS /\ HasRoom(Tail(q))
  BY QueueAssumption DEF HasRoom

(* A send puts the message at the end, or gives it up. *)
LEMMA SendTypes ==
  ASSUME QueuesOK, NEW k \in Tasks, NEW m \in Msg, msg_send(k, m),
         UNCHANGED <<rec_msg, blocked>>
  PROVE  /\ QueuesOK'
         /\ \/ Len(main_queue') = Len(main_queue) + 1 /\ HasRoom(main_queue)
            \/ main_queue' = main_queue /\ ~HasRoom(main_queue) /\ wait[k] = 0
  BY QueueFacts DEF QueuesOK, msg_send, QueueSend

(* A command for a timer goes to the end of the timer task's queue. *)
LEMMA IssueTypes ==
  ASSUME TimersOK, NEW t \in Timers, Issue(t)
  PROVE  /\ TimersOK'
         /\ Len(commands') = Len(commands) + 1
         /\ commands'[Len(commands) + 1] = [timer |-> t, left |-> Period(t)]
         /\ \A i \in DOMAIN commands : commands'[i] = commands[i]
         /\ DOMAIN commands' = DOMAIN commands \cup {Len(commands) + 1}
         /\ UNCHANGED <<running, due>>
  <1>1. [timer |-> t, left |-> Period(t)] \in Command
    BY TimeAssumption DEF Command, Period
  <1>2. commands \in Seq(Command) /\ UNCHANGED <<running, due>>
        /\ commands' = Append(commands, [timer |-> t, left |-> Period(t)])
    BY DEF TimersOK, Issue
  <1>3. /\ commands' \in Seq(Command) /\ Len(commands') = Len(commands) + 1
        /\ commands'[Len(commands) + 1] = [timer |-> t, left |-> Period(t)]
        /\ \A i \in 1..Len(commands) : commands'[i] = commands[i]
        /\ DOMAIN commands = 1..Len(commands) /\ Len(commands) \in Nat
        /\ DOMAIN commands' = 1..(Len(commands) + 1)
    BY <1>1, <1>2
  <1>4. DOMAIN commands' = DOMAIN commands \cup {Len(commands) + 1}
    BY <1>3
  <1> QED BY <1>2, <1>3, <1>4 DEF TimersOK

(* A timer that runs on, or gives itself a command because it is late. *)
LEMMA InsertTypes ==
  ASSUME TimersOK, NEW t \in Timers, NEW n \in Int, NEW rest \in Seq(Command),
         NEW again \in Int, Insert(t, n, rest, again)
  PROVE  /\ TimersOK'
         /\ \A u \in Timers \ {t} : due'[u] = due[u] /\ (u \in running' <=> u \in running)
         /\ n > 0 => commands' = rest /\ due'[t] = n
         /\ ~(n > 0) => /\ Len(commands') = Len(rest) + 1 /\ due'[t] = 0
                        /\ \A i \in DOMAIN commands' :
                             \/ i \in DOMAIN rest /\ commands'[i] = rest[i]
                             \/ commands'[i].timer = t
  <1>1. [timer |-> t, left |-> again] \in Command
    BY DEF Command
  <1>2. running \in SUBSET Timers /\ due \in [Timers -> Int]
    BY DEF TimersOK
  <1>3. CASE n > 0
    <2>1. /\ running' = running \cup {t} /\ due' = [due EXCEPT ![t] = n]
          /\ commands' = rest
      BY <1>3 DEF Insert
    <2> QED BY <1>2, <1>3, <2>1 DEF TimersOK
  <1>4. CASE ~(n > 0)
    <2>1. /\ running' = running \ {t} /\ due' = [due EXCEPT ![t] = 0]
          /\ commands' = Append(rest, [timer |-> t, left |-> again])
      BY <1>4 DEF Insert
    <2>2. commands' \in Seq(Command) /\ Len(commands') = Len(rest) + 1
      BY <1>1, <2>1
    <2>3. ASSUME NEW i \in DOMAIN commands'
          PROVE  \/ i \in DOMAIN rest /\ commands'[i] = rest[i]
                 \/ commands'[i].timer = t
      <3>1. /\ DOMAIN rest = 1..Len(rest) /\ Len(rest) \in Nat
            /\ DOMAIN commands' = 1..(Len(rest) + 1)
        BY <2>1
      <3>2. CASE i = Len(rest) + 1
        BY <2>1, <3>2
      <3>3. CASE i # Len(rest) + 1
        <4>1. i \in 1..Len(rest)
          BY <2>3, <3>1, <3>3
        <4> QED BY <2>1, <3>1, <4>1
      <3> QED BY <3>2, <3>3
    <2> QED BY <1>2, <1>4, <2>1, <2>2, <2>3 DEF TimersOK
  <1> QED BY <1>3, <1>4


(* The periods are numbers, and Timers has the three timers. *)
LEMMA Periods ==
  /\ \A t \in Timers : Period(t) \in Nat \ {0}
  /\ "read" \in Timers /\ "temp_hb" \in Timers /\ "gas_hb" \in Timers
  /\ Period("read") = TEMP_PER /\ SendTimeout \in Nat \ {0} /\ timeOut \in Nat
  /\ TEMP_HEARTBEAT_MS \in Nat /\ TEMP_PER \in Nat \ {0}
  BY TimeAssumption DEF Period, Timers

(* The commands of a step of the timer task. *)
LEMMA ExpiredTypes ==
  ASSUME TypeOK, NEW t \in Timers, prvProcessExpiredTimer(t)
  PROVE  /\ due[t] + Period(t) \in Int /\ commands \in Seq(Command)
         /\ Insert(t, due[t] + Period(t), commands, due[t] + Period(t))
         /\ TimersOK' /\ due[t] <= 0 /\ pc["timer"] = "select" /\ Expired(t)
         /\ t = "read" => Await("timer", "line", SendTimeout)
         /\ t # "read" => Goto("timer", "drain")
         /\ UNCHANGED <<queueVars, rec_msg, blocked, histVars>>
  <1>1. /\ due[t] + Period(t) \in Int /\ commands \in Seq(Command) /\ TimersOK
    BY Periods DEF TypeOK, TimersOK
  <1>2. /\ Insert(t, due[t] + Period(t), commands, due[t] + Period(t))
        /\ pc["timer"] = "select" /\ Expired(t)
        /\ t = "read" => Await("timer", "line", SendTimeout)
        /\ t # "read" => Goto("timer", "drain")
        /\ UNCHANGED <<queueVars, rec_msg, blocked, histVars>>
    BY DEF prvProcessExpiredTimer
  <1>3. TimersOK'
    BY <1>1, <1>2, InsertTypes
  <1> QED BY <1>1, <1>2, <1>3 DEF Expired

(* The timer task reads a command. *)
LEMMA DrainTypes ==
  ASSUME TypeOK, prvProcessReceivedCommands, commands # <<>>
  PROVE  LET c == Head(commands) IN
         /\ c \in Command /\ c.timer \in Timers /\ Tail(commands) \in Seq(Command)
         /\ c.left + Period(c.timer) \in Int /\ c.left \in Int
         /\ Insert(c.timer, c.left, Tail(commands), c.left + Period(c.timer))
         /\ TimersOK' /\ pc["timer"] = "drain"
         /\ Len(Tail(commands)) = Len(commands) - 1
         /\ c = commands[1] /\ 1 \in DOMAIN commands
         /\ \A i \in DOMAIN Tail(commands) :
              i + 1 \in DOMAIN commands /\ Tail(commands)[i] = commands[i + 1]
         /\ UNCHANGED <<queueVars, rec_msg, blocked, histVars, pc, wait>>
  <1> DEFINE c == Head(commands) rest == Tail(commands)
  <1>1. commands \in Seq(Command) /\ TimersOK
    BY DEF TypeOK, TimersOK
  <1>2. c \in Command /\ rest \in Seq(Command) /\ Len(rest) = Len(commands) - 1
        /\ c = commands[1] /\ 1 \in DOMAIN commands
        /\ \A i \in DOMAIN rest : i + 1 \in DOMAIN commands /\ rest[i] = commands[i + 1]
    BY <1>1
  <1>3. c.timer \in Timers /\ c.left \in Int
    BY <1>2 DEF Command
  <1>4. c.left + Period(c.timer) \in Int
    BY <1>3, Periods
  <1>5. /\ Insert(c.timer, c.left, rest, c.left + Period(c.timer))
        /\ pc["timer"] = "drain"
        /\ UNCHANGED <<queueVars, rec_msg, blocked, histVars, pc, wait>>
    BY DEF prvProcessReceivedCommands
  <1>6. TimersOK'
    <2> HIDE DEF c, rest
    <2> QED BY <1>1, <1>2, <1>3, <1>4, <1>5, InsertTypes
  <1> QED BY <1>2, <1>3, <1>4, <1>5, <1>6

(* The initial state is typed. *)
LEMMA TypeInit == Init => TypeOK
  <1> SUFFICES ASSUME Init PROVE TypeOK
    OBVIOUS
  <1>1. QueuesOK
    <2>1. blocked \in BOOLEAN
      BY Zenon DEF Init
    <2>2. main_queue = <<>> /\ temp_queue = <<>> /\ rec_msg \in Msg
      BY MessagesTyped DEF Init
    <2> QED BY <2>1, <2>2, QueueFacts DEF QueuesOK
  <1>2. TasksOK
    BY DEF Init, TasksOK, Tasks, MainLabels, TempLabels, TimerLabels, Starting
  <1>3. TimersOK
    BY DEF Init, TimersOK
  <1> QED BY <1>1, <1>2, <1>3 DEF Init, TypeOK, HistoriesOK

(* The steps of the timer task. *)
LEMMA TimerTypes == TypeOK /\ TimerNext => TypeOK'
  <1> SUFFICES ASSUME TypeOK, TimerNext PROVE TypeOK'
    OBVIOUS
  <1>a. QueuesOK /\ TasksOK /\ TimersOK /\ HistoriesOK /\ "timer" \in Tasks
    BY DEF TypeOK, Tasks
  <1>b. /\ "line" \in TimerLabels /\ "sentence" \in TimerLabels
        /\ "drain" \in TimerLabels /\ "select" \in TimerLabels
    BY DEF TimerLabels
  <1>1. ASSUME NEW t \in Timers, prvProcessExpiredTimer(t) PROVE TypeOK'
    <2>1. /\ TimersOK' /\ UNCHANGED <<queueVars, rec_msg, blocked, histVars>>
          /\ t = "read" => Await("timer", "line", SendTimeout)
          /\ t # "read" => Goto("timer", "drain")
      BY <1>1, ExpiredTypes
    <2>2. TasksOK'
      BY <1>a, <1>b, <2>1, AwaitTypes, GotoTypes, Periods
    <2> QED BY <1>a, <2>1, <2>2
            DEF TypeOK, QueuesOK, HistoriesOK, queueVars, histVars
  <1>2. CASE vQueueWaitForMessageRestricted
    <2>1. /\ Goto("timer", "drain")
          /\ UNCHANGED <<queueVars, rec_msg, blocked, timerVars, histVars>>
      BY <1>2 DEF vQueueWaitForMessageRestricted
    <2>2. TasksOK'
      BY <1>a, <1>b, <2>1, GotoTypes
    <2> QED BY <1>a, <2>1, <2>2
            DEF TypeOK, QueuesOK, TimersOK, HistoriesOK, queueVars, timerVars, histVars
  <1>3. CASE prvProcessReceivedCommands /\ commands = <<>>
    <2>1. /\ Goto("timer", "select")
          /\ UNCHANGED <<queueVars, rec_msg, blocked, timerVars, histVars>>
      BY <1>3 DEF prvProcessReceivedCommands
    <2>2. TasksOK'
      BY <1>a, <1>b, <2>1, GotoTypes
    <2> QED BY <1>a, <2>1, <2>2
            DEF TypeOK, QueuesOK, TimersOK, HistoriesOK, queueVars, timerVars, histVars
  <1>4. CASE prvProcessReceivedCommands /\ commands # <<>>
    <2>1. /\ TimersOK'
          /\ UNCHANGED <<queueVars, rec_msg, blocked, histVars, pc, wait>>
      BY <1>4, DrainTypes
    <2> QED BY <1>a, <2>1
            DEF TypeOK, QueuesOK, TasksOK, HistoriesOK, queueVars, histVars
  <1>5. CASE temp_read_line \/ temp_read_sentence
    <2>1. /\ \/ msg_send("timer", Line) /\ Await("timer", "sentence", SendTimeout)
             \/ msg_send("timer", Sentence) /\ Goto("timer", "drain")
          /\ UNCHANGED <<rec_msg, blocked, timerVars, histVars>>
      BY <1>5 DEF temp_read_line, temp_read_sentence
    <2>2. TasksOK'
      BY <1>a, <1>b, <2>1, AwaitTypes, GotoTypes, Periods
    <2>3. QueuesOK'
      BY <1>a, <2>1, SendTypes, MessagesTyped
    <2> QED BY <1>a, <2>1, <2>2, <2>3
            DEF TypeOK, TimersOK, HistoriesOK, timerVars, histVars
  <1> QED BY <1>1, <1>2, <1>3, <1>4, <1>5 DEF TimerNext

(* Where main_task may go with a message. *)
LEMMA HandleTypes ==
  ASSUME TasksOK, NEW m, Handle(m)
  PROVE  /\ TasksOK' /\ pc'["main"] \in {"write", "route", "reset", "recv"}
         /\ pc'["timer"] = pc["timer"] /\ wait'["timer"] = wait["timer"]
         /\ pc'["temp"] = pc["temp"]
  <1>1. \/ Await("main", "write", timeOut) \/ Await("main", "route", SendTimeout)
        \/ Await("main", "reset", 0) \/ Await("main", "recv", 0)
    BY DEF Handle, Goto
  <1>2. PICK l \in {"write", "route", "reset", "recv"},
             n \in {timeOut, SendTimeout, 0} : Await("main", l, n)
    BY <1>1
  <1>3. /\ n \in Nat /\ l \in MainLabels /\ "main" \in Tasks
        /\ "timer" \in Tasks \ {"main"} /\ "temp" \in Tasks \ {"main"}
    BY Periods DEF MainLabels, Tasks
  <1> QED BY <1>2, <1>3, AwaitTypes


(* The steps of main_task. *)
LEMMA MainTypes == TypeOK /\ MainNext => TypeOK'
  <1> SUFFICES ASSUME TypeOK, MainNext PROVE TypeOK'
    OBVIOUS
  <1>a. QueuesOK /\ TasksOK /\ TimersOK /\ HistoriesOK /\ "main" \in Tasks
    BY DEF TypeOK, Tasks
  <1>b. {"start_temp", "start_gas", "recv"} \subseteq MainLabels
    BY DEF MainLabels, Starting
  <1>1. CASE MainHello
    <2>1. /\ msg_send("main", Connected) /\ Goto("main", "start_temp")
          /\ UNCHANGED <<rec_msg, blocked, timerVars, histVars>>
      BY <1>1 DEF MainHello
    <2>2. TasksOK' /\ QueuesOK'
      BY <1>a, <1>b, <2>1, GotoTypes, SendTypes, MessagesTyped
    <2> QED BY <1>a, <2>1, <2>2 DEF TypeOK, TimersOK, HistoriesOK, timerVars, histVars
  <1>2. CASE MainStartTimer \/ tiva_heartbeat
    <2>1. /\ \E t \in Timers : Issue(t)
          /\ \E l \in {"start_gas", "recv"} : Goto("main", l)
          /\ UNCHANGED <<queueVars, rec_msg, blocked, histVars>>
      BY <1>2, Periods DEF MainStartTimer, tiva_heartbeat
    <2>2. TasksOK' /\ TimersOK'
      BY <1>a, <1>b, <2>1, GotoTypes, IssueTypes
    <2> QED BY <1>a, <2>1, <2>2 DEF TypeOK, QueuesOK, HistoriesOK, queueVars, histVars
  <1>3. CASE MainRecv
    <2>1. /\ rec_msg' = Head(main_queue) /\ main_queue' = Tail(main_queue)
          /\ main_queue # <<>> /\ Handle(Head(main_queue))
          /\ blocked' \in {FALSE, Head(main_queue).devt # DEFS_ID_TIVA}
          /\ since' = 0 /\ UNCHANGED <<temp_queue, timerVars, free, stall, used>>
      BY <1>3 DEF MainRecv
    <2>2. TasksOK'
      BY <1>a, <2>1, HandleTypes
    <2>3. /\ rec_msg' \in Msg /\ main_queue' \in Seq(Msg) /\ temp_queue' \in Seq(Msg)
          /\ Len(main_queue') <= MSG_MAXMSGS /\ Len(temp_queue') <= MSG_MAXMSGS
      BY <1>a, <2>1, QueueFacts DEF QueuesOK
    <2>4. blocked' \in BOOLEAN
      BY <2>1, Zenon
    <2> QED BY <1>a, <2>1, <2>2, <2>3, <2>4
            DEF TypeOK, QueuesOK, TimersOK, HistoriesOK, timerVars
  <1>4. CASE MainWrite
    <2>1. /\ blocked' = FALSE /\ Goto("main", "recv")
          /\ UNCHANGED <<queueVars, rec_msg, timerVars, histVars>>
      BY <1>4 DEF MainWrite
    <2>2. TasksOK'
      BY <1>a, <1>b, <2>1, GotoTypes
    <2>3. blocked' \in BOOLEAN
      BY <2>1, Zenon
    <2> QED BY <1>a, <2>1, <2>2, <2>3
            DEF TypeOK, QueuesOK, TimersOK, HistoriesOK, queueVars, timerVars, histVars
  <1>5. CASE msg_route
    <2>1. /\ \/ temp_queue' = Append(temp_queue, rec_msg) /\ HasRoom(temp_queue)
             \/ temp_queue' = temp_queue
          /\ Goto("main", "recv")
          /\ UNCHANGED <<main_queue, rec_msg, blocked, timerVars, histVars>>
      BY <1>5 DEF msg_route, QueueSend
    <2>2. TasksOK' /\ QueuesOK'
      BY <1>a, <1>b, <2>1, GotoTypes, QueueFacts DEF QueuesOK
    <2> QED BY <1>a, <2>1, <2>2
            DEF TypeOK, TimersOK, HistoriesOK, timerVars, histVars
  <1> QED BY <1>1, <1>2, <1>3, <1>4, <1>5 DEF MainNext

(* The steps of temp_task. *)
LEMMA TempTypes == TypeOK /\ TempNext => TypeOK'
  <1> SUFFICES ASSUME TypeOK, TempNext PROVE TypeOK'
    OBVIOUS
  <1>a. QueuesOK /\ TasksOK /\ TimersOK /\ HistoriesOK /\ "temp" \in Tasks
    BY DEF TypeOK, Tasks
  <1>b. {"recv", "beat", "dead"} \subseteq TempLabels
    BY DEF TempLabels
  <1>1. CASE TempStart
    <2>1. /\ Issue("read") /\ Await("temp", "recv", TEMP_HEARTBEAT_MS)
          /\ UNCHANGED <<queueVars, rec_msg, blocked, histVars>>
      BY <1>1 DEF TempStart
    <2>2. TasksOK' /\ TimersOK'
      BY <1>a, <1>b, <2>1, AwaitTypes, IssueTypes, Periods
    <2> QED BY <1>a, <2>1, <2>2 DEF TypeOK, QueuesOK, HistoriesOK, queueVars, histVars
  <1>2. CASE TempRecv \/ TempTimeout
    <2>1. /\ \/ temp_queue # <<>> /\ temp_queue' = Tail(temp_queue)
             \/ temp_queue' = temp_queue
          /\ \E l \in {"dead", "beat"}, n \in {0, SendTimeout} : Await("temp", l, n)
          /\ UNCHANGED <<main_queue, rec_msg, blocked, timerVars, histVars>>
      BY <1>2 DEF TempRecv, TempTimeout, Goto, queueVars
    <2>2. TasksOK'
      <3>1. PICK l \in {"dead", "beat"}, n \in {0, SendTimeout} : Await("temp", l, n)
        BY <2>1
      <3>2. n \in Nat /\ l \in TempLabels
        BY <1>b, Periods
      <3> QED BY <1>a, <3>1, <3>2, AwaitTypes
    <2>3. QueuesOK'
      BY <1>a, <2>1, QueueFacts DEF QueuesOK
    <2> QED BY <1>a, <2>1, <2>2, <2>3
            DEF TypeOK, TimersOK, HistoriesOK, timerVars, histVars
  <1>3. CASE TempBeat
    <2>1. /\ msg_send("temp", Heartbeat) /\ Await("temp", "recv", TEMP_HEARTBEAT_MS)
          /\ UNCHANGED <<rec_msg, blocked, timerVars, histVars>>
      BY <1>3 DEF TempBeat
    <2>2. TasksOK' /\ QueuesOK'
      BY <1>a, <1>b, <2>1, AwaitTypes, SendTypes, MessagesTyped, Periods
    <2> QED BY <1>a, <2>1, <2>2
            DEF TypeOK, TimersOK, HistoriesOK, timerVars, histVars
  <1> QED BY <1>1, <1>2, <1>3 DEF TempNext

(* main_task's free time after a unit. *)
Freer ==
  IF pc["main"] # "recv" THEN 0
  ELSE IF free <= TEMP_HEARTBEAT_MS THEN free + 1 ELSE free

(* The commands that wait while a unit passes have a unit less left. *)
LEMMA TickTypes ==
  ASSUME TypeOK, Tick
  PROVE  /\ TypeOK' /\ UNCHANGED <<queueVars, pc, running>>
         /\ Len(commands') = Len(commands) /\ DOMAIN commands' = DOMAIN commands
         /\ \A i \in DOMAIN commands : /\ commands'[i].timer = commands[i].timer
                                       /\ commands'[i].left = commands[i].left - 1
         /\ \A t \in Timers : due'[t] = IF t \in running THEN due[t] - 1 ELSE due[t]
         /\ \A k \in Tasks : wait'[k] = IF wait[k] > 0 THEN wait[k] - 1 ELSE 0
         /\ since' = Older(since)
         /\ free' = Freer /\ stall' = IF Freer > TEMP_HEARTBEAT_MS THEN 0 ELSE Older(stall)
  <1>1. /\ wait' = [k \in DOMAIN wait |-> IF wait[k] > 0 THEN wait[k] - 1 ELSE 0]
        /\ due' = [t \in Timers |-> IF t \in running THEN due[t] - 1 ELSE due[t]]
        /\ commands' = [i \in DOMAIN commands |-> [commands[i] EXCEPT !.left = @ - 1]]
        /\ free' = Freer /\ stall' = IF free' > TEMP_HEARTBEAT_MS THEN 0 ELSE Older(stall)
        /\ since' = Older(since)
        /\ UNCHANGED <<queueVars, pc, rec_msg, blocked, running, used>>
    BY DEF Tick, Freer
  <1>2. /\ wait \in [Tasks -> Nat] /\ due \in [Timers -> Int]
        /\ commands \in Seq(Command)
        /\ free \in Nat /\ stall \in Nat /\ since \in Nat
    BY DEF TypeOK, TasksOK, TimersOK, HistoriesOK
  <1>3. wait' \in [Tasks -> Nat] /\ due' \in [Timers -> Int]
    BY <1>1, <1>2
  <1>4. free' \in Nat /\ stall' \in Nat /\ since' \in Nat
    BY <1>1, <1>2 DEF Older, Freer
  <1>5. ASSUME NEW i \in DOMAIN commands
        PROVE  /\ commands'[i] \in Command
               /\ commands'[i].timer = commands[i].timer
               /\ commands'[i].left = commands[i].left - 1
    <2>1. commands[i] \in Command
      BY <1>2
    <2>2. commands'[i] = [commands[i] EXCEPT !.left = @ - 1]
      BY <1>1
    <2> QED BY <2>1, <2>2 DEF Command
  <1>6. /\ commands' \in Seq(Command) /\ Len(commands') = Len(commands)
        /\ DOMAIN commands' = DOMAIN commands
    <2>1. DOMAIN commands = 1..Len(commands) /\ Len(commands) \in Nat
      BY <1>2
    <2>2. commands' \in [1..Len(commands) -> Command]
      BY <1>1, <1>5, <2>1
    <2> QED BY <2>1, <2>2
  <1>7. TypeOK'
    BY <1>1, <1>3, <1>4, <1>6
       DEF TypeOK, QueuesOK, TasksOK, TimersOK, HistoriesOK, queueVars
  <1> QED BY <1>1, <1>2, <1>5, <1>6, <1>7

(* The steps of the environment. *)
LEMMA EnvTypes == TypeOK /\ EnvNext => TypeOK'
  <1> SUFFICES ASSUME TypeOK, EnvNext PROVE TypeOK'
    OBVIOUS
  <1>a. QueuesOK /\ TasksOK /\ TimersOK /\ HistoriesOK /\ "main" \in Tasks
    BY DEF TypeOK, Tasks
  <1>1. CASE tiva_open_socket
    <2>1. /\ Await("main", "hello", SendTimeout) /\ "hello" \in MainLabels
          /\ UNCHANGED <<queueVars, rec_msg, blocked, timerVars, histVars>>
      BY <1>1 DEF tiva_open_socket, MainLabels, Starting
    <2>2. TasksOK'
      BY <1>a, <2>1, AwaitTypes, Periods
    <2> QED BY <1>a, <2>1, <2>2
            DEF TypeOK, QueuesOK, TimersOK, HistoriesOK, queueVars, timerVars, histVars
  <1>2. CASE Unblock
    <2>1. /\ blocked' = FALSE
          /\ UNCHANGED <<queueVars, pc, rec_msg, wait, timerVars, histVars>>
      BY <1>2 DEF Unblock
    <2>2. blocked' \in BOOLEAN
      BY <2>1, Zenon
    <2> QED BY <1>a, <2>1, <2>2
            DEF TypeOK, QueuesOK, TasksOK, TimersOK, HistoriesOK, queueVars,
                timerVars, histVars
  <1>3. CASE ApiSend
    <2>1. /\ \E m \in Msg : main_queue' = Append(main_queue, m) /\ HasRoom(main_queue)
          /\ used' = used + 1
          /\ UNCHANGED <<temp_queue, pc, rec_msg, wait, blocked, timerVars>>
          /\ UNCHANGED <<free, stall, since>>
      BY <1>3, MessagesTyped DEF ApiSend
    <2>2. QueuesOK'
      BY <1>a, <2>1, QueueFacts DEF QueuesOK
    <2> QED BY <1>a, <2>1, <2>2 DEF TypeOK, TasksOK, TimersOK, HistoriesOK, timerVars
  <1> QED BY <1>1, <1>2, <1>3 DEF EnvNext

(* Every step keeps the types. *)
LEMMA TypeInductive == TypeOK /\ [Next]_vars => TypeOK'
  <1>1. TypeOK /\ UNCHANGED vars => TypeOK'
    BY DEF vars, queueVars, timerVars, histVars, TypeOK, QueuesOK, TasksOK,
           TimersOK, HistoriesOK
  <1> QED BY <1>1, TimerTypes, MainTypes, TempTypes, TickTypes, EnvTypes DEF Next

(* Every variable keeps its type, whatever other code sends. *)
THEOREM TypeCorrect == Spec => []TypeOK
  BY TypeInit, TypeInductive, PTL DEF Spec


-----------------------------------------------------------------------------
(* The numbers the invariants count with. *)
LEMMA Counts ==
  TypeOK => /\ Given \in Nat /\ Owed \in {0, 1, 2} /\ Room \in BOOLEAN
            /\ (commands = <<>>) = (Given = 0)
            /\ wait["timer"] \in Nat /\ since \in Nat
            /\ \A t \in Timers : due[t] \in Int
  <1> SUFFICES ASSUME TypeOK
               PROVE  /\ Given \in Nat /\ Owed \in {0, 1, 2} /\ Room \in BOOLEAN
                      /\ (commands = <<>>) = (Given = 0)
                      /\ wait["timer"] \in Nat /\ since \in Nat
                      /\ \A t \in Timers : due[t] \in Int
    OBVIOUS
  <1>1. commands \in Seq(Command)
    BY DEF TypeOK, TimersOK
  <1>2. Given \in Nat /\ (commands = <<>>) = (Given = 0)
    BY <1>1 DEF Given
  <1>3. Room \in BOOLEAN
    BY DEF Room, HasRoom
  <1>4. wait["timer"] \in Nat /\ since \in Nat /\ \A t \in Timers : due[t] \in Int
    BY DEF TypeOK, TasksOK, TimersOK, HistoriesOK, Tasks
  <1> QED BY <1>2, <1>3, <1>4 DEF Owed

CountsOK ==
  /\ Given \in Nat /\ Owed \in Nat /\ Owed <= 2
  /\ Given = 0 => commands = <<>>

(* They are numbers after a step, too.                                     *)
LEMMA CountsNext == (TypeOK => CountsOK) /\ (TypeOK' => CountsOK')
  <1>1. TypeOK => CountsOK
    BY Counts DEF CountsOK
  <1> QED BY <1>1, PTL

(* What holds of the timer task while a task of lower priority runs, or    *)
(* nobody does.                                                            *)
LEMMA Waiting ==
  ASSUME TypeOK, ~TimerReady
  PROVE  /\ pc["timer"] = "select" =>
              Given = 0 /\ commands = <<>> /\ \A t \in Timers : ~Expired(t)
         /\ pc["timer"] # "drain"
         /\ pc["timer"] \in {"line", "sentence"} => ~Room /\ wait["timer"] # 0
  BY Counts DEF TimerReady, Room

(* A step of another task: the timers run on, and the timer task waits.    *)
TimerStays ==
  /\ UNCHANGED <<running, due>>
  /\ pc'["timer"] = pc["timer"] /\ wait'["timer"] = wait["timer"]
(* No command for temp_read's timer is new. *)
NoNewRead ==
  \A i \in DOMAIN commands' :
    \/ i \in DOMAIN commands /\ commands'[i] = commands[i]
    \/ commands'[i].timer # "read"

(* A step that gives the timer task no command and takes no message. *)
LeavesTimer ==
  /\ UNCHANGED commands /\ Owed' = Owed /\ UNCHANGED since
  /\ ~Room => ~Room'
  /\ Room => Room' \/ ~TimerReady
GivesCommand ==
  /\ Given' = Given + 1 /\ Owed = Owed' + 1
  /\ NoNewRead /\ Room' = Room /\ UNCHANGED since
TakesMessage ==
  UNCHANGED commands /\ Owed = 0 /\ Owed' \in {0, 1} /\ Room' /\ since' = 0

(* A step of main_task is one of the three. *)
LEMMA MainSteps ==
  ASSUME TypeOK, MainNext
  PROVE  /\ TimerStays /\ ~TimerReady /\ pc'["temp"] = pc["temp"]
         /\ LeavesTimer \/ GivesCommand \/ TakesMessage
  <1>a. /\ QueuesOK /\ TasksOK /\ TimersOK /\ "main" \in Tasks
        /\ {"timer", "temp"} \subseteq Tasks \ {"main"}
    BY DEF TypeOK, Tasks
  <1>b. {"start_temp", "start_gas", "recv"} \subseteq MainLabels
    BY DEF MainLabels, Starting
  <1>1. CASE MainHello
    <2>1. /\ msg_send("main", Connected) /\ Goto("main", "start_temp") /\ ~TimerReady
          /\ pc["main"] = "hello"
          /\ UNCHANGED <<rec_msg, blocked, timerVars, histVars>>
      BY <1>1 DEF MainHello, MainMayRun
    <2>2. /\ pc'["main"] = "start_temp" /\ pc'["timer"] = pc["timer"]
          /\ wait'["timer"] = wait["timer"] /\ pc'["temp"] = pc["temp"]
      BY <1>a, <1>b, <2>1, GotoTypes
    <2>3. ~Room => ~Room'
      BY <1>a, <2>1, SendTypes, MessagesTyped DEF Room
    <2>4. Owed' = Owed
      BY <2>1, <2>2 DEF Owed, Starting
    <2> QED BY <2>1, <2>2, <2>3, <2>4
            DEF TimerStays, LeavesTimer, timerVars, histVars
  <1>2. CASE MainStartTimer \/ tiva_heartbeat
    <2>1. PICK t \in {"temp_hb", "gas_hb"}, l \in {"start_gas", "recv"} :
            /\ Issue(t) /\ Goto("main", l) /\ ~TimerReady
            /\ pc["main"] \in {"start_temp", "start_gas", "reset"}
            /\ (pc["main"] = "start_temp") = (l = "start_gas")
            /\ UNCHANGED <<queueVars, rec_msg, blocked, histVars>>
      BY <1>2 DEF MainStartTimer, tiva_heartbeat, MainMayRun
    <2>2. /\ pc'["main"] = l /\ pc'["timer"] = pc["timer"]
          /\ wait'["timer"] = wait["timer"] /\ pc'["temp"] = pc["temp"]
      BY <1>a, <1>b, <2>1, GotoTypes
    <2>3. t \in Timers /\ t # "read"
      BY <2>1, Periods
    <2>4. /\ Given' = Given + 1 /\ UNCHANGED <<running, due>>
          /\ commands'[Len(commands) + 1] = [timer |-> t, left |-> Period(t)]
          /\ \A i \in DOMAIN commands : commands'[i] = commands[i]
          /\ DOMAIN commands' = DOMAIN commands \cup {Len(commands) + 1}
      BY <1>a, <2>1, <2>3, IssueTypes DEF Given
    <2>5. NoNewRead
      BY <2>3, <2>4 DEF NoNewRead
    <2>6. Owed = Owed' + 1
      BY <2>1, <2>2 DEF Owed, Starting
    <2>7. Room' = Room /\ UNCHANGED since
      BY <2>1 DEF Room, HasRoom, queueVars, histVars
    <2> QED BY <2>1, <2>2, <2>4, <2>5, <2>6, <2>7 DEF TimerStays, GivesCommand
  <1>3. CASE MainRecv
    <2>1. /\ ~TimerReady /\ pc["main"] = "recv" /\ main_queue # <<>>
          /\ main_queue' = Tail(main_queue) /\ Handle(Head(main_queue))
          /\ since' = 0 /\ UNCHANGED timerVars
      BY <1>3 DEF MainRecv, MainMayRun
    <2>2. /\ pc'["main"] \in {"write", "route", "reset", "recv"}
          /\ pc'["timer"] = pc["timer"] /\ wait'["timer"] = wait["timer"]
          /\ pc'["temp"] = pc["temp"]
      BY <1>a, <2>1, HandleTypes
    <2>3. Room'
      BY <1>a, <2>1, QueueFacts DEF QueuesOK, Room
    <2>4. Owed = 0 /\ Owed' \in {0, 1}
      BY <2>1, <2>2 DEF Owed, Starting
    <2> QED BY <2>1, <2>2, <2>3, <2>4 DEF TimerStays, TakesMessage, timerVars
  <1>4. CASE MainWrite \/ msg_route
    <2>1. /\ ~TimerReady /\ pc["main"] \in {"write", "route"} /\ Goto("main", "recv")
          /\ UNCHANGED <<main_queue, timerVars, histVars>>
      BY <1>4 DEF MainWrite, msg_route, MainMayRun, queueVars
    <2>2. /\ pc'["main"] = "recv" /\ pc'["timer"] = pc["timer"]
          /\ wait'["timer"] = wait["timer"] /\ pc'["temp"] = pc["temp"]
      BY <1>a, <1>b, <2>1, GotoTypes
    <2>3. Owed' = Owed /\ Room' = Room
      BY <2>1, <2>2 DEF Owed, Starting, Room, HasRoom
    <2> QED BY <2>1, <2>2, <2>3 DEF TimerStays, LeavesTimer, timerVars, histVars
  <1> QED BY <1>1, <1>2, <1>3, <1>4 DEF MainNext

(* A step of temp_task after its start, of the environment, or none. *)
LEMMA OtherSteps ==
  ASSUME TypeOK, TempRecv \/ TempTimeout \/ TempBeat \/ EnvNext \/ UNCHANGED vars
  PROVE  /\ TimerStays /\ LeavesTimer
         /\ pc'["temp"] = "start" <=> pc["temp"] = "start"
  <1>a. /\ QueuesOK /\ TasksOK /\ TimersOK /\ "main" \in Tasks /\ "temp" \in Tasks
        /\ {"timer", "temp"} \subseteq Tasks \ {"main"}
        /\ {"timer", "main"} \subseteq Tasks \ {"temp"}
    BY DEF TypeOK, Tasks
  <1>1. CASE TempRecv \/ TempTimeout
    <2>1. /\ pc["temp"] = "recv"
          /\ \E l \in {"dead", "beat"}, n \in {0, SendTimeout} : Await("temp", l, n)
          /\ UNCHANGED <<main_queue, rec_msg, blocked, timerVars, histVars>>
      BY <1>1 DEF TempRecv, TempTimeout, Goto, queueVars
    <2>2. PICK l \in {"dead", "beat"}, n \in {0, SendTimeout} : Await("temp", l, n)
      BY <2>1
    <2>3. n \in Nat /\ l \in TempLabels
      BY Periods DEF TempLabels
    <2>4. /\ pc'["temp"] = l /\ pc'["timer"] = pc["timer"] /\ pc'["main"] = pc["main"]
          /\ wait'["timer"] = wait["timer"]
      BY <1>a, <2>2, <2>3, AwaitTypes
    <2>5. Owed' = Owed /\ Room' = Room
      BY <2>1, <2>4 DEF Owed, Room, HasRoom
    <2> QED BY <2>1, <2>4, <2>5 DEF TimerStays, LeavesTimer, timerVars, histVars
  <1>2. CASE TempBeat
    <2>1. /\ msg_send("temp", Heartbeat) /\ Await("temp", "recv", TEMP_HEARTBEAT_MS)
          /\ pc["temp"] = "beat" /\ "recv" \in TempLabels /\ ~TimerReady
          /\ UNCHANGED <<rec_msg, blocked, timerVars, histVars>>
      BY <1>2 DEF TempBeat, TempLabels, TempMayRun
    <2>2. /\ pc'["temp"] = "recv" /\ pc'["timer"] = pc["timer"] /\ pc'["main"] = pc["main"]
          /\ wait'["timer"] = wait["timer"]
      BY <1>a, <2>1, AwaitTypes, Periods
    <2>3. ~Room => ~Room'
      BY <1>a, <2>1, SendTypes, MessagesTyped DEF Room
    <2>4. Owed' = Owed
      BY <2>2 DEF Owed
    <2> QED BY <2>1, <2>2, <2>3, <2>4 DEF TimerStays, LeavesTimer, timerVars, histVars
  <1>3. CASE tiva_open_socket
    <2>1. /\ Await("main", "hello", SendTimeout) /\ "hello" \in MainLabels
          /\ pc["main"] = "connect"
          /\ UNCHANGED <<queueVars, rec_msg, blocked, timerVars, histVars>>
      BY <1>3 DEF tiva_open_socket, MainLabels, Starting
    <2>2. /\ pc'["main"] = "hello" /\ pc'["timer"] = pc["timer"]
          /\ pc'["temp"] = pc["temp"] /\ wait'["timer"] = wait["timer"]
      BY <1>a, <2>1, AwaitTypes, Periods
    <2>3. Owed' = Owed /\ Room' = Room
      BY <2>1, <2>2 DEF Owed, Starting, Room, HasRoom, queueVars
    <2> QED BY <2>1, <2>2, <2>3 DEF TimerStays, LeavesTimer, timerVars, histVars
  <1>4. CASE ApiSend
    <2>1. /\ \E m \in Msg : main_queue' = Append(main_queue, m)
          /\ HasRoom(main_queue) /\ ~TimerReady
          /\ UNCHANGED <<pc, wait, timerVars, since>>
      BY <1>4, MessagesTyped DEF ApiSend
    <2>2. Owed' = Owed /\ Room
      BY <2>1 DEF Owed, Room
    <2> QED BY <2>1, <2>2 DEF TimerStays, LeavesTimer, timerVars
  <1>5. CASE Unblock \/ UNCHANGED vars
    <2>1. UNCHANGED <<main_queue, pc, wait, timerVars, since>>
      BY <1>5 DEF Unblock, vars, queueVars, histVars
    <2>2. Owed' = Owed /\ Room' = Room
      BY <2>1 DEF Owed, Room, HasRoom
    <2> QED BY <2>1, <2>2 DEF TimerStays, LeavesTimer, timerVars
  <1> QED BY <1>1, <1>2, <1>3, <1>4, <1>5 DEF EnvNext


(* The start of temp_task gives the command that starts temp_read's timer. *)
LEMMA StartStep ==
  ASSUME TypeOK, TempStart
  PROVE  /\ TimerStays /\ ~TimerReady /\ pc["temp"] = "start" /\ pc'["temp"] = "recv"
         /\ Given' = Given + 1 /\ Owed' = Owed /\ Room' = Room /\ UNCHANGED since
         /\ \A i \in DOMAIN commands' :
              \/ i \in DOMAIN commands /\ commands'[i] = commands[i]
              \/ commands'[i].left = TEMP_PER
  <1>a. /\ TasksOK /\ TimersOK /\ "temp" \in Tasks
        /\ {"timer", "main"} \subseteq Tasks \ {"temp"} /\ "recv" \in TempLabels
    BY DEF TypeOK, Tasks, TempLabels
  <1>1. /\ Issue("read") /\ Await("temp", "recv", TEMP_HEARTBEAT_MS) /\ ~TimerReady
        /\ pc["temp"] = "start" /\ UNCHANGED <<queueVars, rec_msg, blocked, histVars>>
    BY DEF TempStart, TempMayRun
  <1>2. /\ pc'["temp"] = "recv" /\ pc'["timer"] = pc["timer"]
        /\ pc'["main"] = pc["main"] /\ wait'["timer"] = wait["timer"]
    BY <1>a, <1>1, AwaitTypes, Periods
  <1>3. /\ Given' = Given + 1 /\ UNCHANGED <<running, due>>
        /\ commands'[Len(commands) + 1] = [timer |-> "read", left |-> TEMP_PER]
        /\ \A i \in DOMAIN commands : commands'[i] = commands[i]
        /\ DOMAIN commands' = DOMAIN commands \cup {Len(commands) + 1}
    BY <1>a, <1>1, IssueTypes, Periods DEF Given
  <1>4. Owed' = Owed /\ Room' = Room
    BY <1>1, <1>2 DEF Owed, Room, HasRoom, queueVars
  <1> QED BY <1>1, <1>2, <1>3, <1>4 DEF TimerStays, histVars

(* A timer expires: temp_read's in time, another one perhaps late.         *)
LEMMA ExpiredStep ==
  ASSUME TimerInv, NEW t \in Timers, prvProcessExpiredTimer(t)
  PROVE  /\ Owed' = Owed /\ Room' = Room /\ UNCHANGED since
         /\ Given = 0 /\ Given' <= 1 /\ pc'["temp"] = pc["temp"]
         /\ due["read"] >= 0
         /\ pc["temp"] = "start" => t # "read"
         /\ \/ /\ t = "read" /\ pc'["timer"] = "line" /\ Given' = 0
               /\ wait'["timer"] = SendTimeout /\ due'["read"] = TEMP_PER
            \/ /\ t # "read" /\ pc'["timer"] = "drain" /\ NoNewRead
               /\ due'["read"] = due["read"]
               /\ "read" \in running' <=> "read" \in running
  <1>a. /\ TypeOK /\ TasksOK /\ TimersOK /\ "timer" \in Tasks
        /\ {"temp", "main"} \subseteq Tasks \ {"timer"}
        /\ {"line", "drain"} \subseteq TimerLabels
        /\ due[t] \in Int /\ due["read"] \in Int
    BY Counts, Periods DEF TimerInv, TypeOK, Tasks, TimerLabels
  <1>1. /\ Insert(t, due[t] + Period(t), commands, due[t] + Period(t))
        /\ due[t] + Period(t) \in Int /\ commands \in Seq(Command)
        /\ due[t] <= 0 /\ pc["timer"] = "select" /\ Expired(t)
        /\ t = "read" => Await("timer", "line", SendTimeout)
        /\ t # "read" => Goto("timer", "drain")
        /\ UNCHANGED <<queueVars, rec_msg, blocked, histVars>>
    BY <1>a, ExpiredTypes
  <1>2. Given = 0 /\ due["read"] >= 0 /\ (pc["temp"] = "start" => t # "read")
    BY <1>1, Counts DEF TimerInv, Counted, OnTime, Unstarted, Expired, NoneExpired
  <1>3. /\ pc'["temp"] = pc["temp"] /\ pc'["main"] = pc["main"]
        /\ t = "read" => pc'["timer"] = "line" /\ wait'["timer"] = SendTimeout
        /\ t # "read" => pc'["timer"] = "drain"
    BY <1>a, <1>1, AwaitTypes, GotoTypes, Periods
  <1>4. Owed' = Owed /\ Room' = Room /\ UNCHANGED since
    BY <1>1, <1>3 DEF Owed, Room, HasRoom, queueVars, histVars
  <1>5. CASE t = "read"
    <2>1. due[t] + Period(t) = TEMP_PER /\ TEMP_PER > 0
      BY <1>a, <1>1, <1>2, <1>5, Periods
    <2>2. commands' = commands /\ due'[t] = TEMP_PER
      BY <1>a, <1>1, <2>1, InsertTypes
    <2> QED BY <1>2, <1>3, <1>4, <1>5, <2>2 DEF Given
  <1>6. CASE t # "read"
    <2>1. "read" \in Timers \ {t}
      BY <1>6, Periods
    <2>2. /\ due'["read"] = due["read"] /\ ("read" \in running' <=> "read" \in running)
          /\ (commands' = commands \/ Len(commands') = Len(commands) + 1)
          /\ \A i \in DOMAIN commands' : \/ i \in DOMAIN commands /\ commands'[i] = commands[i]
                                         \/ commands'[i].timer = t
      BY <1>a, <1>1, <2>1, InsertTypes
    <2>3. NoNewRead
      BY <1>6, <2>2 DEF NoNewRead
    <2>4. Given' = Given \/ Given' = Given + 1
      BY <2>2 DEF Given
    <2> QED BY <1>2, <1>3, <1>4, <1>6, <2>2, <2>3, <2>4
  <1> QED BY <1>5, <1>6


(* The timer task reads a command: it starts temp_read's timer, or one     *)
(* that gives temp_read's nothing to do.                                   *)
LEMMA DrainStep ==
  ASSUME TimerInv, prvProcessReceivedCommands
  PROVE  /\ Owed' = Owed /\ Room' = Room /\ UNCHANGED since /\ Given' <= Given
         /\ pc["timer"] = "drain" /\ pc'["temp"] = pc["temp"]
         /\ due'["read"] >= 0
         /\ pc["temp"] = "start" => ("read" \in running' <=> "read" \in running)
         /\ \A i \in DOMAIN commands' : commands'[i].timer = "read" =>
              \E j \in DOMAIN commands : commands'[i] = commands[j]
         /\ \/ pc'["timer"] = "select" /\ Given' = 0
            \/ pc'["timer"] = "drain"
  <1>a. /\ TypeOK /\ TasksOK /\ TimersOK /\ "timer" \in Tasks
        /\ {"temp", "main"} \subseteq Tasks \ {"timer"}
        /\ "select" \in TimerLabels /\ due["read"] \in Int
    BY Counts, Periods DEF TimerInv, TypeOK, Tasks, TimerLabels
  <1>b. pc["timer"] = "drain" /\ due["read"] >= 0
    BY DEF prvProcessReceivedCommands, TimerInv, OnTime
  <1>1. CASE commands = <<>>
    <2>1. /\ Goto("timer", "select")
          /\ UNCHANGED <<queueVars, rec_msg, blocked, timerVars, histVars>>
      BY <1>1 DEF prvProcessReceivedCommands
    <2>2. /\ pc'["temp"] = pc["temp"] /\ pc'["main"] = pc["main"]
          /\ pc'["timer"] = "select"
      BY <1>a, <2>1, GotoTypes
    <2>3. Given = 0 /\ Given' = Given
      BY <1>a, <1>1, <2>1, Counts DEF Given, timerVars
    <2>4. Owed' = Owed /\ Room' = Room /\ UNCHANGED <<since, running, due, commands>>
      BY <2>1, <2>2 DEF Owed, Room, HasRoom, queueVars, histVars, timerVars
    <2> QED BY <1>b, <2>2, <2>3, <2>4
  <1>2. CASE commands # <<>>
    <2> DEFINE c == Head(commands) rest == Tail(commands)
    <2>1. /\ c.timer \in Timers /\ rest \in Seq(Command)
          /\ c.left + Period(c.timer) \in Int /\ c.left \in Int
          /\ Insert(c.timer, c.left, rest, c.left + Period(c.timer))
          /\ Len(rest) = Given - 1
          /\ c = commands[1] /\ 1 \in DOMAIN commands
          /\ \A i \in DOMAIN rest : i + 1 \in DOMAIN commands /\ rest[i] = commands[i + 1]
          /\ UNCHANGED <<queueVars, rec_msg, blocked, histVars, pc, wait>>
      BY <1>a, <1>2, DrainTypes DEF Given
    <2>2. c.timer = "read" => c.left = TEMP_PER /\ TEMP_PER > 0 /\ pc["temp"] # "start"
      BY <2>1, Periods DEF TimerInv, StartedAtOnce, Unstarted
    <2>3. Owed' = Owed /\ Room' = Room /\ UNCHANGED <<since, pc>>
      BY <2>1 DEF Owed, Room, HasRoom, queueVars, histVars
    <2>4. "read" \in Timers /\ Given \in Nat
      BY <1>a, Periods, Counts
    <2> HIDE DEF c, rest
    <2>5. CASE c.left > 0
      <3>1. commands' = rest /\ due'[c.timer] = c.left
            /\ \A u \in Timers \ {c.timer} : due'[u] = due[u] /\ (u \in running' <=> u \in running)
        BY <1>a, <2>1, <2>5, InsertTypes
      <3>2. Given' = Given - 1
        BY <2>1, <3>1 DEF Given
      <3>3. due'["read"] >= 0
        <4>1. CASE c.timer = "read"
          <5>1. due'["read"] = c.left
            BY <3>1, <4>1
          <5> QED BY <2>1, <2>5, <5>1
        <4>2. CASE c.timer # "read"
          <5>1. due'["read"] = due["read"]
            BY <2>4, <3>1, <4>2
          <5> QED BY <1>b, <5>1
        <4> QED BY <4>1, <4>2
      <3>4. pc["temp"] = "start" => ("read" \in running' <=> "read" \in running)
        BY <2>2, <2>4, <3>1
      <3>5. \A i \in DOMAIN commands' : \E j \in DOMAIN commands : commands'[i] = commands[j]
        BY <2>1, <3>1
      <3> QED BY <1>b, <2>3, <2>4, <3>2, <3>3, <3>4, <3>5
    <2>6. CASE ~(c.left > 0)
      <3>1. c.timer # "read"
        BY <2>2, <2>6
      <3>2. /\ Len(commands') = Len(rest) + 1
            /\ \A i \in DOMAIN commands' : \/ i \in DOMAIN rest /\ commands'[i] = rest[i]
                                           \/ commands'[i].timer = c.timer
            /\ \A u \in Timers \ {c.timer} : due'[u] = due[u] /\ (u \in running' <=> u \in running)
        BY <1>a, <2>1, <2>6, InsertTypes
      <3>3. Given' = Given
        BY <2>1, <2>4, <3>2 DEF Given
      <3>4. due'["read"] = due["read"] /\ ("read" \in running' <=> "read" \in running)
        BY <2>4, <3>1, <3>2
      <3>5. \A i \in DOMAIN commands' : commands'[i].timer = "read" =>
              \E j \in DOMAIN commands : commands'[i] = commands[j]
        BY <2>1, <3>1, <3>2
      <3> QED BY <1>b, <2>3, <2>4, <3>3, <3>4, <3>5
    <2> QED BY <2>5, <2>6
  <1> QED BY <1>1, <1>2

(* temp_read sends, or gives up. *)
LEMMA ReadStep ==
  ASSUME TypeOK, temp_read_line \/ temp_read_sentence
  PROVE  /\ Owed' = Owed /\ UNCHANGED <<commands, running, due, since>>
         /\ pc'["temp"] = pc["temp"]
         /\ Room \/ wait["timer"] = 0
         /\ \/ /\ pc["timer"] = "line" /\ pc'["timer"] = "sentence"
               /\ wait'["timer"] = SendTimeout
            \/ pc["timer"] = "sentence" /\ pc'["timer"] = "drain"
  <1>a. /\ QueuesOK /\ TasksOK /\ "timer" \in Tasks
        /\ {"temp", "main"} \subseteq Tasks \ {"timer"}
        /\ {"sentence", "drain"} \subseteq TimerLabels
    BY DEF TypeOK, Tasks, TimerLabels
  <1>1. /\ \/ /\ temp_read_line /\ msg_send("timer", Line)
              /\ pc["timer"] = "line" /\ Await("timer", "sentence", SendTimeout)
           \/ /\ temp_read_sentence /\ msg_send("timer", Sentence)
              /\ pc["timer"] = "sentence" /\ Goto("timer", "drain")
        /\ UNCHANGED <<rec_msg, blocked, timerVars, histVars>>
    BY DEF temp_read_line, temp_read_sentence
  <1>2. /\ pc'["temp"] = pc["temp"] /\ pc'["main"] = pc["main"]
        /\ \/ /\ pc["timer"] = "line" /\ pc'["timer"] = "sentence"
              /\ wait'["timer"] = SendTimeout
           \/ pc["timer"] = "sentence" /\ pc'["timer"] = "drain"
    BY <1>a, <1>1, AwaitTypes, GotoTypes, Periods
  <1>3. Room \/ wait["timer"] = 0
    BY <1>a, <1>1, SendTypes, MessagesTyped DEF Room
  <1>4. Owed' = Owed
    BY <1>2 DEF Owed
  <1> QED BY <1>1, <1>2, <1>3, <1>4 DEF timerVars, histVars

(* The timer task has a command to look at. *)
LEMMA WaitStep ==
  ASSUME TypeOK, vQueueWaitForMessageRestricted
  PROVE  /\ Owed' = Owed /\ UNCHANGED <<commands, running, due, since>>
         /\ pc'["temp"] = pc["temp"]
         /\ pc["timer"] = "select" /\ pc'["timer"] = "drain"
  <1>1. /\ TasksOK /\ "timer" \in Tasks /\ {"temp", "main"} \subseteq Tasks \ {"timer"}
        /\ "drain" \in TimerLabels /\ Goto("timer", "drain") /\ pc["timer"] = "select"
        /\ UNCHANGED <<timerVars, histVars>>
    BY DEF TypeOK, Tasks, TimerLabels, vQueueWaitForMessageRestricted
  <1>2. /\ pc'["temp"] = pc["temp"] /\ pc'["main"] = pc["main"]
        /\ pc'["timer"] = "drain"
    BY <1>1, GotoTypes
  <1> QED BY <1>1, <1>2 DEF Owed, timerVars, histVars


(* The queue of the timer task has room for four commands, and temp_read   *)
(* cannot take longer than its timer's period: FreeRTOSConfig.h:118 has    *)
(* five, and two times the 500 ticks of msg.c:56 are less than the 5000 of *)
(* temp.h:79.                                                              *)
TimerQueueRoom == configTIMER_QUEUE_LENGTH >= 4
ReadInTime == 2 * SendTimeout <= TEMP_PER

(* How the sum goes with the commands given. *)
LEMMA Sums ==
  ASSUME TypeOK, TypeOK'
  PROVE  /\ Given \in Nat /\ Sum \in Nat /\ Given' \in Nat /\ Sum' \in Nat
         /\ Owed' = Owed /\ Given' = Given => Sum' = Sum
         /\ Owed' = Owed /\ Given' = 0 => Sum' = 0 \/ Sum' = 1 \/ Sum' = 2
         /\ Given' = Given + 1 /\ Owed = Owed' + 1 => Sum' = Sum /\ Given < Sum
         /\ Given' = Given /\ Owed = 0 /\ Owed' \in {0, 1} =>
              Sum' = Sum \/ Sum' = Sum + 1
  <1>1. /\ Given \in Nat /\ Owed \in Nat /\ Given' \in Nat /\ Owed' \in Nat
        /\ Owed = 0 \/ Owed = 1 \/ Owed = 2
    BY Counts, CountsNext DEF CountsOK
  <1>2. \A g, o, h, q \in Nat :
          /\ g + o \in Nat /\ h + q \in Nat
          /\ h = g + 1 /\ o = q + 1 => h + q = g + o /\ g < g + o
          /\ h = 0 => h + q = q
          /\ o = 0 /\ q = 0 /\ h = g => h + q = g + o
          /\ o = 0 /\ q = 1 /\ h = g => h + q = g + o + 1
    OBVIOUS
  <1>3. Sum = Given + Owed /\ Sum' = Given' + Owed'
    BY DEF Sum
  <1> DEFINE g == Given o == Owed h == Given' q == Owed' s == Sum t == Sum'
  <1>4. /\ g \in Nat /\ o \in Nat /\ h \in Nat /\ q \in Nat
        /\ s = g + o /\ t = h + q /\ (o = 0 \/ o = 1 \/ o = 2)
    BY <1>1, <1>3
  <1> HIDE DEF g, o, h, q, s, t
  <1>5. /\ g \in Nat /\ s \in Nat /\ h \in Nat /\ t \in Nat
        /\ q = o /\ h = g => t = s
        /\ q = o /\ h = 0 => t = 0 \/ t = 1 \/ t = 2
        /\ h = g + 1 /\ o = q + 1 => t = s /\ g < s
        /\ h = g /\ o = 0 /\ q \in {0, 1} => t = s \/ t = s + 1
    BY <1>4
  <1> QED BY <1>5 DEF g, o, h, q, s, t

(* The counts are kept: one step per kind of step.                         *)
LEMMA CountedInductive == TimerInv /\ [Next]_vars => Counted'
  <1> SUFFICES ASSUME TimerInv, [Next]_vars PROVE Counted'
    OBVIOUS
  <1>a. TypeOK /\ Counted /\ Unstarted
    BY DEF TimerInv
  <1>t. TypeOK'
    BY <1>a, TypeInductive
  <1>b. Given \in Nat /\ Sum \in Nat /\ Given' \in Nat /\ Sum' \in Nat
    BY <1>a, <1>t, Sums
  <1>1. ASSUME NEW t \in Timers, prvProcessExpiredTimer(t) PROVE Counted'
    <2>1. /\ Owed' = Owed /\ (Given' = 0 \/ Given' = 1)
          /\ \/ pc'["timer"] = "line" /\ Given' = 0
             \/ pc'["timer"] = "drain"
      BY <1>1, <1>b, ExpiredStep
    <2>2. Given' = 0 => Sum' = 0 \/ Sum' = 1 \/ Sum' = 2
      BY <1>a, <1>t, <2>1, Sums
    <2> QED BY <2>1, <2>2 DEF Counted
  <1>2. CASE prvProcessReceivedCommands
    <2>1. /\ Given' <= Given
          /\ \/ pc'["timer"] = "select" /\ Given' = 0
             \/ pc'["timer"] = "drain"
      BY <1>2, DrainStep
    <2>2. Given' <= 3
      <3> DEFINE g == Given h == Given'
      <3>1. g <= 3 /\ h <= g /\ g \in Nat /\ h \in Nat
        BY <1>a, <1>b, <2>1 DEF Counted
      <3> HIDE DEF g, h
      <3>2. h <= 3
        BY <3>1
      <3> QED BY <3>2 DEF h
    <2> QED BY <2>1, <2>2 DEF Counted
  <1>3. CASE temp_read_line \/ temp_read_sentence
    <2>1. /\ Owed' = Owed /\ Given' = Given
          /\ \/ pc["timer"] = "line" /\ pc'["timer"] = "sentence"
             \/ pc["timer"] = "sentence" /\ pc'["timer"] = "drain"
      BY <1>a, <1>3, ReadStep DEF Given
    <2>2. Sum' = Sum
      BY <1>a, <1>t, <2>1, Sums
    <2> QED BY <1>a, <1>b, <2>1, <2>2 DEF Counted
  <1>4. CASE vQueueWaitForMessageRestricted
    <2>1. Given' = Given /\ pc'["timer"] = "drain"
      BY <1>a, <1>4, WaitStep DEF Given
    <2> QED BY <1>a, <1>b, <2>1 DEF Counted
  <1>5. CASE Tick
    <2>1. /\ Given' = Given /\ UNCHANGED <<pc, main_queue>> /\ ~TimerReady
      BY <1>a, <1>5, TickTypes DEF Given, Tick, Quiet, queueVars
    <2>2. Owed' = Owed /\ Room' = Room
      BY <2>1 DEF Owed, Room, HasRoom
    <2>3. pc["timer"] = "select" => Given = 0
      BY <1>a, <2>1, Waiting
    <2>4. Sum' = Sum
      BY <1>a, <1>t, <2>1, <2>2, Sums
    <2> QED BY <1>a, <1>b, <2>1, <2>2, <2>3, <2>4 DEF Counted
  <1>6. CASE TempStart
    <2>1. /\ TimerStays /\ ~TimerReady /\ Given' = Given + 1 /\ pc["temp"] = "start"
      BY <1>a, <1>6, StartStep
    <2>2. pc["timer"] = "select" /\ Given = 0 /\ NoneExpired
      BY <1>a, <2>1, Waiting DEF Unstarted, NoneExpired
    <2>3. pc'["timer"] = "select" /\ NoneExpired'
      BY <2>1, <2>2 DEF TimerStays, Expired, NoneExpired
    <2> QED BY <2>1, <2>2, <2>3 DEF Counted
  <1>7. CASE MainNext
    <2>1. /\ TimerStays /\ ~TimerReady
          /\ LeavesTimer \/ GivesCommand \/ TakesMessage
      BY <1>a, <1>7, MainSteps
    <2>2. /\ pc["timer"] = "select" => Given = 0 /\ NoneExpired'
          /\ pc["timer"] # "drain"
          /\ pc["timer"] \in {"line", "sentence"} => ~Room
          /\ pc'["timer"] = pc["timer"]
      BY <1>a, <2>1, Waiting DEF TimerStays, Expired, NoneExpired
    <2>3. CASE LeavesTimer
      <3>1. Given' = Given /\ Owed' = Owed
        BY <2>3 DEF LeavesTimer, Given
      <3>2. Sum' = Sum
        BY <1>a, <1>t, <3>1, Sums
      <3> QED BY <1>a, <1>b, <2>2, <3>1, <3>2 DEF Counted
    <2>4. CASE GivesCommand
      <3>1. Given' = Given + 1 /\ Owed = Owed' + 1
        BY <2>4 DEF GivesCommand
      <3>2. Sum' = Sum /\ Given < Sum
        BY <1>a, <1>t, <3>1, Sums
      <3>3. CASE pc["timer"] = "select"
        BY <1>a, <2>2, <3>1, <3>3 DEF Counted
      <3>4. CASE pc["timer"] # "select"
        <4>1. Sum <= 3 /\ (pc["timer"] = "line" => Sum <= 2)
          BY <1>a, <1>b, <2>1, <2>2, <3>4 DEF Counted, TypeOK, TasksOK, TimerLabels
        <4>2. Given + 1 <= 3
          BY <1>b, <3>2, <4>1
        <4> QED BY <1>a, <1>b, <2>2, <3>1, <3>2, <3>4, <4>1, <4>2 DEF Counted
      <3> QED BY <3>3, <3>4
    <2>5. CASE TakesMessage
      <3>1. Given' = Given /\ Owed = 0 /\ Owed' \in {0, 1} /\ Room'
        BY <2>5 DEF TakesMessage, Given
      <3>2. Sum' = Sum \/ Sum' = Sum + 1
        BY <1>a, <1>t, <3>1, Sums
      <3> QED BY <1>a, <1>b, <2>2, <3>1, <3>2 DEF Counted
    <2> QED BY <2>1, <2>3, <2>4, <2>5
  <1>8. CASE TempRecv \/ TempTimeout \/ TempBeat \/ EnvNext \/ UNCHANGED vars
    <2>1. TimerStays /\ LeavesTimer
      BY <1>a, <1>8, OtherSteps
    <2>2. Given' = Given /\ Owed' = Owed /\ (Room => Room' \/ ~TimerReady)
      BY <2>1 DEF LeavesTimer, Given
    <2>3. pc["timer"] \in {"line", "sentence"} /\ Room => Room'
      BY <1>a, <2>2, Waiting
    <2>4. NoneExpired => NoneExpired'
      BY <2>1 DEF TimerStays, Expired, NoneExpired
    <2>5. pc'["timer"] = pc["timer"]
      BY <2>1 DEF TimerStays
    <2>6. Sum' = Sum
      BY <1>a, <1>t, <2>2, Sums
    <2> QED BY <1>a, <1>b, <2>2, <2>3, <2>4, <2>5, <2>6 DEF Counted
  <1> QED BY <1>1, <1>2, <1>3, <1>4, <1>5, <1>6, <1>7, <1>8
          DEF Next, TimerNext, TempNext

(* Until temp_task starts there is no timer of temp_read.                  *)
LEMMA UnstartedInductive == TimerInv /\ [Next]_vars => Unstarted'
  <1> SUFFICES ASSUME TimerInv, [Next]_vars, pc'["temp"] = "start"
               PROVE  /\ "read" \notin running' /\ pc'["timer"] \in {"select", "drain"}
                      /\ \A i \in DOMAIN commands' : commands'[i].timer # "read"
    BY DEF Unstarted
  <1> DEFINE Goal == /\ "read" \notin running' /\ pc'["timer"] \in {"select", "drain"}
                     /\ \A i \in DOMAIN commands' : commands'[i].timer # "read"
  <1>a. TypeOK /\ Unstarted
    BY DEF TimerInv
  <1>1. ASSUME NEW t \in Timers, prvProcessExpiredTimer(t) PROVE Goal
    <2>1. /\ pc["temp"] = "start" /\ pc'["timer"] = "drain" /\ NoNewRead
          /\ "read" \in running' <=> "read" \in running
      BY <1>1, ExpiredStep
    <2> QED BY <1>a, <2>1 DEF Unstarted, NoNewRead
  <1>2. CASE prvProcessReceivedCommands
    <2>1. /\ pc["temp"] = "start" /\ pc'["timer"] \in {"select", "drain"}
          /\ "read" \in running' <=> "read" \in running
          /\ \A i \in DOMAIN commands' : commands'[i].timer = "read" =>
               \E j \in DOMAIN commands : commands'[i] = commands[j]
      BY <1>2, DrainStep
    <2> QED BY <1>a, <2>1 DEF Unstarted
  <1>3. CASE temp_read_line \/ temp_read_sentence
    <2>1. pc["temp"] = "start" /\ pc["timer"] \in {"line", "sentence"}
      BY <1>a, <1>3, ReadStep
    <2> QED BY <1>a, <2>1 DEF Unstarted
  <1>4. CASE vQueueWaitForMessageRestricted
    <2>1. /\ pc["temp"] = "start" /\ pc'["timer"] = "drain"
          /\ UNCHANGED <<commands, running>>
      BY <1>a, <1>4, WaitStep
    <2> QED BY <1>a, <2>1 DEF Unstarted
  <1>5. CASE Tick
    <2>1. /\ UNCHANGED <<pc, running>> /\ DOMAIN commands' = DOMAIN commands
          /\ \A i \in DOMAIN commands : commands'[i].timer = commands[i].timer
      BY <1>a, <1>5, TickTypes
    <2> QED BY <1>a, <2>1 DEF Unstarted
  <1>6. CASE TempStart
    BY <1>a, <1>6, StartStep
  <1>7. CASE MainNext
    <2>1. /\ TimerStays /\ pc'["temp"] = pc["temp"]
          /\ LeavesTimer \/ GivesCommand \/ TakesMessage
      BY <1>a, <1>7, MainSteps
    <2>2. UNCHANGED commands \/ NoNewRead
      BY <2>1 DEF LeavesTimer, GivesCommand, TakesMessage
    <2> QED BY <1>a, <2>1, <2>2 DEF Unstarted, TimerStays, NoNewRead
  <1>8. CASE TempRecv \/ TempTimeout \/ TempBeat \/ EnvNext \/ UNCHANGED vars
    <2>1. TimerStays /\ LeavesTimer /\ pc["temp"] = "start"
      BY <1>a, <1>8, OtherSteps
    <2> QED BY <1>a, <2>1 DEF Unstarted, TimerStays, LeavesTimer
  <1> QED BY <1>1, <1>2, <1>3, <1>4, <1>5, <1>6, <1>7, <1>8
          DEF Next, TimerNext, TempNext

(* The command that starts temp_read's timer does not grow old.            *)
LEMMA StartedAtOnceInductive == TimerInv /\ [Next]_vars => StartedAtOnce'
  <1> SUFFICES ASSUME TimerInv, [Next]_vars PROVE StartedAtOnce'
    OBVIOUS
  <1>a. TypeOK /\ StartedAtOnce /\ Unstarted
    BY DEF TimerInv
  <1>1. ASSUME NEW t \in Timers, prvProcessExpiredTimer(t) PROVE StartedAtOnce'
    <2>1. CASE pc'["timer"] = "line"
      <3>1. Given' = 0
        BY <1>1, <2>1, ExpiredStep
      <3>2. commands' = <<>>
        BY <1>a, <3>1, TypeInductive, CountsNext DEF CountsOK
      <3> QED BY <3>2 DEF StartedAtOnce
    <2>2. CASE pc'["timer"] # "line"
      <3>1. pc'["timer"] = "drain" /\ NoNewRead
        BY <1>1, <2>2, ExpiredStep
      <3> QED BY <1>a, <3>1 DEF StartedAtOnce, NoNewRead
    <2> QED BY <2>1, <2>2
  <1>2. CASE prvProcessReceivedCommands
    <2>1. /\ pc'["timer"] \in {"select", "drain"}
          /\ \A i \in DOMAIN commands' : commands'[i].timer = "read" =>
               \E j \in DOMAIN commands : commands'[i] = commands[j]
      BY <1>2, DrainStep
    <2> QED BY <1>a, <2>1 DEF StartedAtOnce
  <1>3. CASE temp_read_line \/ temp_read_sentence
    <2>1. UNCHANGED commands /\ pc["timer"] \in {"line", "sentence"}
      BY <1>a, <1>3, ReadStep
    <2> QED BY <1>a, <2>1 DEF StartedAtOnce
  <1>4. CASE vQueueWaitForMessageRestricted
    <2>1. UNCHANGED commands /\ pc'["timer"] = "drain"
      BY <1>a, <1>4, WaitStep
    <2> QED BY <1>a, <2>1 DEF StartedAtOnce
  <1>5. CASE Tick
    <2>1. /\ UNCHANGED pc /\ DOMAIN commands' = DOMAIN commands /\ ~TimerReady
          /\ \A i \in DOMAIN commands : commands'[i].timer = commands[i].timer
      BY <1>a, <1>5, TickTypes DEF Tick, Quiet
    <2>2. pc["timer"] \in {"select", "drain"} => commands = <<>>
      BY <1>a, <2>1, Waiting
    <2> QED BY <1>a, <2>1, <2>2 DEF StartedAtOnce
  <1>6. CASE TempStart
    <2>1. /\ TimerStays /\ ~TimerReady /\ pc["temp"] = "start"
          /\ \A i \in DOMAIN commands' :
               \/ i \in DOMAIN commands /\ commands'[i] = commands[i]
               \/ commands'[i].left = TEMP_PER
      BY <1>a, <1>6, StartStep
    <2> QED BY <1>a, <2>1 DEF StartedAtOnce, Unstarted, TimerStays
  <1>7. CASE MainNext
    <2>1. TimerStays /\ (LeavesTimer \/ GivesCommand \/ TakesMessage)
      BY <1>a, <1>7, MainSteps
    <2>2. UNCHANGED commands \/ NoNewRead
      BY <2>1 DEF LeavesTimer, GivesCommand, TakesMessage
    <2> QED BY <1>a, <2>1, <2>2 DEF StartedAtOnce, TimerStays, NoNewRead
  <1>8. CASE TempRecv \/ TempTimeout \/ TempBeat \/ EnvNext \/ UNCHANGED vars
    <2>1. TimerStays /\ LeavesTimer
      BY <1>a, <1>8, OtherSteps
    <2> QED BY <1>a, <2>1 DEF StartedAtOnce, TimerStays, LeavesTimer
  <1> QED BY <1>1, <1>2, <1>3, <1>4, <1>5, <1>6, <1>7, <1>8
          DEF Next, TimerNext, TempNext


(* temp_read's timer is never late, if a reading fits into its period.     *)
LEMMA OnTimeInductive == ReadInTime => (TimerInv /\ [Next]_vars => OnTime')
  <1> SUFFICES ASSUME ReadInTime, TimerInv, [Next]_vars PROVE OnTime'
    OBVIOUS
  <1>a. TypeOK /\ OnTime
    BY DEF TimerInv
  <1>b. /\ SendTimeout \in Nat \ {0} /\ TEMP_PER \in Nat \ {0}
        /\ 2 * SendTimeout <= TEMP_PER /\ "read" \in Timers
        /\ due["read"] \in Int /\ wait["timer"] \in Nat
    BY <1>a, Periods, Counts DEF ReadInTime
  <1>1. ASSUME NEW t \in Timers, prvProcessExpiredTimer(t) PROVE OnTime'
    <2>1. /\ due["read"] >= 0
          /\ \/ /\ pc'["timer"] = "line" /\ wait'["timer"] = SendTimeout
                /\ due'["read"] = TEMP_PER
             \/ pc'["timer"] = "drain" /\ due'["read"] = due["read"]
      BY <1>1, ExpiredStep
    <2> QED BY <1>b, <2>1 DEF OnTime
  <1>2. CASE prvProcessReceivedCommands
    <2>1. due'["read"] >= 0 /\ pc'["timer"] \in {"select", "drain"}
      BY <1>2, DrainStep
    <2> QED BY <2>1 DEF OnTime
  <1>3. CASE temp_read_line \/ temp_read_sentence
    <2>1. /\ due' = due
          /\ \/ /\ pc["timer"] = "line" /\ pc'["timer"] = "sentence"
                /\ wait'["timer"] = SendTimeout
             \/ pc["timer"] = "sentence" /\ pc'["timer"] = "drain"
      BY <1>a, <1>3, ReadStep
    <2>2. CASE pc["timer"] = "line"
      <3>1. due["read"] >= TEMP_PER - SendTimeout + wait["timer"]
        BY <1>a, <2>2 DEF OnTime
      <3>2. due["read"] >= TEMP_PER - 2 * SendTimeout + SendTimeout
        BY <1>b, <3>1
      <3> QED BY <1>b, <2>1, <2>2, <3>2 DEF OnTime
    <2>3. CASE pc["timer"] = "sentence"
      <3>1. due["read"] >= TEMP_PER - 2 * SendTimeout + wait["timer"]
        BY <1>a, <2>3 DEF OnTime
      <3>2. due["read"] >= 0
        BY <1>b, <3>1
      <3> QED BY <2>1, <2>3, <3>2 DEF OnTime
    <2> QED BY <2>1, <2>2, <2>3
  <1>4. CASE vQueueWaitForMessageRestricted
    <2>1. due' = due /\ pc["timer"] = "select" /\ pc'["timer"] = "drain"
      BY <1>a, <1>4, WaitStep
    <2> QED BY <1>a, <2>1 DEF OnTime
  <1>5. CASE Tick
    <2>1. /\ UNCHANGED pc /\ ~TimerReady /\ "timer" \in Tasks
          /\ due'["read"] = IF "read" \in running THEN due["read"] - 1 ELSE due["read"]
          /\ wait'["timer"] = IF wait["timer"] > 0 THEN wait["timer"] - 1 ELSE 0
      BY <1>a, <1>5, <1>b, TickTypes DEF Tick, Quiet, Tasks
    <2>2. /\ pc["timer"] = "select" => ~Expired("read")
          /\ pc["timer"] # "drain"
          /\ pc["timer"] \in {"line", "sentence"} => wait["timer"] # 0
      BY <1>a, <1>b, <2>1, Waiting
    <2>3. CASE pc["timer"] = "select"
      <3>1. due'["read"] >= 0
        BY <1>a, <1>b, <2>1, <2>2, <2>3 DEF OnTime, Expired
      <3> QED BY <2>1, <2>3, <3>1 DEF OnTime
    <2>4. CASE pc["timer"] \in {"line", "sentence"}
      <3>1. /\ wait'["timer"] = wait["timer"] - 1
            /\ due'["read"] = due["read"] - 1 \/ due'["read"] = due["read"]
        BY <1>b, <2>1, <2>2, <2>4
      <3> QED BY <1>a, <1>b, <2>1, <2>4, <3>1 DEF OnTime
    <2> QED BY <1>a, <2>1, <2>2, <2>3, <2>4 DEF OnTime
  <1>6. CASE \/ TempStart \/ MainNext \/ TempRecv \/ TempTimeout \/ TempBeat
             \/ EnvNext \/ UNCHANGED vars
    <2>1. TimerStays
      BY <1>a, <1>6, StartStep, MainSteps, OtherSteps
    <2> QED BY <1>a, <2>1 DEF OnTime, TimerStays
  <1> QED BY <1>1, <1>2, <1>3, <1>4, <1>5, <1>6 DEF Next, TimerNext, TempNext

(* The invariant holds at first. *)
LEMMA TimerInitially == Init => TimerInv
  <1> SUFFICES ASSUME Init PROVE TimerInv
    OBVIOUS
  <1>1. TypeOK /\ Given = 0 /\ commands = <<>>
    BY TypeInit DEF Init, Given
  <1>2. /\ pc["timer"] = "select" /\ pc["temp"] = "start" /\ running = {}
        /\ due["read"] = 0
    BY Periods DEF Init
  <1>3. Counted
    BY <1>1, <1>2 DEF Counted
  <1>4. Unstarted /\ StartedAtOnce
    BY <1>1, <1>2 DEF Unstarted, StartedAtOnce
  <1>5. OnTime
    BY <1>2 DEF OnTime
  <1> QED BY <1>1, <1>3, <1>4, <1>5 DEF TimerInv

(* Every step keeps it. *)
LEMMA TimerInductive == ReadInTime => (TimerInv /\ [Next]_vars => TimerInv')
  BY TypeInductive, CountedInductive, UnstartedInductive, StartedAtOnceInductive,
     OnTimeInductive DEF TimerInv

(* No task ever waits for room in the timer task's queue: while that task  *)
(* waits for main_task in temp_read, main_task never waits for it.         *)
THEOREM NeverWaits ==
  ASSUME configTIMER_QUEUE_LENGTH >= 4, 2 * SendTimeout <= TEMP_PER
  PROVE  Spec => []NeverWaitsForTimer
  <1>1. TimerInv => NeverWaitsForTimer
    <2> SUFFICES ASSUME TimerInv, \/ pc["main"] \in {"start_temp", "start_gas", "reset"}
                                  \/ pc["temp"] = "start"
                 PROVE  CommandRoom
      BY DEF NeverWaitsForTimer
    <2>1. Given \in Nat /\ Given <= 3
      BY Counts DEF TimerInv, Counted
    <2>2. Given < configTIMER_QUEUE_LENGTH
      BY <2>1, QueueAssumption
    <2> QED BY <2>2 DEF CommandRoom, Given
  <1>2. TimerInv /\ [Next]_vars => TimerInv'
    BY TimerInductive DEF ReadInTime
  <1> QED BY <1>1, <1>2, TimerInitially, PTL DEF Spec

(* The assertions of the timer task hold: a timer that is late by a whole  *)
(* period finds room for its restart, and it is never temp_read's.         *)
THEOREM ReloadsCorrect ==
  ASSUME configTIMER_QUEUE_LENGTH >= 4, 2 * SendTimeout <= TEMP_PER
  PROVE  Spec => []ReloadsFit
  <1>1. TimerInv => ReloadsFit
    <2> SUFFICES ASSUME TimerInv PROVE ReloadsFit
      OBVIOUS
    <2>1. Given \in Nat /\ Given <= 3
      BY Counts DEF TimerInv, Counted
    <2>2. CommandRoom
      BY <2>1, QueueAssumption DEF CommandRoom, Given
    <2>3. due["read"] + TEMP_PER > 0
      <3>1. /\ due["read"] \in Int /\ wait["timer"] \in Nat
            /\ SendTimeout \in Nat \ {0} /\ TEMP_PER \in Nat \ {0}
            /\ 2 * SendTimeout <= TEMP_PER /\ pc["timer"] \in TimerLabels
        BY Periods, Counts DEF TimerInv, TypeOK, TasksOK
      <3> QED BY <3>1 DEF TimerInv, OnTime, TimerLabels
    <2>4. \A i \in DOMAIN commands : commands[i].timer = "read" => commands[i].left > 0
      BY Periods DEF TimerInv, StartedAtOnce
    <2> QED BY <2>2, <2>3, <2>4 DEF ReloadsFit
  <1>2. TimerInv /\ [Next]_vars => TimerInv'
    BY TimerInductive DEF ReadInTime
  <1> QED BY <1>1, <1>2, TimerInitially, PTL DEF Spec

-----------------------------------------------------------------------------
(* While temp_read waits in a full queue, its time runs down no faster     *)
(* than main_task's idleness grows.                                        *)
Patient ==
  pc["timer"] \in {"line", "sentence"} =>
    /\ wait["timer"] <= SendTimeout
    /\ ~Room => since + wait["timer"] >= SendTimeout
PatientInv == TypeOK /\ Patient

(* Every step keeps this: only the passing of time changes the sum while   *)
(* the queue is full, and a message taken makes room.                      *)
LEMMA PatientInductive ==
  StallCap >= SendTimeout => (PatientInv /\ [Next]_vars => PatientInv')
  <1> SUFFICES ASSUME StallCap >= SendTimeout, PatientInv, [Next]_vars PROVE Patient'
    BY TypeInductive DEF PatientInv
  <1>a. TypeOK /\ Patient
    BY DEF PatientInv
  <1>b. /\ SendTimeout \in Nat \ {0} /\ wait["timer"] \in Nat /\ since \in Nat
        /\ StallCap \in Nat
    BY <1>a, Periods, Counts, TimeAssumption
  <1>1. ASSUME NEW t \in Timers, prvProcessExpiredTimer(t) PROVE Patient'
    <2>1. /\ TasksOK /\ "timer" \in Tasks /\ since' = since
          /\ {"line", "drain"} \subseteq TimerLabels
          /\ t = "read" => Await("timer", "line", SendTimeout)
          /\ t # "read" => Goto("timer", "drain")
      BY <1>a, <1>1, ExpiredTypes DEF TypeOK, Tasks, TimerLabels, histVars
    <2>2. \/ pc'["timer"] = "line" /\ wait'["timer"] = SendTimeout
          \/ pc'["timer"] = "drain"
      BY <1>b, <2>1, AwaitTypes, GotoTypes
    <2> QED BY <1>b, <2>1, <2>2 DEF Patient
  <1>2. CASE prvProcessReceivedCommands
    <2>1. /\ TasksOK /\ "timer" \in Tasks /\ "select" \in TimerLabels
          /\ pc["timer"] = "drain"
          /\ Goto("timer", "select") \/ UNCHANGED <<pc, wait>>
      BY <1>a, <1>2 DEF TypeOK, Tasks, TimerLabels, prvProcessReceivedCommands
    <2>2. pc'["timer"] \in {"select", "drain"}
      BY <2>1, GotoTypes
    <2> QED BY <2>2 DEF Patient
  <1>3. CASE temp_read_line \/ temp_read_sentence
    <2>1. /\ since' = since
          /\ \/ pc'["timer"] = "sentence" /\ wait'["timer"] = SendTimeout
             \/ pc'["timer"] = "drain"
      BY <1>a, <1>3, ReadStep
    <2> QED BY <1>b, <2>1 DEF Patient
  <1>4. CASE vQueueWaitForMessageRestricted
    <2>1. pc'["timer"] = "drain"
      BY <1>a, <1>4, WaitStep
    <2> QED BY <2>1 DEF Patient
  <1>5. CASE Tick
    <2>1. /\ UNCHANGED <<pc, main_queue>> /\ ~TimerReady /\ since' = Older(since)
          /\ wait'["timer"] = IF wait["timer"] > 0 THEN wait["timer"] - 1 ELSE 0
      BY <1>a, <1>5, TickTypes DEF Tick, Quiet, Tasks, queueVars
    <2>2. /\ Room' = Room
          /\ pc["timer"] \in {"line", "sentence"} => wait["timer"] # 0
      BY <1>a, <2>1, Waiting DEF Room, HasRoom
    <2>3. since' = since + 1 \/ (since' = since /\ since >= SendTimeout)
      BY <1>b, <2>1 DEF Older
    <2> QED BY <1>a, <1>b, <2>1, <2>2, <2>3 DEF Patient
  <1>6. CASE MainNext
    <2>1. /\ TimerStays /\ ~TimerReady
          /\ \/ Room' = Room /\ UNCHANGED since
             \/ Room'
             \/ (~Room => ~Room') /\ UNCHANGED since
      BY <1>a, <1>6, MainSteps DEF LeavesTimer, GivesCommand, TakesMessage
    <2>2. pc["timer"] \in {"line", "sentence"} => ~Room
      BY <1>a, <2>1, Waiting
    <2> QED BY <1>a, <1>b, <2>1, <2>2 DEF Patient, TimerStays
  <1>7. CASE TempStart
    <2>1. TimerStays /\ Room' = Room /\ UNCHANGED since
      BY <1>a, <1>7, StartStep
    <2> QED BY <1>a, <1>b, <2>1 DEF Patient, TimerStays
  <1>8. CASE TempRecv \/ TempTimeout \/ TempBeat \/ EnvNext \/ UNCHANGED vars
    <2>1. /\ TimerStays /\ UNCHANGED since
          /\ Room => Room' \/ ~TimerReady
      BY <1>a, <1>8, OtherSteps DEF LeavesTimer
    <2>2. pc["timer"] \in {"line", "sentence"} /\ Room => Room'
      BY <1>a, <2>1, Waiting
    <2> QED BY <1>a, <1>b, <2>1, <2>2 DEF Patient, TimerStays
  <1> QED BY <1>1, <1>2, <1>3, <1>4, <1>5, <1>6, <1>7, <1>8
          DEF Next, TimerNext, TempNext

(* A reading is given up only if main_task took no message for the whole   *)
(* time of a send.  StallCap bounds the history only: it must be able to   *)
(* count that time.                                                        *)
THEOREM GivenUpCorrect ==
  ASSUME StallCap >= SendTimeout
  PROVE  Spec => GivenUpOnlyWhenStuck
  <1>1. Init => PatientInv
    <2>1. Init => Patient
      BY DEF Init, Patient
    <2> QED BY <2>1, TypeInit DEF PatientInv
  <1>2. PatientInv /\ [Next]_vars => PatientInv'
    BY PatientInductive
  <1>3. ASSUME PatientInv, temp_read_line \/ temp_read_sentence, ~HasRoom(main_queue)
        PROVE  since >= SendTimeout
    <2>1. /\ TypeOK /\ Patient /\ ~Room
      BY <1>3 DEF PatientInv, Room
    <2>2. /\ pc["timer"] \in {"line", "sentence"} /\ wait["timer"] = 0
          /\ since \in Nat /\ SendTimeout \in Nat
      BY <1>3, <2>1, ReadStep, Counts, Periods
    <2> QED BY <2>1, <2>2 DEF Patient
  <1>4. PatientInv /\ [Next]_vars =>
          [(temp_read_line \/ temp_read_sentence) /\ ~HasRoom(main_queue)
             => since >= SendTimeout]_vars
    BY <1>3
  <1> QED BY <1>1, <1>2, <1>4, PTL DEF Spec, GivenUpOnlyWhenStuck


-----------------------------------------------------------------------------
(* temp_task's heartbeat is a message to main_task, then the reset that    *)
(* main_task gives, then the timer's new start.                            *)
Least == TIVA_HEARTBEAT_PERIOD - TEMP_HEARTBEAT_MS
Queued(q) == \E i \in DOMAIN q : q[i] = Heartbeat
Resetting == pc["main"] = "reset" /\ rec_msg.from = DEFS_TASK_TEMP
ForHeartbeat(i) == commands[i].timer = "temp_hb"
Commanded == \E i \in DOMAIN commands : ForHeartbeat(i)
OnItsWay == Queued(main_queue) \/ Resetting \/ Commanded
HandledInTime ==
  "temp_hb" \in running /\ due["temp_hb"] >= Least + wait["temp"]

(* While main_task waits for work the next heartbeat is near, or one was   *)
(* sent and is handled, and none is given up.                              *)
Regular ==
  pc["temp"] # "dead" =>
    /\ pc["temp"] = "recv" => wait["temp"] <= TEMP_HEARTBEAT_MS
    /\ free > 0 =>
         /\ pc["temp"] \in {"recv", "beat"}
         /\ pc["temp"] = "recv" =>
              free + wait["temp"] <= TEMP_HEARTBEAT_MS \/ OnItsWay \/ HandledInTime
         /\ pc["temp"] = "beat" => wait["temp"] > 0
(* And then the timer is not late, nor is a command for it.                *)
Prompt ==
  free > 0 =>
    /\ "temp_hb" \in running => due["temp_hb"] >= 0
    /\ \A i \in DOMAIN commands :
         ForHeartbeat(i) => commands[i].left = TIVA_HEARTBEAT_PERIOD
(* The timer runs for nearly a period after main_task last waited for work *)
(* for longer than a heartbeat.                                            *)
Spared ==
  pc["temp"] # "dead" /\ stall < Least =>
    /\ "temp_hb" \in running => due["temp_hb"] + stall >= Least
    /\ \A i \in DOMAIN commands : ForHeartbeat(i) => commands[i].left + stall >= Least
AlarmInv == TypeOK /\ Regular /\ Prompt /\ Spared

(* The numbers of these. *)
LEMMA AlarmNumbers ==
  /\ TIVA_HEARTBEAT_PERIOD \in Nat \ {0} /\ TEMP_HEARTBEAT_MS \in Nat \ {0}
  /\ StallCap \in Nat /\ Least \in Int /\ Period("temp_hb") = TIVA_HEARTBEAT_PERIOD
  /\ Least + TEMP_HEARTBEAT_MS = TIVA_HEARTBEAT_PERIOD
  /\ TypeOK => /\ due["temp_hb"] \in Int /\ free \in Nat /\ stall \in Nat
               /\ wait["temp"] \in Nat
               /\ \A i \in DOMAIN commands : commands[i] \in Command
                                             /\ commands[i].left \in Int
  <1>1. /\ TIVA_HEARTBEAT_PERIOD \in Nat \ {0} /\ TEMP_HEARTBEAT_MS \in Nat \ {0}
        /\ StallCap \in Nat /\ Least \in Int /\ Period("temp_hb") = TIVA_HEARTBEAT_PERIOD
        /\ Least + TEMP_HEARTBEAT_MS = TIVA_HEARTBEAT_PERIOD
    BY TimeAssumption DEF Least, Period
  <1>2. ASSUME TypeOK
        PROVE  /\ due["temp_hb"] \in Int /\ free \in Nat /\ stall \in Nat
               /\ wait["temp"] \in Nat
    BY <1>2, Periods DEF TypeOK, TimersOK, HistoriesOK, TasksOK, Tasks
  <1>3. ASSUME TypeOK, NEW i \in DOMAIN commands
        PROVE  commands[i] \in Command /\ commands[i].left \in Int
    <2>1. commands \in Seq(Command)
      BY <1>3 DEF TypeOK, TimersOK
    <2>2. commands[i] \in Command
      BY <2>1
    <2> QED BY <2>2 DEF Command
  <1> QED BY <1>1, <1>2, <1>3

(* A heartbeat stays in a queue until it is at its head and is taken. *)
LEMMA QueuedFacts ==
  ASSUME NEW q \in Seq(Msg)
  PROVE  /\ Queued(Append(q, Heartbeat))
         /\ \A m \in Msg : Queued(q) => Queued(Append(q, m))
         /\ q # <<>> /\ Queued(q) => Head(q) = Heartbeat \/ Queued(Tail(q))
  <1>1. \A m \in Msg : /\ DOMAIN Append(q, m) = 1..(Len(q) + 1)
                       /\ Append(q, m)[Len(q) + 1] = m
                       /\ \A i \in DOMAIN q : i \in 1..Len(q) /\ Append(q, m)[i] = q[i]
    OBVIOUS
  <1>2. Len(q) \in Nat /\ Len(q) + 1 \in 1..(Len(q) + 1)
        /\ 1..Len(q) \subseteq 1..(Len(q) + 1)
    OBVIOUS
  <1>3. Queued(Append(q, Heartbeat))
    BY <1>1, <1>2, MessagesTyped DEF Queued
  <1>4. \A m \in Msg : Queued(q) => Queued(Append(q, m))
    BY <1>1, <1>2 DEF Queued
  <1>5. ASSUME q # <<>>, Queued(q), Head(q) # Heartbeat PROVE Queued(Tail(q))
    <2>1. PICK i \in DOMAIN q : q[i] = Heartbeat
      BY <1>5 DEF Queued
    <2>2. i # 1 /\ i \in 1..Len(q)
      BY <1>5, <2>1
    <2>3. i - 1 \in DOMAIN Tail(q) /\ Tail(q)[i - 1] = q[i]
      BY <1>5, <2>2
    <2> QED BY <2>1, <2>3 DEF Queued
  <1> QED BY <1>3, <1>4, <1>5

(* A step after which a heartbeat on its way is still on its way, or has   *)
(* set the timer, and which leaves temp_task alone.                        *)
Passes ==
  /\ pc'["temp"] = pc["temp"] /\ wait'["temp"] = wait["temp"] /\ free' = free
  /\ free > 0 /\ wait["temp"] <= TEMP_HEARTBEAT_MS =>
       /\ OnItsWay => OnItsWay' \/ HandledInTime'
       /\ HandledInTime => HandledInTime'
LEMMA PassesRegular == Regular /\ Passes => Regular'
  BY DEF Regular, Passes

(* A step that leaves the timers and the histories alone. *)
TimersSame == UNCHANGED <<commands, running, due, free, stall>>
LEMMA SameAlarm ==
  TimersSame /\ (pc'["temp"] # "dead" => pc["temp"] # "dead")
    => /\ Prompt => Prompt'
       /\ Spared => Spared'
       /\ Commanded => Commanded'
       /\ wait'["temp"] = wait["temp"] /\ HandledInTime => HandledInTime'
  BY DEF TimersSame, Prompt, Spared, Commanded, ForHeartbeat, HandledInTime


(* What starting a timer does to the heartbeat's. *)
LEMMA InsertEffect ==
  ASSUME TimersOK, NEW t \in Timers, NEW n \in Int, NEW rest \in Seq(Command),
         NEW again \in Int, Insert(t, n, rest, again)
  PROVE  /\ t # "temp_hb" =>
              /\ due'["temp_hb"] = due["temp_hb"]
              /\ "temp_hb" \in running' <=> "temp_hb" \in running
              /\ \A i \in DOMAIN commands' : commands'[i].timer = "temp_hb" =>
                   i \in DOMAIN rest /\ commands'[i] = rest[i]
              /\ \A i \in DOMAIN rest : i \in DOMAIN commands' /\ commands'[i] = rest[i]
         /\ t = "temp_hb" /\ n > 0 =>
              commands' = rest /\ due'["temp_hb"] = n /\ "temp_hb" \in running'
  <1>1. "temp_hb" \in Timers /\ running \in SUBSET Timers /\ due \in [Timers -> Int]
    BY DEF Timers, TimersOK
  <1>2. CASE n > 0
    <2>1. /\ running' = running \cup {t} /\ due' = [due EXCEPT ![t] = n]
          /\ commands' = rest
      BY <1>2 DEF Insert
    <2> QED BY <1>1, <2>1
  <1>3. CASE ~(n > 0)
    <2> DEFINE c == [timer |-> t, left |-> again]
    <2>1. /\ running' = running \ {t} /\ due' = [due EXCEPT ![t] = 0]
          /\ commands' = Append(rest, c)
      BY <1>3 DEF Insert
    <2>2. c \in Command /\ c.timer = t
      BY DEF Command
    <2> HIDE DEF c
    <2>3. /\ DOMAIN Append(rest, c) = DOMAIN rest \cup {Len(rest) + 1}
          /\ Append(rest, c)[Len(rest) + 1] = c
          /\ \A i \in DOMAIN rest : Append(rest, c)[i] = rest[i]
      BY <2>2
    <2> QED BY <1>1, <1>3, <2>1, <2>2, <2>3
  <1> QED BY <1>2, <1>3

(* A timer expires: the heartbeat's, while main_task waits for work, in    *)
(* time for its next round.                                                *)
LEMMA ExpiredAlarm ==
  ASSUME AlarmInv, NEW t \in Timers, prvProcessExpiredTimer(t)
  PROVE  (Regular /\ Prompt /\ Spared)'
  <1>a. /\ TypeOK /\ TasksOK /\ TimersOK /\ Regular /\ Prompt /\ Spared
        /\ "timer" \in Tasks /\ {"temp", "main"} \subseteq Tasks \ {"timer"}
        /\ {"line", "drain"} \subseteq TimerLabels
    BY DEF AlarmInv, TypeOK, Tasks, TimerLabels
  <1> DEFINE n == due[t] + Period(t)
  <1>1. /\ n \in Int /\ commands \in Seq(Command) /\ Insert(t, n, commands, n)
        /\ due[t] <= 0 /\ t \in running
        /\ t = "read" => Await("timer", "line", SendTimeout)
        /\ t # "read" => Goto("timer", "drain")
        /\ UNCHANGED <<main_queue, rec_msg, free, stall>>
    BY <1>a, ExpiredTypes DEF Expired, queueVars, histVars
  <1>2. /\ pc'["temp"] = pc["temp"] /\ wait'["temp"] = wait["temp"]
        /\ pc'["main"] = pc["main"]
    BY <1>a, <1>1, AwaitTypes, GotoTypes, Periods
  <1>3. t = "temp_hb" => n = due["temp_hb"] + TIVA_HEARTBEAT_PERIOD
    BY AlarmNumbers
  <1> HIDE DEF n
  <1>4. CASE t # "temp_hb"
    <2>1. /\ due'["temp_hb"] = due["temp_hb"]
          /\ "temp_hb" \in running' <=> "temp_hb" \in running
          /\ \A i \in DOMAIN commands' : commands'[i].timer = "temp_hb" =>
               i \in DOMAIN commands /\ commands'[i] = commands[i]
          /\ \A i \in DOMAIN commands : i \in DOMAIN commands' /\ commands'[i] = commands[i]
      BY <1>a, <1>1, <1>4, InsertEffect
    <2>2. Prompt' /\ Spared'
      BY <1>a, <1>1, <1>2, <2>1 DEF Prompt, Spared, ForHeartbeat
    <2>3. OnItsWay => OnItsWay'
      BY <1>1, <1>2, <2>1 DEF OnItsWay, Queued, Resetting, Commanded, ForHeartbeat
    <2>4. HandledInTime => HandledInTime'
      BY <1>2, <2>1 DEF HandledInTime
    <2> QED BY <1>a, <1>1, <1>2, <2>2, <2>3, <2>4, PassesRegular DEF Passes
  <1>5. CASE t = "temp_hb"
    <2>1. /\ due["temp_hb"] \in Int /\ stall \in Nat /\ Least \in Int
          /\ TIVA_HEARTBEAT_PERIOD \in Nat \ {0} /\ TEMP_HEARTBEAT_MS \in Nat
          /\ wait["temp"] \in Nat /\ Least + TEMP_HEARTBEAT_MS = TIVA_HEARTBEAT_PERIOD
      BY <1>a, AlarmNumbers
    <2>2. Spared'
      <3>1. pc["temp"] # "dead" /\ stall < Least => due["temp_hb"] + stall >= Least
        BY <1>a, <1>1, <1>5 DEF Spared
      <3>2. due["temp_hb"] + stall >= Least => ~(stall < Least)
        BY <1>1, <1>5, <2>1
      <3> QED BY <1>1, <1>2, <3>1, <3>2 DEF Spared
    <2>3. ASSUME free > 0
          PROVE  /\ commands' = commands /\ due'["temp_hb"] >= TIVA_HEARTBEAT_PERIOD
                 /\ "temp_hb" \in running'
      <3>1. due["temp_hb"] >= 0
        BY <1>a, <1>1, <1>5, <2>3 DEF Prompt
      <3>2. n >= TIVA_HEARTBEAT_PERIOD /\ n > 0
        BY <1>3, <1>5, <2>1, <3>1
      <3> QED BY <1>a, <1>1, <1>5, <3>2, InsertEffect
    <2>4. free > 0 => due'["temp_hb"] \in Int
      BY <1>a, <1>1, ExpiredTypes DEF TimersOK, Timers
    <2>5. Prompt'
      BY <1>a, <1>1, <2>1, <2>3, <2>4 DEF Prompt, ForHeartbeat
    <2>6. free > 0 /\ wait["temp"] <= TEMP_HEARTBEAT_MS => HandledInTime'
      BY <1>2, <2>1, <2>3, <2>4 DEF HandledInTime
    <2> QED BY <1>a, <1>1, <1>2, <2>2, <2>5, <2>6, PassesRegular DEF Passes
  <1> QED BY <1>4, <1>5

(* The timer task reads a command: the heartbeat's starts its timer anew.  *)
LEMMA DrainAlarm ==
  ASSUME AlarmInv, prvProcessReceivedCommands
  PROVE  (Regular /\ Prompt /\ Spared)'
  <1>a. /\ TypeOK /\ TasksOK /\ TimersOK /\ Regular /\ Prompt /\ Spared
        /\ "timer" \in Tasks /\ {"temp", "main"} \subseteq Tasks \ {"timer"}
        /\ "select" \in TimerLabels
    BY DEF AlarmInv, TypeOK, Tasks, TimerLabels
  <1>1. CASE commands = <<>>
    <2>1. /\ Goto("timer", "select") /\ TimersSame
          /\ UNCHANGED <<main_queue, rec_msg>>
      BY <1>1 DEF prvProcessReceivedCommands, TimersSame, timerVars, histVars, queueVars
    <2>2. /\ pc'["temp"] = pc["temp"] /\ wait'["temp"] = wait["temp"]
          /\ pc'["main"] = pc["main"]
      BY <1>a, <2>1, GotoTypes
    <2>3. OnItsWay => OnItsWay'
      BY <2>1, <2>2, SameAlarm DEF OnItsWay, Resetting
    <2> QED BY <1>a, <2>1, <2>2, <2>3, SameAlarm, PassesRegular DEF Passes, TimersSame
  <1>2. CASE commands # <<>>
    <2> DEFINE c == Head(commands) rest == Tail(commands)
    <2>1. /\ c.timer \in Timers /\ rest \in Seq(Command) /\ c.left \in Int
          /\ c.left + Period(c.timer) \in Int
          /\ Insert(c.timer, c.left, rest, c.left + Period(c.timer))
          /\ c = commands[1] /\ 1 \in DOMAIN commands /\ TimersOK'
          /\ \A i \in DOMAIN rest : i + 1 \in DOMAIN commands /\ rest[i] = commands[i + 1]
          /\ UNCHANGED <<main_queue, rec_msg, free, stall, pc, wait>>
      BY <1>a, <1>2, DrainTypes DEF queueVars, histVars
    <2>2. \A i \in DOMAIN commands : i = 1 \/ (i - 1 \in DOMAIN rest /\ rest[i - 1] = commands[i])
      BY <1>a, <1>2 DEF TimersOK
    <2> HIDE DEF c, rest
    <2>3. CASE c.timer # "temp_hb"
      <3>1. /\ due'["temp_hb"] = due["temp_hb"]
            /\ "temp_hb" \in running' <=> "temp_hb" \in running
            /\ \A i \in DOMAIN commands' : commands'[i].timer = "temp_hb" =>
                 i \in DOMAIN rest /\ commands'[i] = rest[i]
            /\ \A i \in DOMAIN rest : i \in DOMAIN commands' /\ commands'[i] = rest[i]
        BY <1>a, <2>1, <2>3, InsertEffect
      <3>2. Prompt' /\ Spared'
        BY <1>a, <2>1, <3>1 DEF Prompt, Spared, ForHeartbeat
      <3>3. Commanded => Commanded'
        BY <2>1, <2>2, <2>3, <3>1 DEF Commanded, ForHeartbeat
      <3>4. OnItsWay => OnItsWay'
        BY <2>1, <3>3 DEF OnItsWay, Resetting
      <3>5. HandledInTime => HandledInTime'
        BY <2>1, <3>1 DEF HandledInTime
      <3> QED BY <1>a, <2>1, <3>2, <3>4, <3>5, PassesRegular DEF Passes
    <2>4. CASE c.timer = "temp_hb"
      <3>1. /\ stall \in Nat /\ Least \in Int
            /\ TIVA_HEARTBEAT_PERIOD \in Nat \ {0} /\ TEMP_HEARTBEAT_MS \in Nat
            /\ wait["temp"] \in Nat /\ Least + TEMP_HEARTBEAT_MS = TIVA_HEARTBEAT_PERIOD
        BY <1>a, AlarmNumbers
      <3>2. c.left > 0 =>
              commands' = rest /\ due'["temp_hb"] = c.left /\ "temp_hb" \in running'
        BY <1>a, <2>1, <2>4, InsertEffect
      <3>3. Spared'
        <4> SUFFICES ASSUME pc["temp"] # "dead", stall < Least
                     PROVE  /\ due'["temp_hb"] + stall >= Least
                            /\ \A i \in DOMAIN commands' : commands'[i].timer = "temp_hb"
                                 => commands'[i].left + stall >= Least
          BY <2>1 DEF Spared, ForHeartbeat
        <4>1. /\ c.left + stall >= Least
              /\ \A i \in DOMAIN commands : commands[i].timer = "temp_hb"
                   => commands[i].left + stall >= Least
          BY <1>a, <2>1, <2>4 DEF Spared, ForHeartbeat
        <4>2. c.left > 0
          BY <2>1, <3>1, <4>1
        <4> QED BY <2>1, <3>2, <4>1, <4>2
      <3>4. ASSUME free > 0
            PROVE  /\ commands' = rest /\ due'["temp_hb"] = TIVA_HEARTBEAT_PERIOD
                   /\ "temp_hb" \in running'
        <4>1. c.left = TIVA_HEARTBEAT_PERIOD
          BY <1>a, <2>1, <2>4, <3>4 DEF Prompt, ForHeartbeat
        <4> QED BY <3>1, <3>2, <4>1
      <3>5. Prompt'
        <4>1. free > 0 => \A i \in DOMAIN commands : commands[i].timer = "temp_hb"
                            => commands[i].left = TIVA_HEARTBEAT_PERIOD
          BY <1>a DEF Prompt, ForHeartbeat
        <4> QED BY <2>1, <3>1, <3>4, <4>1 DEF Prompt, ForHeartbeat
      <3>6. free > 0 /\ wait["temp"] <= TEMP_HEARTBEAT_MS => HandledInTime'
        BY <2>1, <3>1, <3>4 DEF HandledInTime
      <3> QED BY <1>a, <2>1, <3>3, <3>5, <3>6, PassesRegular DEF Passes
    <2> QED BY <2>3, <2>4
  <1> QED BY <1>1, <1>2

(* The other steps of the timer task. *)
LEMMA ReadAlarm ==
  ASSUME AlarmInv, temp_read_line \/ temp_read_sentence \/ vQueueWaitForMessageRestricted
  PROVE  (Regular /\ Prompt /\ Spared)'
  <1>a. /\ TypeOK /\ TasksOK /\ Regular /\ Prompt /\ Spared /\ main_queue \in Seq(Msg)
        /\ "timer" \in Tasks /\ {"temp", "main"} \subseteq Tasks \ {"timer"}
        /\ {"sentence", "drain"} \subseteq TimerLabels
    BY DEF AlarmInv, TypeOK, QueuesOK, Tasks, TimerLabels
  <1>1. /\ Await("timer", "sentence", SendTimeout) \/ Goto("timer", "drain")
        /\ \/ main_queue' = main_queue
           \/ \E m \in Msg : main_queue' = Append(main_queue, m)
        /\ UNCHANGED rec_msg /\ TimersSame
    BY MessagesTyped DEF temp_read_line, temp_read_sentence, vQueueWaitForMessageRestricted,
          msg_send, QueueSend, TimersSame, timerVars, histVars, queueVars
  <1>2. /\ pc'["temp"] = pc["temp"] /\ wait'["temp"] = wait["temp"]
        /\ pc'["main"] = pc["main"]
    BY <1>a, <1>1, AwaitTypes, GotoTypes, Periods
  <1>3. Queued(main_queue) => Queued(main_queue)'
    BY <1>a, <1>1, QueuedFacts DEF Queued
  <1>4. OnItsWay => OnItsWay'
    BY <1>1, <1>2, <1>3, SameAlarm DEF OnItsWay, Resetting
  <1> QED BY <1>a, <1>1, <1>2, <1>4, SameAlarm, PassesRegular DEF Passes, TimersSame


(* A new command for a timer, which has a whole period left. *)
LEMMA CommandAlarm ==
  ASSUME TypeOK, Prompt, Spared, NEW t \in Timers, Issue(t),
         UNCHANGED <<free, stall>>, pc'["temp"] # "dead" => pc["temp"] # "dead"
  PROVE  /\ Prompt' /\ Spared'
         /\ Commanded => Commanded'
         /\ t = "temp_hb" => Commanded'
         /\ UNCHANGED <<running, due>>
  <1> DEFINE n == Len(commands) + 1
  <1>1. /\ commands'[n] = [timer |-> t, left |-> Period(t)]
        /\ \A i \in DOMAIN commands : commands'[i] = commands[i]
        /\ DOMAIN commands' = DOMAIN commands \cup {n}
        /\ UNCHANGED <<running, due>>
    BY IssueTypes DEF TypeOK
  <1>2. /\ commands'[n].timer = t
        /\ t = "temp_hb" => commands'[n].left = TIVA_HEARTBEAT_PERIOD
    BY <1>1, AlarmNumbers
  <1> HIDE DEF n
  <1>3. TIVA_HEARTBEAT_PERIOD + stall >= Least
    BY AlarmNumbers
  <1>4. Prompt'
    BY <1>1, <1>2 DEF Prompt, ForHeartbeat
  <1>5. Spared'
    BY <1>1, <1>2, <1>3 DEF Spared, ForHeartbeat
  <1> QED BY <1>1, <1>2, <1>4, <1>5 DEF Commanded, ForHeartbeat

(* The steps of main_task hand a heartbeat on.                             *)
LEMMA MainAlarm == AlarmInv /\ MainNext => (Regular /\ Prompt /\ Spared)'
  <1> SUFFICES ASSUME AlarmInv, MainNext PROVE (Regular /\ Prompt /\ Spared)'
    OBVIOUS
  <1>a. /\ TypeOK /\ TasksOK /\ Regular /\ Prompt /\ Spared /\ main_queue \in Seq(Msg)
        /\ "main" \in Tasks /\ "temp" \in Tasks \ {"main"}
        /\ {"start_temp", "start_gas", "recv", "write", "route", "reset"} \subseteq MainLabels
    BY DEF AlarmInv, TypeOK, QueuesOK, Tasks, MainLabels, Starting
  <1>1. CASE MainHello
    <2>1. /\ Goto("main", "start_temp") /\ pc["main"] = "hello" /\ TimersSame
          /\ \/ main_queue' = main_queue
             \/ \E m \in Msg : main_queue' = Append(main_queue, m)
      BY <1>1, MessagesTyped
         DEF MainHello, msg_send, QueueSend, TimersSame, timerVars, histVars
    <2>2. pc'["temp"] = pc["temp"] /\ wait'["temp"] = wait["temp"]
      BY <1>a, <2>1, GotoTypes
    <2>3. Queued(main_queue) => Queued(main_queue)'
      BY <1>a, <2>1, QueuedFacts DEF Queued
    <2>4. OnItsWay => OnItsWay'
      BY <2>1, <2>2, <2>3, SameAlarm DEF OnItsWay, Resetting
    <2> QED BY <1>a, <2>1, <2>2, <2>4, SameAlarm, PassesRegular DEF Passes, TimersSame
  <1>2. CASE MainStartTimer \/ tiva_heartbeat
    <2>1. PICK t \in Timers, l \in {"start_gas", "recv"} :
            /\ Issue(t) /\ Goto("main", l)
            /\ UNCHANGED <<queueVars, rec_msg, blocked, histVars>>
            /\ Resetting => t = "temp_hb"
      BY <1>2, Periods DEF MainStartTimer, tiva_heartbeat, Resetting
    <2>2. pc'["temp"] = pc["temp"] /\ wait'["temp"] = wait["temp"]
      BY <1>a, <2>1, GotoTypes
    <2>3. UNCHANGED <<main_queue, free, stall>>
      BY <2>1 DEF queueVars, histVars
    <2>4. /\ Prompt' /\ Spared' /\ (Commanded => Commanded')
          /\ t = "temp_hb" => Commanded'
          /\ UNCHANGED <<running, due>>
      BY <1>a, <2>1, <2>2, <2>3, CommandAlarm
    <2>5. OnItsWay => OnItsWay'
      BY <2>1, <2>3, <2>4 DEF OnItsWay
    <2>6. HandledInTime => HandledInTime'
      BY <2>2, <2>4 DEF HandledInTime
    <2> QED BY <1>a, <2>2, <2>3, <2>4, <2>5, <2>6, PassesRegular DEF Passes
  <1>3. CASE MainRecv
    <2>1. /\ pc["main"] = "recv" /\ main_queue # <<>> /\ rec_msg' = Head(main_queue)
          /\ main_queue' = Tail(main_queue) /\ Handle(Head(main_queue)) /\ TimersSame
      BY <1>3 DEF MainRecv, TimersSame, timerVars
    <2>2. PICK l \in {"write", "route", "reset", "recv"},
               n \in {timeOut, SendTimeout, 0} : Await("main", l, n)
      BY <2>1 DEF Handle, Goto
    <2>3. pc'["temp"] = pc["temp"] /\ wait'["temp"] = wait["temp"]
      BY <1>a, <2>2, AwaitTypes, Periods
    <2>4. Head(main_queue) = Heartbeat => Resetting'
      <3>1. ASSUME Head(main_queue) = Heartbeat
            PROVE  Goto("main", "reset") /\ rec_msg'.from = DEFS_TASK_TEMP
        BY <2>1, <3>1 DEF Handle, Heartbeat, Message, DEFS_ID_TIVA, DEFS_TASK_TIVA,
             DEFS_TASK_TEMP, TIVA_HEARTBEAT
      <3> QED BY <1>a, <3>1, GotoTypes DEF Resetting
    <2>5. Queued(main_queue) => Resetting' \/ Queued(main_queue)'
      BY <1>a, <2>1, <2>4, QueuedFacts DEF Queued
    <2>6. OnItsWay => OnItsWay'
      BY <2>1, <2>5, <2>3, SameAlarm DEF OnItsWay, Resetting
    <2> QED BY <1>a, <2>1, <2>3, <2>6, SameAlarm, PassesRegular DEF Passes, TimersSame
  <1>4. CASE MainWrite \/ msg_route
    <2>1. /\ Goto("main", "recv") /\ pc["main"] # "reset" /\ TimersSame
          /\ UNCHANGED main_queue
      BY <1>4 DEF MainWrite, msg_route, TimersSame, timerVars, histVars, queueVars
    <2>2. pc'["temp"] = pc["temp"] /\ wait'["temp"] = wait["temp"]
      BY <1>a, <2>1, GotoTypes
    <2>3. OnItsWay => OnItsWay'
      BY <2>1, <2>2, SameAlarm DEF OnItsWay, Resetting
    <2> QED BY <1>a, <2>1, <2>2, <2>3, SameAlarm, PassesRegular DEF Passes, TimersSame
  <1> QED BY <1>1, <1>2, <1>3, <1>4 DEF MainNext

(* temp_task sends a heartbeat, and waits no longer for the next one.      *)
LEMMA TempAlarm == AlarmInv /\ TempNext => (Regular /\ Prompt /\ Spared)'
  <1> SUFFICES ASSUME AlarmInv, TempNext PROVE (Regular /\ Prompt /\ Spared)'
    OBVIOUS
  <1>a. /\ TypeOK /\ TasksOK /\ Regular /\ Prompt /\ Spared /\ main_queue \in Seq(Msg)
        /\ "temp" \in Tasks /\ {"recv", "beat", "dead"} \subseteq TempLabels
    BY DEF AlarmInv, TypeOK, QueuesOK, Tasks, TempLabels
  <1>b. /\ TEMP_HEARTBEAT_MS \in Nat /\ SendTimeout \in Nat \ {0} /\ 0 \in Nat
        /\ free \in Nat /\ wait["temp"] \in Nat
    BY <1>a, AlarmNumbers, Periods
  <1>1. CASE TempStart
    <2>1. /\ Issue("read") /\ Await("temp", "recv", TEMP_HEARTBEAT_MS)
          /\ pc["temp"] = "start" /\ UNCHANGED <<free, stall>> /\ "read" \in Timers
      BY <1>1, Periods DEF TempStart, histVars
    <2>2. pc'["temp"] = "recv" /\ wait'["temp"] = TEMP_HEARTBEAT_MS
      BY <1>a, <1>b, <2>1, AwaitTypes
    <2>3. ~(free > 0)
      BY <1>a, <2>1 DEF Regular
    <2>4. Regular'
      BY <1>b, <2>1, <2>2, <2>3 DEF Regular
    <2> QED BY <1>a, <2>1, <2>4, CommandAlarm
  <1>2. CASE TempRecv \/ TempTimeout
    <2>1. /\ Goto("temp", "dead") \/ Await("temp", "beat", SendTimeout)
          /\ pc["temp"] = "recv" /\ TimersSame
      BY <1>2 DEF TempRecv, TempTimeout, TimersSame, timerVars, histVars
    <2>2. \/ pc'["temp"] = "dead"
          \/ pc'["temp"] = "beat" /\ wait'["temp"] = SendTimeout
      BY <1>a, <1>b, <2>1, AwaitTypes, GotoTypes
    <2>3. Regular'
      BY <1>b, <2>2 DEF Regular
    <2> QED BY <1>a, <2>1, <2>3, SameAlarm
  <1>3. CASE TempBeat
    <2>1. /\ msg_send("temp", Heartbeat) /\ Await("temp", "recv", TEMP_HEARTBEAT_MS)
          /\ pc["temp"] = "beat" /\ TimersSame
      BY <1>3 DEF TempBeat, TimersSame, timerVars, histVars
    <2>2. pc'["temp"] = "recv" /\ wait'["temp"] = TEMP_HEARTBEAT_MS
      BY <1>a, <1>b, <2>1, AwaitTypes
    <2>3. free > 0 => Queued(main_queue')
      <3>1. free > 0 => wait["temp"] > 0
        BY <1>a, <2>1 DEF Regular
      <3>2. free > 0 => main_queue' = Append(main_queue, Heartbeat)
        BY <1>b, <2>1, <3>1 DEF msg_send, QueueSend
      <3> QED BY <1>a, <3>2, QueuedFacts
    <2>4. Regular'
      BY <1>b, <2>1, <2>2, <2>3 DEF Regular, OnItsWay, Queued, TimersSame
    <2> QED BY <1>a, <2>1, <2>4, SameAlarm
  <1> QED BY <1>1, <1>2, <1>3 DEF TempNext


(* A unit passes while main_task waits for work: no message is left, no    *)
(* command, and temp_task waits for its next round.                        *)
LEMMA FreeTick ==
  ASSUME TypeOK, Tick, pc["main"] = "recv"
  PROVE  /\ commands = <<>> /\ ~Expired("temp_hb") /\ ~OnItsWay
         /\ pc["temp"] \in {"recv", "dead"}
         /\ pc["temp"] = "recv" => wait["temp"] > 0
  <1>1. ~TimerReady /\ ~MainReady /\ ~TempReady
    BY DEF Tick, Quiet
  <1>2. main_queue = <<>>
    BY <1>1 DEF MainReady
  <1>3. HasRoom(main_queue)
    BY <1>2, QueueAssumption DEF HasRoom
  <1>4. pc["timer"] = "select"
    BY <1>1, <1>3, Waiting DEF TypeOK, TasksOK, TimerLabels, Room
  <1>5. commands = <<>> /\ ~Expired("temp_hb")
    BY <1>1, <1>4, Waiting, Periods
  <1>6. CommandRoom
    BY <1>5, QueueAssumption DEF CommandRoom
  <1>7. ~Queued(main_queue) /\ ~Resetting /\ ~Commanded
    BY <1>2, <1>5 DEF Queued, Resetting, Commanded
  <1>8. pc["temp"] \in {"recv", "dead"} /\ (pc["temp"] = "recv" => wait["temp"] # 0)
    BY <1>1, <1>3, <1>6 DEF TempReady, TypeOK, TasksOK, TempLabels
  <1>9. wait["temp"] \in Nat
    BY AlarmNumbers
  <1> QED BY <1>5, <1>7, <1>8, <1>9 DEF OnItsWay

(* A unit passes: either the next heartbeat comes nearer, or the last one  *)
(* was handled and the timer's time runs down with temp_task's.            *)
LEMMA TickAlarm ==
  ASSUME StallCap >= Least, AlarmInv, Tick
  PROVE  (Regular /\ Prompt /\ Spared)'
  <1>a. /\ TypeOK /\ Regular /\ Prompt /\ Spared /\ "temp" \in Tasks
        /\ "temp_hb" \in Timers
    BY DEF AlarmInv, Tasks, Timers
  <1>b. /\ TEMP_HEARTBEAT_MS \in Nat \ {0} /\ Least \in Int /\ StallCap \in Nat
        /\ free \in Nat /\ stall \in Nat /\ wait["temp"] \in Nat
        /\ due["temp_hb"] \in Int
        /\ \A i \in DOMAIN commands : commands[i].left \in Int
    BY <1>a, AlarmNumbers
  <1>1. /\ UNCHANGED <<pc, running>> /\ DOMAIN commands' = DOMAIN commands
        /\ \A i \in DOMAIN commands : /\ commands'[i].timer = commands[i].timer
                                      /\ commands'[i].left = commands[i].left - 1
        /\ due'["temp_hb"] = IF "temp_hb" \in running THEN due["temp_hb"] - 1
                                                      ELSE due["temp_hb"]
        /\ wait'["temp"] = IF wait["temp"] > 0 THEN wait["temp"] - 1 ELSE 0
        /\ free' = Freer
        /\ stall' = IF Freer > TEMP_HEARTBEAT_MS THEN 0 ELSE Older(stall)
    BY <1>a, TickTypes
  <1>2. free' = 0 \/ pc["main"] = "recv"
    BY <1>1 DEF Freer
  <1>3. ASSUME pc["main"] = "recv", pc["temp"] # "dead", free > 0,
               ~(free + wait["temp"] <= TEMP_HEARTBEAT_MS)
        PROVE  HandledInTime
    <2>1. ~OnItsWay /\ pc["temp"] = "recv"
      BY <1>a, <1>3, FreeTick
    <2> QED BY <1>a, <1>3, <2>1 DEF Regular
  <1>4. ASSUME pc["main"] = "recv", pc["temp"] # "dead", HandledInTime
        PROVE  HandledInTime' /\ due'["temp_hb"] >= Least
    <2>1. /\ wait["temp"] > 0 /\ "temp_hb" \in running
          /\ due["temp_hb"] >= Least + wait["temp"]
      BY <1>a, <1>4, FreeTick DEF HandledInTime
    <2>2. /\ wait'["temp"] = wait["temp"] - 1 /\ "temp_hb" \in running'
          /\ due'["temp_hb"] = due["temp_hb"] - 1
      BY <1>1, <2>1
    <2> QED BY <1>b, <2>1, <2>2 DEF HandledInTime
  <1>5. Regular'
    <2> SUFFICES ASSUME pc["temp"] # "dead"
                 PROVE  /\ pc["temp"] = "recv" => wait'["temp"] <= TEMP_HEARTBEAT_MS
                        /\ free' > 0 =>
                             /\ pc["temp"] = "recv"
                             /\ free' + wait'["temp"] <= TEMP_HEARTBEAT_MS \/ HandledInTime'
      BY <1>1 DEF Regular
    <2>1. pc["temp"] = "recv" => wait["temp"] <= TEMP_HEARTBEAT_MS
      BY <1>a DEF Regular
    <2>2. pc["temp"] = "recv" => wait'["temp"] <= TEMP_HEARTBEAT_MS
      BY <1>b, <1>1, <2>1
    <2>3. ASSUME free' > 0
          PROVE  /\ pc["temp"] = "recv"
                 /\ free' + wait'["temp"] <= TEMP_HEARTBEAT_MS \/ HandledInTime'
      <3>1. pc["main"] = "recv"
        BY <1>2, <2>3
      <3>2. pc["temp"] = "recv" /\ wait["temp"] > 0
        BY <1>a, <3>1, FreeTick
      <3>3. wait'["temp"] = wait["temp"] - 1
        BY <1>1, <3>2
      <3>4. CASE free = 0
        <4>1. free' = 1
          BY <1>1, <1>b, <3>1, <3>4 DEF Freer
        <4> QED BY <1>b, <2>1, <3>2, <3>3, <4>1
      <3>5. CASE free > 0 /\ free + wait["temp"] <= TEMP_HEARTBEAT_MS
        <4>1. free' = free + 1
          BY <1>1, <1>b, <3>1, <3>5 DEF Freer
        <4> QED BY <1>b, <3>2, <3>3, <3>5, <4>1
      <3>6. CASE free > 0 /\ ~(free + wait["temp"] <= TEMP_HEARTBEAT_MS)
        BY <1>3, <1>4, <3>1, <3>2, <3>6
      <3> QED BY <1>b, <3>4, <3>5, <3>6
    <2> QED BY <2>2, <2>3
  <1>6. Prompt'
    <2> SUFFICES ASSUME free' > 0
                 PROVE  /\ "temp_hb" \in running => due'["temp_hb"] >= 0
                        /\ DOMAIN commands' = {}
      BY <1>1 DEF Prompt
    <2>1. pc["main"] = "recv"
      BY <1>2
    <2>2. commands = <<>> /\ ~Expired("temp_hb")
      BY <1>a, <2>1, FreeTick
    <2> QED BY <1>1, <1>b, <2>2 DEF Expired
  <1>7. Spared'
    <2> SUFFICES ASSUME pc["temp"] # "dead", stall' < Least
                 PROVE  /\ "temp_hb" \in running => due'["temp_hb"] + stall' >= Least
                        /\ \A i \in DOMAIN commands : commands[i].timer = "temp_hb" =>
                             commands'[i].left + stall' >= Least
      BY <1>1 DEF Spared, ForHeartbeat
    <2>1. CASE Freer > TEMP_HEARTBEAT_MS
      <3>1. pc["main"] = "recv" /\ free > 0 /\ free >= TEMP_HEARTBEAT_MS
        BY <1>b, <2>1 DEF Freer
      <3>2. commands = <<>> /\ (pc["temp"] = "recv" => wait["temp"] > 0)
            /\ pc["temp"] = "recv"
        BY <1>a, <3>1, FreeTick
      <3>3. HandledInTime
        BY <1>b, <1>3, <3>1, <3>2
      <3>4. due'["temp_hb"] >= Least /\ stall' = 0
        BY <1>1, <1>4, <2>1, <3>1, <3>3
      <3>5. DOMAIN commands = {}
        BY <3>2
      <3>6. due'["temp_hb"] \in Int
        BY <1>1, <1>b
      <3> QED BY <1>b, <3>4, <3>5, <3>6
    <2>2. CASE ~(Freer > TEMP_HEARTBEAT_MS)
      <3>1. stall' = stall + 1 /\ stall < Least
        BY <1>1, <1>b, <2>2 DEF Older
      <3>2. /\ "temp_hb" \in running => due["temp_hb"] + stall >= Least
            /\ \A i \in DOMAIN commands : commands[i].timer = "temp_hb" =>
                 commands[i].left + stall >= Least
        BY <1>a, <3>1 DEF Spared, ForHeartbeat
      <3> QED BY <1>1, <1>b, <3>1, <3>2
    <2> QED BY <2>1, <2>2
  <1> QED BY <1>5, <1>6, <1>7

(* The steps of the environment, and a step in which nothing happens.      *)
LEMMA EnvAlarm ==
  AlarmInv /\ (EnvNext \/ UNCHANGED vars) => (Regular /\ Prompt /\ Spared)'
  <1> SUFFICES ASSUME AlarmInv, EnvNext \/ UNCHANGED vars
               PROVE  (Regular /\ Prompt /\ Spared)'
    OBVIOUS
  <1>a. /\ TypeOK /\ TasksOK /\ Regular /\ Prompt /\ Spared /\ main_queue \in Seq(Msg)
        /\ "main" \in Tasks /\ "temp" \in Tasks \ {"main"} /\ "hello" \in MainLabels
    BY DEF AlarmInv, TypeOK, QueuesOK, Tasks, MainLabels, Starting
  <1>1. /\ TimersSame /\ UNCHANGED rec_msg
        /\ \/ pc["main"] = "connect" /\ Await("main", "hello", SendTimeout)
           \/ UNCHANGED <<pc, wait>>
        /\ \/ main_queue' = main_queue
           \/ \E m \in Msg : main_queue' = Append(main_queue, m)
    BY MessagesTyped DEF EnvNext, tiva_open_socket, Unblock, ApiSend, TimersSame, vars,
          timerVars, histVars, queueVars
  <1>2. /\ pc'["temp"] = pc["temp"] /\ wait'["temp"] = wait["temp"]
        /\ pc["main"] = "reset" => pc'["main"] = "reset"
    BY <1>a, <1>1, AwaitTypes, Periods
  <1>3. Queued(main_queue) => Queued(main_queue)'
    BY <1>a, <1>1, QueuedFacts DEF Queued
  <1>4. OnItsWay => OnItsWay'
    BY <1>1, <1>2, <1>3, SameAlarm DEF OnItsWay, Resetting
  <1> QED BY <1>a, <1>1, <1>2, <1>4, SameAlarm, PassesRegular DEF Passes, TimersSame

(* Every step keeps the invariant.                                         *)
LEMMA AlarmInductive ==
  StallCap >= Least => (AlarmInv /\ [Next]_vars => AlarmInv')
  <1> SUFFICES ASSUME StallCap >= Least, AlarmInv, [Next]_vars PROVE AlarmInv'
    OBVIOUS
  <1>1. TypeOK'
    BY TypeInductive DEF AlarmInv
  <1>2. TimerNext => (Regular /\ Prompt /\ Spared)'
    BY ExpiredAlarm, DrainAlarm, ReadAlarm DEF TimerNext
  <1>3. (Regular /\ Prompt /\ Spared)'
    BY <1>2, MainAlarm, TempAlarm, TickAlarm, EnvAlarm DEF Next
  <1> QED BY <1>1, <1>3 DEF AlarmInv

(* The heartbeat timer of a live temperature task expires only if          *)
(* main_task was held up for nearly the whole period, whatever the periods *)
(* and the timeouts of the sends are.  StallCap bounds the history only:   *)
(* it must be able to count that time.                                     *)
THEOREM AlarmCorrect ==
  ASSUME StallCap >= TIVA_HEARTBEAT_PERIOD - TEMP_HEARTBEAT_MS
  PROVE  Spec => NoFalseAlarm
  <1>1. Init => AlarmInv
    <2> SUFFICES ASSUME Init PROVE AlarmInv
      OBVIOUS
    <2>1. /\ pc["temp"] = "start" /\ free = 0 /\ running = {} /\ commands = <<>>
      BY DEF Init
    <2> QED BY <2>1, TypeInit DEF AlarmInv, Regular, Prompt, Spared
  <1>2. AlarmInv /\ [Next]_vars => AlarmInv'
    BY AlarmInductive DEF Least
  <1>3. ASSUME AlarmInv, prvProcessExpiredTimer("temp_hb"), pc["temp"] # "dead"
        PROVE  stall >= TIVA_HEARTBEAT_PERIOD - TEMP_HEARTBEAT_MS
    <2>1. /\ "temp_hb" \in running /\ due["temp_hb"] <= 0
      BY <1>3 DEF prvProcessExpiredTimer, Expired
    <2>2. /\ stall < Least => due["temp_hb"] + stall >= Least
          /\ due["temp_hb"] \in Int /\ stall \in Nat /\ Least \in Int
      BY <1>3, <2>1, AlarmNumbers DEF AlarmInv, Spared
    <2>3. stall >= Least
      BY <2>1, <2>2
    <2> QED BY <2>3 DEF Least
  <1>4. AlarmInv /\ [Next]_vars =>
          [prvProcessExpiredTimer("temp_hb") /\ pc["temp"] # "dead"
             => stall >= TIVA_HEARTBEAT_PERIOD - TEMP_HEARTBEAT_MS]_vars
    BY <1>3
  <1> QED BY <1>1, <1>2, <1>4, PTL DEF Spec, NoFalseAlarm


-----------------------------------------------------------------------------
(* Where a task waits with a timeout, and for how long at most.            *)
Sends == {"hello", "route", "beat", "line", "sentence"}
Waits(k) == pc[k] \in Sends \cup {"write"} \/ (k = "temp" /\ pc[k] = "recv")
Longest(k, l) ==
  IF l = "write" THEN timeOut
  ELSE IF l \in Sends THEN SendTimeout
  ELSE IF k = "temp" /\ l = "recv" THEN TEMP_HEARTBEAT_MS ELSE 0
Brief == \A k \in Tasks : wait[k] <= Longest(k, pc[k])

(* No task waits longer than its timeout: a unit passes only while each of *)
(* them waits for the network, for a message or in a send, it brings every *)
(* send nearer to its end, and nobody waits for the timer task's queue.    *)
WaitsEnd ==
  [][Tick => /\ pc["main"] \in {"connect", "hello", "recv", "write", "route"}
             /\ pc["temp"] # "start" /\ pc["timer"] # "drain"
             /\ \A k \in Tasks : Waits(k) =>
                  wait[k] \in 1..Longest(k, pc[k]) /\ wait'[k] = wait[k] - 1]_vars

(* A task that begins to wait has its timeout before it. *)
LEMMA AwaitBrief ==
  ASSUME TasksOK, Brief, NEW k \in Tasks, NEW l, NEW n, n <= Longest(k, l), Await(k, l, n)
  PROVE  Brief'
  <1>1. /\ pc' = [pc EXCEPT ![k] = l] /\ wait' = [wait EXCEPT ![k] = n]
        /\ DOMAIN pc = Tasks /\ DOMAIN wait = Tasks
    BY DEF Await, TasksOK
  <1>2. ASSUME NEW j \in Tasks PROVE wait'[j] <= Longest(j, pc'[j])
    <2>1. CASE j = k
      <3>1. pc'[j] = l /\ wait'[j] = n
        BY <1>1, <2>1
      <3> QED BY <2>1, <3>1, Zenon
    <2>2. CASE j # k
      <3>1. pc'[j] = pc[j] /\ wait'[j] = wait[j]
        BY <1>1, <2>2
      <3> QED BY <3>1, Zenon DEF Brief
    <2> QED BY <2>1, <2>2
  <1> QED BY <1>2, Zenon DEF Brief

(* The timeouts that the code gives are those. *)
LEMMA Timeouts ==
  /\ \A k \in Tasks : \A l : 0 <= Longest(k, l)
  /\ \A k \in Tasks, l \in Sends : SendTimeout <= Longest(k, l)
  /\ timeOut <= Longest("main", "write")
  /\ TEMP_HEARTBEAT_MS <= Longest("temp", "recv")
  BY TimeAssumption DEF Longest, Sends

(* Each step other than the passing of time that moves a task sends it to  *)
(* wait for its timeout or not at all.                                     *)
LEMMA StepBrief ==
  ASSUME TypeOK, [Next]_vars
  PROVE  \/ UNCHANGED <<pc, wait>>
         \/ \E k \in Tasks : \E l, n : Await(k, l, n) /\ n <= Longest(k, l)
         \/ Tick
  <1> DEFINE Moves == \E k \in Tasks : \E l, n : Await(k, l, n) /\ n <= Longest(k, l)
  <1>a. "main" \in Tasks /\ "temp" \in Tasks /\ "timer" \in Tasks
    BY DEF Tasks
  <1>b. ASSUME NEW k \in Tasks, NEW l, Goto(k, l) PROVE Moves
    BY <1>b, Timeouts DEF Goto
  <1>c. ASSUME NEW k \in Tasks, NEW l \in Sends, Await(k, l, SendTimeout) PROVE Moves
    BY <1>c, Timeouts
  <1>d. Sends = {"hello", "route", "beat", "line", "sentence"}
    BY DEF Sends
  <1>1. ASSUME TimerNext PROVE Moves \/ UNCHANGED <<pc, wait>>
    <2>1. \/ Await("timer", "line", SendTimeout) \/ Await("timer", "sentence", SendTimeout)
          \/ Goto("timer", "drain") \/ Goto("timer", "select") \/ UNCHANGED <<pc, wait>>
      BY <1>1 DEF TimerNext, prvProcessExpiredTimer, vQueueWaitForMessageRestricted,
                  prvProcessReceivedCommands, temp_read_line, temp_read_sentence
    <2> QED BY <1>a, <1>b, <1>c, <1>d, <2>1
  <1>2. ASSUME MainNext PROVE Moves
    <2>1. \/ \E l : Goto("main", l)
          \/ Await("main", "write", timeOut) \/ Await("main", "route", SendTimeout)
      BY <1>2 DEF MainNext, MainHello, MainStartTimer, MainRecv, Handle, MainWrite,
                  msg_route, tiva_heartbeat
    <2>2. Await("main", "write", timeOut) => Moves
      BY <1>a, Timeouts
    <2> QED BY <1>a, <1>b, <1>c, <1>d, <2>1, <2>2
  <1>3. ASSUME TempNext PROVE Moves
    <2>1. \/ Await("temp", "recv", TEMP_HEARTBEAT_MS)
          \/ Await("temp", "beat", SendTimeout) \/ Goto("temp", "dead")
      BY <1>3 DEF TempNext, TempStart, TempRecv, TempTimeout, TempBeat
    <2>2. Await("temp", "recv", TEMP_HEARTBEAT_MS) => Moves
      BY <1>a, Timeouts
    <2> QED BY <1>a, <1>b, <1>c, <1>d, <2>1, <2>2
  <1>4. ASSUME EnvNext PROVE Moves \/ UNCHANGED <<pc, wait>>
    <2>1. Await("main", "hello", SendTimeout) \/ UNCHANGED <<pc, wait>>
      BY <1>4 DEF EnvNext, tiva_open_socket, Unblock, ApiSend
    <2> QED BY <1>a, <1>c, <1>d, <2>1
  <1>5. ASSUME UNCHANGED vars PROVE UNCHANGED <<pc, wait>>
    BY <1>5 DEF vars
  <1> QED BY <1>1, <1>2, <1>3, <1>4, <1>5 DEF Next

(* What passes a unit later. *)
LEMMA TickWaits ==
  ASSUME TypeOK, Tick
  PROVE  pc' = pc /\ \A k \in Tasks : wait'[k] = IF wait[k] > 0 THEN wait[k] - 1 ELSE 0
  BY DEF TypeOK, TasksOK, Tick

(* Every step keeps the waits within their timeouts. *)
LEMMA BriefInductive == TypeOK /\ Brief /\ [Next]_vars => Brief'
  <1> SUFFICES ASSUME TypeOK, Brief, [Next]_vars PROVE Brief'
    OBVIOUS
  <1>1. CASE UNCHANGED <<pc, wait>>
    BY <1>1 DEF Brief
  <1>2. CASE \E k \in Tasks : \E l, n : Await(k, l, n) /\ n <= Longest(k, l)
    BY <1>2, AwaitBrief DEF TypeOK
  <1>3. CASE Tick
    <2>1. ASSUME NEW k \in Tasks PROVE wait'[k] <= Longest(k, pc'[k])
      <3>1. /\ pc'[k] = pc[k] /\ wait'[k] = IF wait[k] > 0 THEN wait[k] - 1 ELSE 0
            /\ wait[k] \in Nat /\ wait[k] <= Longest(k, pc[k])
        BY <1>3, TickWaits DEF TypeOK, TasksOK, Brief
      <3>2. Longest(k, pc[k]) \in Nat
        BY TimeAssumption DEF Longest
      <3> QED BY <3>1, <3>2
    <2> QED BY <2>1 DEF Brief
  <1> QED BY <1>1, <1>2, <1>3, StepBrief

(* What a task waits for when a unit passes. *)
LEMMA QuietWaits ==
  ASSUME TypeOK, NeverWaitsForTimer, Tick
  PROVE  /\ pc["main"] \in {"connect", "hello", "recv", "write", "route"}
         /\ pc["temp"] # "start" /\ pc["timer"] # "drain"
         /\ \A k \in Tasks : Waits(k) => wait[k] # 0
  <1>1. ~TimerReady /\ ~MainReady /\ ~TempReady
    BY DEF Tick, Quiet
  <1>2. /\ pc["main"] \in MainLabels /\ pc["temp"] \in TempLabels /\ pc["timer"] \in TimerLabels
    BY DEF TypeOK, TasksOK
  <1>3. /\ pc["timer"] # "drain"
        /\ pc["timer"] \in {"line", "sentence"} => wait["timer"] # 0
    BY <1>1 DEF TimerReady
  <1>4. /\ pc["main"] \notin {"start_temp", "start_gas", "reset"}
        /\ pc["main"] \in {"hello", "write", "route"} => wait["main"] # 0
    BY <1>1 DEF MainReady, SendReturns, NeverWaitsForTimer
  <1>5. /\ pc["temp"] # "start"
        /\ pc["temp"] \in {"recv", "beat"} => wait["temp"] # 0
    BY <1>1 DEF TempReady, NeverWaitsForTimer
  <1>6. ASSUME NEW k \in Tasks, Waits(k) PROVE wait[k] # 0
    BY <1>2, <1>3, <1>4, <1>5, <1>6
       DEF Waits, Sends, Tasks, MainLabels, Starting, TempLabels, TimerLabels
  <1> QED BY <1>2, <1>3, <1>4, <1>5, <1>6 DEF MainLabels, Starting

(* What makes TasksGoOn a matter of time: no task waits longer than its    *)
(* timeout in the circle in which they send to one another, and a unit     *)
(* never passes with one of them held up for good.                         *)
THEOREM WaitsCorrect ==
  ASSUME configTIMER_QUEUE_LENGTH >= 4, 2 * SendTimeout <= TEMP_PER
  PROVE  Spec => WaitsEnd
  <1>1. Init => Brief
    BY TimeAssumption DEF Init, Brief, Tasks, Longest, Sends
  <1>2. TimerInv => TypeOK
    BY DEF TimerInv
  <1>3. TimerInv /\ [Next]_vars => TimerInv'
    BY TimerInductive DEF ReadInTime
  <1>4. TypeOK /\ Brief /\ NeverWaitsForTimer =>
          [Tick => /\ pc["main"] \in {"connect", "hello", "recv", "write", "route"}
                   /\ pc["temp"] # "start" /\ pc["timer"] # "drain"
                   /\ \A k \in Tasks : Waits(k) =>
                        wait[k] \in 1..Longest(k, pc[k]) /\ wait'[k] = wait[k] - 1]_vars
    <2> SUFFICES ASSUME TypeOK, Brief, NeverWaitsForTimer, Tick, NEW k \in Tasks, Waits(k)
                 PROVE  wait[k] \in 1..Longest(k, pc[k]) /\ wait'[k] = wait[k] - 1
      BY QuietWaits
    <2>1. /\ wait[k] \in Nat /\ wait[k] # 0 /\ wait[k] <= Longest(k, pc[k])
          /\ wait'[k] = IF wait[k] > 0 THEN wait[k] - 1 ELSE 0
      BY QuietWaits, TickWaits DEF TypeOK, TasksOK, Brief
    <2>2. Longest(k, pc[k]) \in Nat
      BY TimeAssumption DEF Longest
    <2> QED BY <2>1, <2>2
  <1>5. Spec => []NeverWaitsForTimer
    BY NeverWaits
  <1> QED BY <1>1, <1>2, <1>3, <1>4, <1>5, TimerInitially, BriefInductive, PTL
          DEF Spec, WaitsEnd
=============================================================================
