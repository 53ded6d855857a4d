-------------------------------- MODULE Bbg --------------------------------
(***************************************************************************)
(* The BeagleBone process (bbg.c, msg.c, log.c, speak.c): four threads,    *)
(* one bounded POSIX message queue per task, one TCP connection to the     *)
(* TIVA board.  msg_send always goes to main's queue; main passes every    *)
(* message on to its task with a blocking mq_send.  The queues belong to   *)
(* the kernel and survive the process.                                     *)
(*                                                                         *)
(* Messages of the peer carry a number (id, 1, 2, ... in the order they    *)
(* were sent; 0 for a message made on this board) that the program does    *)
(* not have: it tells losses, duplicates and reorderings apart.  The       *)
(* stream is taken to deliver whole messages here.                         *)
(***************************************************************************)
EXTENDS Naturals, Sequences, FiniteSets

CONSTANTS
  MSG_MAXMSGS,          \* capacity of a queue
  Paths, LogPath,       \* file names, and the name main gives the logger
  PeerMsgs,             \* messages the peer may send, with id 0
  PeerBudget,           \* bound: messages the peer sends in all
  TimerLimit,           \* bound: kernel timers a process may own, per task
  MaxRestarts,          \* bound: how often the process dies and is restarted
  PeerMayClose,         \* whether the peer may close the connection
  FopenMayFail          \* whether fopen may return NULL

DEFS_ID_BBG == 0
DEFS_TASK_BBG == 0      \* main
DEFS_TASK_SPEAK == 1
DEFS_TASK_LOG == 2
Tasks == {DEFS_TASK_BBG, DEFS_TASK_SPEAK, DEFS_TASK_LOG}

LOG_INIT == 0
LOG_LOG == 1
LOG_SETPATH == 2
LOG_KILL == 4
SPEAK_INIT == 0
SPEAK_SPEAK == 1
SPEAK_KILL == 2
BBG_HEARTBEAT == 0

Byte == 0..255
Char0 == 48             \* the character '0' socket_msg is filled with
NoFile == "NULL"        \* log_file when no file is open

(* msg_t: sender, addressee and command; flag and path stand for the data. *)
(* A message for this board names one of its tasks.                        *)
Msg == {m \in [from : Byte, devt : Byte, to : Byte, cmd : Byte,
               flag : Byte, path : Paths, id : Nat] :
          m.devt = DEFS_ID_BBG => m.to \in Tasks}

Local(f, t, c, d) == [from |-> f, devt |-> DEFS_ID_BBG, to |-> t, cmd |-> c,
                      flag |-> d, path |-> LogPath, id |-> 0]
LogMsg(f) == Local(f, DEFS_TASK_LOG, LOG_LOG, 1)        \* LOG_FMT

(* socket_msg before anything was read into it. *)
ZeroMsg == [from |-> Char0, devt |-> Char0, to |-> Char0, cmd |-> Char0,
            flag |-> Char0, path |-> LogPath, id |-> 0]

ASSUME CapacityAssumption == MSG_MAXMSGS \in Nat /\ MSG_MAXMSGS >= 3
ASSUME PathAssumption == LogPath \in Paths /\ NoFile \notin Paths
ASSUME PeerAssumption ==
  /\ PeerBudget \in Nat /\ TimerLimit \in Nat \ {0} /\ MaxRestarts \in Nat
  /\ PeerMayClose \in BOOLEAN /\ FopenMayFail \in BOOLEAN
  /\ PeerMsgs \subseteq [from : Byte, devt : {DEFS_ID_BBG}, to : Tasks,
                         cmd : Byte, flag : Byte, path : Paths, id : {0}]

VARIABLES
  queues,               \* the POSIX queue of each task
  pc,                   \* where each thread is
  main_rx, log_rx,      \* the message main, the logger is working on
  socket_msg,           \* the buffer the socket thread reads into
  socket_conn,          \* whether accept has returned
  peer,                 \* the peer's end of the connection
  wire,                 \* messages sent and not yet read
  log_file,             \* the open log file
  timers,               \* kernel timers created, per watched task
  restarts,
  sent,                 \* messages sent by the peer so far
  taken,                \* per task, the numbers of the messages it received
  disk,                 \* per file, the numbers of the messages in it
  unlogged              \* numbers of the messages log_log gave up

progVars == <<pc, main_rx, log_rx, socket_msg, socket_conn, log_file, timers>>
netVars == <<peer, wire, sent>>
logVars == <<log_file, disk, unlogged>>
vars == <<queues, pc, main_rx, log_rx, socket_msg, socket_conn, peer, wire,
          log_file, timers, restarts, sent, taken, disk, unlogged>>

Starting == {"log_init", "speak_init", "hello"}
Labels == [main : Starting \cup {"recv", "route", "write", "dead"},
           log : {"recv", "handle", "send", "dead"},
           speak : {"recv", "init", "play", "terminate", "dead"},
           sock : {"accept", "deaf", "read", "send", "dead"}]

(* What main sends before its loop, and where it goes from there. *)
StartMsg ==
  [log_init |-> Local(DEFS_TASK_BBG, DEFS_TASK_LOG, LOG_INIT, 1),
   speak_init |-> Local(DEFS_TASK_BBG, DEFS_TASK_SPEAK, SPEAK_INIT, 0),
   hello |-> Local(DEFS_TASK_BBG, DEFS_TASK_SPEAK, SPEAK_SPEAK, 72)]
AfterStart ==
  [log_init |-> "speak_init", speak_init |-> "hello", hello |-> "recv"]

Fresh == [main |-> "log_init", log |-> "recv", speak |-> "recv",
          sock |-> "accept"]
Dead == [main |-> "dead", log |-> "dead", speak |-> "dead", sock |-> "dead"]

Init ==
  /\ queues = [t \in Tasks |-> <<>>]
  /\ pc = Fresh
  /\ main_rx = ZeroMsg /\ log_rx = ZeroMsg /\ socket_msg = ZeroMsg
  /\ socket_conn = FALSE
  /\ peer = "away" /\ wire = <<>> /\ sent = 0
  /\ log_file = NoFile /\ disk = [p \in Paths |-> {}] /\ unlogged = {}
  /\ timers = [t \in {DEFS_TASK_SPEAK, DEFS_TASK_LOG} |-> 0]
  /\ restarts = 0
  /\ taken = [t \in Tasks |-> {}]

-----------------------------------------------------------------------------
(* Operators called X_How are mutants of X, for the runs that show that a   *)
(* property notices; no other definition uses them.                         *)
HasRoom_OneLess(t) == Len(queues[t]) < MSG_MAXMSGS - 1
HasRoom(t) == Len(queues[t]) < MSG_MAXMSGS

MqSend_NonBlocking(t, m) ==
  queues' = IF HasRoom(t) THEN [queues EXCEPT ![t] = Append(@, m)] ELSE queues
MqSend_Urgent(t, m) ==
  /\ HasRoom(t)
  /\ queues' = [queues EXCEPT ![t] = <<m>> \o @]

(* mq_send blocks while the queue is full. *)
MqSend(t, m) ==
  /\ HasRoom(t)
  /\ queues' = [queues EXCEPT ![t] = Append(@, m)]

msg_send(m) == MqSend(DEFS_TASK_BBG, m)

(* mq_receive blocks while the queue is empty; a task takes its own. *)
MqReceive(t) ==
  /\ queues[t] # <<>>
  /\ queues' = [queues EXCEPT ![t] = Tail(@)]

Received(t, m) ==
  taken' = IF m.id = 0 THEN taken ELSE [taken EXCEPT ![t] = @ \cup {m.id}]

Goto(th, l) == pc' = [pc EXCEPT ![th] = l]

(* bbg_init_timer: its argument is a copy, so every call makes a new kernel *)
(* timer until the process owns all it may.                                 *)
NewTimers(ts) ==
  timers' = [t \in DOMAIN timers |->
              IF t \in ts /\ timers[t] < TimerLimit THEN timers[t] + 1
                                                     ELSE timers[t]]

-----------------------------------------------------------------------------
(* main, before and in its loop *)

MainStart ==
  /\ pc["main"] \in Starting
  /\ msg_send(StartMsg[pc["main"]])
  /\ Goto("main", AfterStart[pc["main"]])
  /\ IF pc["main"] = "hello" THEN NewTimers({DEFS_TASK_SPEAK, DEFS_TASK_LOG})
                             ELSE UNCHANGED timers
  /\ UNCHANGED <<main_rx, log_rx, socket_msg, socket_conn, restarts, taken,
                 netVars, logVars>>

bbg_heartbeat(m) == NewTimers({m.from})

MainRecv ==
  /\ pc["main"] = "recv"
  /\ MqReceive(DEFS_TASK_BBG)
  /\ LET m == Head(queues[DEFS_TASK_BBG]) IN
       \/ /\ m.devt # DEFS_ID_BBG
          /\ main_rx' = m /\ Goto("main", "write")
          /\ UNCHANGED <<timers, taken>>
       \/ /\ m.devt = DEFS_ID_BBG /\ m.to # DEFS_TASK_BBG
          /\ main_rx' = m /\ Goto("main", "route")
          /\ UNCHANGED <<timers, taken>>
       \/ /\ m.devt = DEFS_ID_BBG /\ m.to = DEFS_TASK_BBG
          /\ IF m.cmd = BBG_HEARTBEAT THEN bbg_heartbeat(m)
                                      ELSE UNCHANGED timers
          /\ Received(DEFS_TASK_BBG, m)
          /\ UNCHANGED <<main_rx, pc>>
  /\ UNCHANGED <<log_rx, socket_msg, socket_conn, restarts, netVars, logVars>>

msg_route_ToLog ==
  /\ pc["main"] = "route"
  /\ MqSend(DEFS_TASK_LOG, main_rx)
  /\ Goto("main", "recv")
  /\ main_rx' = ZeroMsg
  /\ UNCHANGED <<log_rx, socket_msg, socket_conn, timers, restarts, taken,
                 netVars, logVars>>

msg_route ==
  /\ pc["main"] = "route"
  /\ MqSend(main_rx.to, main_rx)
  /\ Goto("main", "recv")
  /\ main_rx' = ZeroMsg
  /\ UNCHANGED <<log_rx, socket_msg, socket_conn, timers, restarts, taken,
                 netVars, logVars>>

(* write(socket_conn): before accept the descriptor is 0, the terminal; to  *)
(* a peer that has closed the first writes succeed and draw a reset.        *)
MainWrite ==
  /\ pc["main"] = "write"
  /\ \/ /\ ~socket_conn \/ peer = "open"
        /\ UNCHANGED peer
     \/ /\ socket_conn /\ peer = "closed"
        /\ peer' \in {"closed", "reset"}
  /\ Goto("main", "recv")
  /\ main_rx' = ZeroMsg
  /\ UNCHANGED <<queues, log_rx, socket_msg, socket_conn, timers, restarts,
                 taken, wire, sent, logVars>>

-----------------------------------------------------------------------------
(* the speak thread *)

SpeakRecv ==
  /\ pc["speak"] = "recv"
  /\ MqReceive(DEFS_TASK_SPEAK)
  /\ LET m == Head(queues[DEFS_TASK_SPEAK]) IN
       /\ Received(DEFS_TASK_SPEAK, m)
       /\ Goto("speak", CASE m.cmd = SPEAK_INIT -> "init"
                          [] m.cmd = SPEAK_SPEAK -> "play"
                          [] m.cmd = LOG_KILL -> "terminate"
                          [] OTHER -> "recv")
  /\ UNCHANGED <<main_rx, log_rx, socket_msg, socket_conn, timers, restarts,
                 netVars, logVars>>

(* speak_init, and speak_terminate after pthread_exit: both send a line.   *)
SpeakSend ==
  /\ pc["speak"] \in {"init", "terminate"}
  /\ msg_send(LogMsg(DEFS_TASK_SPEAK))
  /\ Goto("speak", IF pc["speak"] = "init" THEN "recv" ELSE "dead")
  /\ UNCHANGED <<main_rx, log_rx, socket_msg, socket_conn, timers, restarts,
                 taken, netVars, logVars>>

SpeakPlayed_FallsThrough ==
  /\ pc["speak"] = "play"
  /\ Goto("speak", "terminate")
  /\ UNCHANGED <<queues, main_rx, log_rx, socket_msg, socket_conn, timers,
                 restarts, taken, netVars, logVars>>

(* speak_speak: system() returns when the sentence is over. *)
SpeakPlayed ==
  /\ pc["speak"] = "play"
  /\ Goto("speak", "recv")
  /\ UNCHANGED <<queues, main_rx, log_rx, socket_msg, socket_conn, timers,
                 restarts, taken, netVars, logVars>>

-----------------------------------------------------------------------------
(* the log thread *)

LogRecv ==
  /\ pc["log"] = "recv"
  /\ MqReceive(DEFS_TASK_LOG)
  /\ log_rx' = Head(queues[DEFS_TASK_LOG])
  /\ Received(DEFS_TASK_LOG, log_rx')
  /\ Goto("log", "handle")
  /\ UNCHANGED <<main_rx, socket_msg, socket_conn, timers, restarts, netVars,
                 logVars>>

(* fopen: the name of the file, or NULL; "w+" empties the file. *)
Fopen(path, mode) ==
  \E f \in {path} \cup (IF FopenMayFail THEN {NoFile} ELSE {}) :
    /\ log_file' = f
    /\ disk' = IF f # NoFile /\ mode = "w+" THEN [disk EXCEPT ![f] = {}]
                                            ELSE disk

log_init(m) ==
  /\ Fopen(m.path, IF m.flag = 1 THEN "w+" ELSE "a+")
  /\ Goto("log", IF log_file' = NoFile THEN "recv" ELSE "send")
  /\ UNCHANGED unlogged

log_log_OpensDefault(m) ==
  /\ log_file' = IF log_file = NoFile THEN LogPath ELSE log_file
  /\ disk' = [disk EXCEPT ![log_file'] = @ \cup {m.id}]
  /\ Goto("log", "recv")
  /\ UNCHANGED unlogged

log_log(m) ==
  /\ IF log_file = NoFile
       THEN unlogged' = unlogged \cup {m.id} /\ UNCHANGED disk
       ELSE disk' = [disk EXCEPT ![log_file] = @ \cup {m.id}]
            /\ UNCHANGED unlogged
  /\ Goto("log", "recv")
  /\ UNCHANGED log_file

log_setpath(m) ==
  /\ Fopen(m.path, "w+")
  /\ Goto("log", "recv")
  /\ UNCHANGED unlogged

(* pthread_exit runs log_terminate, which closes the file. *)
log_kill ==
  /\ log_file' = NoFile
  /\ Goto("log", "dead")
  /\ UNCHANGED <<disk, unlogged>>

LogHandle ==
  /\ pc["log"] = "handle"
  /\ \/ log_rx.cmd = LOG_INIT /\ log_init(log_rx)
     \/ log_rx.cmd = LOG_LOG /\ log_log(log_rx)
     \/ log_rx.cmd = LOG_SETPATH /\ log_setpath(log_rx)
     \/ log_rx.cmd = LOG_KILL /\ log_kill
     \/ /\ log_rx.cmd \notin {LOG_INIT, LOG_LOG, LOG_SETPATH, LOG_KILL}
        /\ Goto("log", "recv")
        /\ UNCHANGED logVars
  /\ log_rx' = ZeroMsg
  /\ UNCHANGED <<queues, main_rx, socket_msg, socket_conn, timers, restarts,
                 taken, netVars>>

(* log_init's own line, once the file is open. *)
LogSend ==
  /\ pc["log"] = "send"
  /\ msg_send(LogMsg(DEFS_TASK_LOG))
  /\ Goto("log", "recv")
  /\ UNCHANGED <<main_rx, log_rx, socket_msg, socket_conn, timers, restarts,
                 taken, netVars, logVars>>

-----------------------------------------------------------------------------
(* the socket thread *)

SockAccept ==
  /\ pc["sock"] = "accept"
  /\ peer # "away"
  /\ socket_conn' = TRUE
  /\ Goto("sock", "read")
  /\ UNCHANGED <<queues, main_rx, log_rx, socket_msg, timers, restarts, taken,
                 netVars, logVars>>

SockRead_NonBlocking ==
  /\ pc["sock"] = "read"
  /\ IF wire # <<>> THEN socket_msg' = Head(wire) /\ wire' = Tail(wire)
                    ELSE UNCHANGED <<socket_msg, wire>>
  /\ Goto("sock", "send")
  /\ UNCHANGED <<queues, main_rx, log_rx, socket_conn, timers, restarts, taken,
                 peer, sent, logVars>>

(* read fills socket_msg, or, once the peer is gone, returns at once and   *)
(* leaves the last message in it; what it returned is not looked at.       *)
SockRead ==
  /\ pc["sock"] = "read"
  /\ \/ /\ wire # <<>>
        /\ socket_msg' = Head(wire)
        /\ wire' = Tail(wire)
     \/ /\ wire = <<>> /\ peer \in {"closed", "reset"}
        /\ UNCHANGED <<socket_msg, wire>>
  /\ Goto("sock", "send")
  /\ UNCHANGED <<queues, main_rx, log_rx, socket_conn, timers, restarts, taken,
                 peer, sent, logVars>>

SockSend ==
  /\ pc["sock"] = "send"
  /\ msg_send(socket_msg)
  /\ Goto("sock", "read")
  /\ UNCHANGED <<main_rx, log_rx, socket_msg, socket_conn, timers, restarts,
                 taken, netVars, logVars>>

-----------------------------------------------------------------------------
(* the peer *)

PeerConnect ==
  /\ peer = "away" /\ pc["sock"] = "accept"
  /\ peer' = "open"
  /\ UNCHANGED <<queues, progVars, wire, sent, restarts, taken, disk, unlogged>>

PeerSend ==
  /\ peer = "open" /\ sent < PeerBudget
  /\ \E m \in PeerMsgs : wire' = Append(wire, [m EXCEPT !.id = sent + 1])
  /\ sent' = sent + 1
  /\ UNCHANGED <<queues, progVars, peer, restarts, taken, disk, unlogged>>

PeerClose ==
  /\ PeerMayClose /\ peer = "open"
  /\ peer' = "closed"
  /\ UNCHANGED <<queues, progVars, wire, sent, restarts, taken, disk, unlogged>>

-----------------------------------------------------------------------------
(* the process *)

Die ==
  /\ pc' = Dead
  /\ main_rx' = ZeroMsg /\ log_rx' = ZeroMsg /\ socket_msg' = ZeroMsg
  /\ log_file' = NoFile
  /\ timers' = [t \in DOMAIN timers |-> 0]
  /\ peer' = "away" /\ wire' = <<>>
  /\ UNCHANGED <<queues, socket_conn, restarts, sent, taken, disk, unlogged>>

Kill ==
  /\ restarts < MaxRestarts
  /\ pc["main"] # "dead"
  /\ Die

(* SIGPIPE: nobody ignores it, so a write to a reset connection is fatal. *)
SigPipe ==
  /\ pc["main"] = "write"
  /\ socket_conn /\ peer = "reset"
  /\ Die

Restart_Unlinks ==
  /\ pc["main"] = "dead" /\ restarts < MaxRestarts
  /\ restarts' = restarts + 1
  /\ pc' = Fresh
  /\ queues' = [t \in Tasks |-> <<>>]
  /\ socket_conn' = FALSE
  /\ UNCHANGED <<main_rx, log_rx, socket_msg, log_file, timers, netVars, taken,
                 disk, unlogged>>

(* msg_init opens the queues as they are.  If the last process had a       *)
(* connection its port may still be busy: bind fails unnoticed and nobody  *)
(* can connect.                                                            *)
Restart ==
  /\ pc["main"] = "dead" /\ restarts < MaxRestarts
  /\ restarts' = restarts + 1
  /\ \E s \in {"accept"} \cup (IF socket_conn THEN {"deaf"} ELSE {}) :
       pc' = [Fresh EXCEPT !["sock"] = s]
  /\ socket_conn' = FALSE
  /\ UNCHANGED <<queues, main_rx, log_rx, socket_msg, log_file, timers,
                 netVars, taken, disk, unlogged>>

MainNext == MainStart \/ MainRecv \/ msg_route \/ MainWrite \/ SigPipe
LogNext == LogRecv \/ LogHandle \/ LogSend
SpeakNext == SpeakRecv \/ SpeakSend \/ SpeakPlayed
SockNext == SockAccept \/ SockRead \/ SockSend
PeerNext == PeerConnect \/ PeerSend \/ PeerClose

Next ==
  MainNext \/ LogNext \/ SpeakNext \/ SockNext \/ PeerNext \/ Kill \/ Restart

Spec == Init /\ [][Next]_vars

(* Every thread that can take a step eventually does: the scheduler of the *)
(* board runs every runnable thread.  Nothing is asked of the peer, nor    *)
(* that a dead process is started again.                                   *)
Fairness ==
  /\ WF_vars(MainNext) /\ WF_vars(LogNext)
  /\ WF_vars(SpeakNext) /\ WF_vars(SockNext)
FairSpec == Spec /\ Fairness
=============================================================================
