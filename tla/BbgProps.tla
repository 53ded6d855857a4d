------------------------------ MODULE BbgProps ------------------------------
(***************************************************************************)
(* What is claimed of the BeagleBone process: see README.md, "Properties". *)
(***************************************************************************)
EXTENDS Bbg

Ids(s) == {s[i].id : i \in DOMAIN s} \ {0}
Increasing(s) ==
  \A i, j \in DOMAIN s :
    i < j /\ s[i].id # 0 /\ s[j].id # 0 => s[i].id < s[j].id
Before(A, B) == \A a \in A, b \in B : a < b

(* The way of a message: wire, socket thread, main's queue, main, its task. *)
Held == {main_rx.id} \ {0}
Sending == IF pc["sock"] = "send" THEN {socket_msg.id} \ {0} ELSE {}
Upstream == Ids(queues[DEFS_TASK_BBG]) \cup Sending \cup Ids(wire)
OtherTasks == Tasks \ {DEFS_TASK_BBG}

(* Every variable has its type, no queue is longer than its capacity, and  *)
(* a message waits only in its addressee's queue or in main's.             *)
QueuesOK ==
  /\ queues \in [Tasks -> Seq(Msg)]
  /\ \A t \in Tasks : Len(queues[t]) <= MSG_MAXMSGS
  /\ \A t \in OtherTasks : \A i \in DOMAIN queues[t] :
       queues[t][i].to = t /\ queues[t][i].devt = DEFS_ID_BBG
ThreadsOK ==
  /\ pc \in Labels
  /\ main_rx \in Msg /\ log_rx \in Msg /\ socket_msg \in Msg
  /\ pc["main"] = "route" =>
       main_rx.to \in OtherTasks /\ main_rx.devt = DEFS_ID_BBG
NetworkOK ==
  /\ socket_conn \in BOOLEAN
  /\ peer \in {"away", "open", "closed", "reset"}
  /\ wire \in Seq(Msg) /\ sent \in Nat
LogOK ==
  /\ log_file \in Paths \cup {NoFile}
  /\ disk \in [Paths -> SUBSET Nat] /\ unlogged \in SUBSET Nat
ProcessOK ==
  /\ timers \in [OtherTasks -> 0..TimerLimit]
  /\ restarts \in Nat
  /\ taken \in [Tasks -> SUBSET Nat]
TypeOK == QueuesOK /\ ThreadsOK /\ NetworkOK /\ LogOK /\ ProcessOK

(* Messages never overtake one another between the wire and their task,    *)
(* and none is handed over twice, whatever dies and restarts: what a task  *)
(* has is older than what waits for it, and each stage of the way holds    *)
(* older messages than the stage behind it.                                *)
InOrder ==
  /\ \A t \in Tasks : Increasing(queues[t])
  /\ Increasing(wire)
  /\ \A t \in Tasks : Before(taken[t], Ids(queues[t]) \cup Held \cup Upstream)
  /\ \A t \in OtherTasks : Before(Ids(queues[t]), Held \cup Upstream)
  /\ Before(Held, Upstream)
  /\ Before(Ids(queues[DEFS_TASK_BBG]), Sending \cup Ids(wire))
  /\ Before(Sending, Ids(wire))

NotAfter(A, B) == \A a \in A, b \in B : a <= b

(* The same order when the peer may hang up: the last message is then sent *)
(* to its task again and again, but never after a younger one.             *)
NeverOvertaken ==
  /\ \A t \in OtherTasks : NotAfter(Ids(queues[t]), Held \cup Upstream)
  /\ \A t \in Tasks : NotAfter(taken[t], Ids(queues[t]) \cup Held \cup Upstream)
  /\ NotAfter(Held, Upstream)
  /\ NotAfter(Ids(queues[DEFS_TASK_BBG]), Sending \cup Ids(wire))
  /\ NotAfter(Sending, Ids(wire))

(* As long as the process lives, every message sent to it has reached its  *)
(* task or is on the way: no thread drops one.                             *)
NothingLost ==
  restarts = 0 /\ pc["main"] # "dead" =>
    1..sent \subseteq Held \cup Upstream
                      \cup UNION {taken[t] \cup Ids(queues[t]) : t \in Tasks}

(* main, while it starts, is the only reader of the queue it writes to; it *)
(* blocks itself for good only if the peer sent MSG_MAXMSGS - 2 messages   *)
(* before main came to its loop.                                           *)
StartupHasRoom ==
  pc["main"] \in Starting /\ ~HasRoom(DEFS_TASK_BBG) => sent >= MSG_MAXMSGS - 2

(* main waits for room in a task's queue while that task waits for room in *)
(* main's: neither ever goes on.                                           *)
CircularWait ==
  /\ pc["main"] = "route" /\ ~HasRoom(main_rx.to) /\ ~HasRoom(DEFS_TASK_BBG)
  /\ \/ main_rx.to = DEFS_TASK_LOG /\ pc["log"] = "send"
     \/ main_rx.to = DEFS_TASK_SPEAK /\ pc["speak"] \in {"init", "terminate"}

(* The circular wait takes two full queues, so a peer that never has that  *)
(* many messages outstanding cannot cause it.                              *)
NoEarlyCircularWait == CircularWait => sent >= 2 * MSG_MAXMSGS - 1

(* Opening the file with "w+" erases nothing that was logged: every line   *)
(* handed to the logger is in the file, was given up, or is being written. *)
(* The lines log_log gives up (no file open yet) are the first ones: once  *)
(* a line is in the file, no later line is missing.                        *)
LogComplete ==
  /\ taken[DEFS_TASK_LOG] =
       (disk[LogPath] \cup unlogged \cup {log_rx.id}) \ {0}
  /\ Before(unlogged \ {0}, disk[LogPath] \ {0})

-----------------------------------------------------------------------------
(* The numbers on their way to task t: in a sequence, in one buffer, in all. *)
AmongFor(t, s) == {s[i].id : i \in {j \in DOMAIN s : s[j].to = t}} \ {0}
OneFor(t, m) == IF m.to = t THEN {m.id} \ {0} ELSE {}
Pending(t) ==
  AmongFor(t, queues[t]) \cup OneFor(t, main_rx)
    \cup AmongFor(t, queues[DEFS_TASK_BBG])
    \cup (IF pc["sock"] = "send" THEN OneFor(t, socket_msg) ELSE {})
    \cup AmongFor(t, wire)

Deaths == restarts + IF pc["main"] = "dead" THEN 1 ELSE 0

Bus == INSTANCE MsgBus WITH
  posted <- sent, pending <- [t \in Tasks |-> Pending(t)],
  handed <- taken, deaths <- Deaths

(* The four threads and three queues implement the abstract message bus:   *)
(* every step of the process is one of the bus or leaves the bus alone.    *)
ImplementsBus == Bus!BusSpec

(* The peer was too quick: main waits in its start-up for its own queue. *)
StartupBlocked ==
  pc["main"] \in Starting /\ Len(queues[DEFS_TASK_BBG]) = MSG_MAXMSGS

(* main gets through its start-up to its loop, unless that happens. *)
MainStarts == <>(pc["main"] = "recv" \/ StartupBlocked)

(* Every message the peer sends reaches a task, unless that happens. *)
Delivered ==
  \A n \in 1..PeerBudget :
    (sent >= n) ~> ((\E t \in Tasks : n \in taken[t]) \/ StartupBlocked)

-----------------------------------------------------------------------------
(* speak.h: SPEAK_KILL is the command that kills the speak task. *)
SpeakKillStops ==
  [][SpeakRecv /\ Head(queues[DEFS_TASK_SPEAK]).cmd = SPEAK_KILL
       => pc'["speak"] = "terminate"]_vars
=============================================================================
