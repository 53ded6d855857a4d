----------------------------- MODULE BbgProofs -----------------------------
(***************************************************************************)
(* Proofs about the BeagleBone process, for every capacity of the queues,  *)
(* every set of peer messages and every bound.                             *)
(***************************************************************************)
EXTENDS BbgProps, TLAPS

(* Sequences of messages: what Append and Tail do to length and elements.  *)
LEMMA AppendFacts ==
  ASSUME NEW S, NEW s \in Seq(S), NEW m \in S
  PROVE  /\ Append(s, m) \in Seq(S)
         /\ Len(Append(s, m)) = Len(s) + 1
         /\ DOMAIN Append(s, m) = 1..(Len(s) + 1)
         /\ DOMAIN s = 1..Len(s) /\ Len(s) \in Nat
         /\ \A i \in 1..Len(s) : Append(s, m)[i] = s[i]
         /\ Append(s, m)[Len(s) + 1] = m
  OBVIOUS

(* Length, domain and elements of Tail. *)
LEMMA TailFacts ==
  ASSUME NEW S, NEW s \in Seq(S), s # <<>>
  PROVE  /\ Tail(s) \in Seq(S) /\ Head(s) \in S /\ Head(s) = s[1]
         /\ Len(Tail(s)) = Len(s) - 1
         /\ DOMAIN s = 1..Len(s) /\ Len(s) \in Nat /\ Len(s) > 0
         /\ DOMAIN Tail(s) = 1..(Len(s) - 1)
         /\ \A i \in 1..(Len(s) - 1) : Tail(s)[i] = s[i + 1]
  OBVIOUS

(* The numbers in a sequence after an Append and after a Tail. *)
LEMMA IdsAppend ==
  ASSUME NEW s \in Seq(Msg), NEW m \in Msg
  PROVE  Ids(Append(s, m)) = Ids(s) \cup ({m.id} \ {0})
  <1> DEFINE a == Append(s, m)
  <1>1. /\ DOMAIN a = 1..(Len(s) + 1) /\ DOMAIN s = 1..Len(s) /\ Len(s) \in Nat
        /\ \A i \in 1..Len(s) : a[i] = s[i]
        /\ a[Len(s) + 1] = m
    BY AppendFacts
  <1> HIDE DEF a
  <1>2. {a[i].id : i \in DOMAIN a} = {s[i].id : i \in DOMAIN s} \cup {m.id}
    BY <1>1
  <1> QED BY <1>2 DEF Ids, a

(* Taking the head off leaves the other numbers. *)
LEMMA IdsTail ==
  ASSUME NEW s \in Seq(Msg), s # <<>>
  PROVE  Ids(s) = Ids(Tail(s)) \cup ({Head(s).id} \ {0})
  <1> DEFINE r == Tail(s)
  <1>1. /\ DOMAIN s = 1..Len(s) /\ Len(s) \in Nat /\ Len(s) > 0
        /\ DOMAIN r = 1..(Len(s) - 1) /\ Head(s) = s[1]
        /\ \A i \in 1..(Len(s) - 1) : r[i] = s[i + 1]
    BY TailFacts
  <1> HIDE DEF r
  <1>2. {s[i].id : i \in DOMAIN s} = {r[i].id : i \in DOMAIN r} \cup {Head(s).id}
    <2>1. \A i \in DOMAIN s : i = 1 \/ (i - 1 \in DOMAIN r /\ s[i] = r[i - 1])
      BY <1>1
    <2>2. \A i \in DOMAIN r : i + 1 \in DOMAIN s /\ r[i] = s[i + 1]
      BY <1>1
    <2>3. 1 \in DOMAIN s /\ s[1] = Head(s)
      BY <1>1
    <2> QED BY <2>1, <2>2, <2>3
  <1> QED BY <1>2 DEF Ids, r

(* An increasing sequence stays so under Tail, whose elements the head     *)
(* precedes, and under the Append of a message younger than all in it.     *)
LEMMA IncreasingTail ==
  ASSUME NEW s \in Seq(Msg), s # <<>>, Increasing(s)
  PROVE  Increasing(Tail(s)) /\ Before({Head(s).id} \ {0}, Ids(Tail(s)))
  <1> DEFINE r == Tail(s)
  <1>1. /\ DOMAIN s = 1..Len(s) /\ Len(s) \in Nat /\ Len(s) > 0
        /\ DOMAIN r = 1..(Len(s) - 1) /\ Head(s) = s[1]
        /\ \A i \in 1..(Len(s) - 1) : r[i] = s[i + 1]
    BY TailFacts
  <1> HIDE DEF r
  <1>2. \A i \in DOMAIN r : /\ i \in Nat /\ i + 1 \in DOMAIN s /\ 1 < i + 1
                            /\ 1 \in DOMAIN s /\ r[i] = s[i + 1]
    BY <1>1
  <1>3. Increasing(r)
    <2> SUFFICES ASSUME NEW i \in DOMAIN r, NEW j \in DOMAIN r, i < j,
                        r[i].id # 0, r[j].id # 0
                 PROVE  r[i].id < r[j].id
      BY DEF Increasing
    <2>1. i + 1 \in DOMAIN s /\ j + 1 \in DOMAIN s /\ i + 1 < j + 1
      BY <1>2
    <2> QED BY <1>2, <2>1 DEF Increasing
  <1>4. Before({Head(s).id} \ {0}, Ids(r))
    BY <1>1, <1>2 DEF Increasing, Before, Ids
  <1> QED BY <1>3, <1>4 DEF r

(* Appending a number above all others keeps a sequence increasing. *)
LEMMA IncreasingAppend ==
  ASSUME NEW s \in Seq(Msg), NEW m \in Msg, Increasing(s),
         Before(Ids(s), {m.id} \ {0})
  PROVE  Increasing(Append(s, m))
  <1> DEFINE a == Append(s, m)
  <1>1. /\ DOMAIN a = 1..(Len(s) + 1) /\ DOMAIN s = 1..Len(s) /\ Len(s) \in Nat
        /\ \A i \in 1..Len(s) : a[i] = s[i]
        /\ a[Len(s) + 1] = m
    BY AppendFacts
  <1> HIDE DEF a
  <1> SUFFICES ASSUME NEW i \in DOMAIN a, NEW j \in DOMAIN a, i < j,
                      a[i].id # 0, a[j].id # 0
               PROVE  a[i].id < a[j].id
    BY DEF Increasing, a
  <1>2. i \in DOMAIN s /\ a[i] = s[i]
    BY <1>1
  <1>3. CASE j \in DOMAIN s
    BY <1>1, <1>2, <1>3 DEF Increasing
  <1>4. CASE j = Len(s) + 1
    BY <1>1, <1>2, <1>4 DEF Before, Ids
  <1> QED BY <1>1, <1>3, <1>4

-----------------------------------------------------------------------------
(* The messages the program makes itself, and what it sends, are messages. *)
LEMMA MsgTypes ==
  /\ ZeroMsg \in Msg
  /\ \A f \in Tasks : LogMsg(f) \in Msg
  /\ \A l \in Starting : StartMsg[l] \in Msg /\ StartMsg[l].id = 0
  /\ \A m \in PeerMsgs, n \in Nat :
       [m EXCEPT !.id = n] \in Msg /\ [m EXCEPT !.id = n].id = n
  <1> USE PathAssumption DEF Msg, Byte, Tasks, DEFS_TASK_BBG, DEFS_TASK_LOG,
        DEFS_TASK_SPEAK, DEFS_ID_BBG
  <1>1. ZeroMsg \in Msg
    BY DEF ZeroMsg, Char0
  <1>2. ASSUME NEW f \in Tasks PROVE LogMsg(f) \in Msg
    BY DEF LogMsg, Local, LOG_LOG
  <1>3. ASSUME NEW l \in Starting PROVE StartMsg[l] \in Msg /\ StartMsg[l].id = 0
    BY DEF Starting, StartMsg, Local, LOG_INIT, SPEAK_INIT, SPEAK_SPEAK
  <1>4. ASSUME NEW m \in PeerMsgs, NEW n \in Nat
        PROVE  [m EXCEPT !.id = n] \in Msg /\ [m EXCEPT !.id = n].id = n
    BY PeerAssumption
  <1> QED BY <1>1, <1>2, <1>3, <1>4

(* Sending to and receiving from a queue keeps the queues well formed. *)
LEMMA SendKeepsQueues ==
  ASSUME QueuesOK, NEW t \in Tasks, NEW m \in Msg, MqSend(t, m),
         t \in OtherTasks => m.to = t /\ m.devt = DEFS_ID_BBG
  PROVE  QueuesOK'
  <1>1. /\ queues \in [Tasks -> Seq(Msg)] /\ queues[t] \in Seq(Msg)
        /\ queues' = [queues EXCEPT ![t] = Append(queues[t], m)]
        /\ Len(queues[t]) < MSG_MAXMSGS
    BY DEF QueuesOK, MqSend, HasRoom
  <1>2. /\ Append(queues[t], m) \in Seq(Msg)
        /\ Len(Append(queues[t], m)) = Len(queues[t]) + 1
        /\ DOMAIN Append(queues[t], m) = 1..(Len(queues[t]) + 1)
        /\ DOMAIN queues[t] = 1..Len(queues[t]) /\ Len(queues[t]) \in Nat
        /\ \A i \in 1..Len(queues[t]) : Append(queues[t], m)[i] = queues[t][i]
        /\ Append(queues[t], m)[Len(queues[t]) + 1] = m
    BY <1>1, AppendFacts
  <1>3. queues'[t] = Append(queues[t], m)
        /\ \A u \in Tasks : u # t => queues'[u] = queues[u]
    BY <1>1
  <1>4. queues' \in [Tasks -> Seq(Msg)]
    BY <1>1, <1>2
  <1>5. \A u \in Tasks : Len(queues'[u]) <= MSG_MAXMSGS
    BY <1>1, <1>2, <1>3, CapacityAssumption DEF QueuesOK
  <1>6. ASSUME NEW u \in OtherTasks, NEW i \in DOMAIN queues'[u]
        PROVE  queues'[u][i].to = u /\ queues'[u][i].devt = DEFS_ID_BBG
    <2>1. CASE u # t
      BY <2>1, <1>3 DEF QueuesOK, OtherTasks
    <2>2. CASE u = t
      <3>1. CASE i \in DOMAIN queues[t]
        BY <2>2, <3>1, <1>2, <1>3 DEF QueuesOK
      <3>2. CASE i = Len(queues[t]) + 1
        BY <2>2, <3>2, <1>2, <1>3
      <3> QED BY <2>2, <3>1, <3>2, <1>2, <1>3
    <2> QED BY <2>1, <2>2
  <1> QED BY <1>4, <1>5, <1>6 DEF QueuesOK

(* A receive keeps the queues typed and yields a message of the type. *)
LEMMA ReceiveKeepsQueues ==
  ASSUME QueuesOK, NEW t \in Tasks, MqReceive(t)
  PROVE  /\ QueuesOK'
         /\ Head(queues[t]) \in Msg
         /\ t \in OtherTasks =>
              Head(queues[t]).to = t /\ Head(queues[t]).devt = DEFS_ID_BBG
  <1>1. /\ queues \in [Tasks -> Seq(Msg)] /\ queues[t] \in Seq(Msg)
        /\ queues[t] # <<>>
        /\ queues' = [queues EXCEPT ![t] = Tail(queues[t])]
    BY DEF QueuesOK, MqReceive
  <1>2. /\ Tail(queues[t]) \in Seq(Msg) /\ Head(queues[t]) \in Msg
        /\ Len(Tail(queues[t])) = Len(queues[t]) - 1
        /\ DOMAIN queues[t] = 1..Len(queues[t]) /\ Len(queues[t]) \in Nat
        /\ Len(queues[t]) > 0 /\ Head(queues[t]) = queues[t][1]
        /\ DOMAIN Tail(queues[t]) = 1..(Len(queues[t]) - 1)
        /\ \A i \in 1..(Len(queues[t]) - 1) :
             Tail(queues[t])[i] = queues[t][i + 1]
    BY <1>1, TailFacts
  <1>3. queues'[t] = Tail(queues[t])
        /\ \A u \in Tasks : u # t => queues'[u] = queues[u]
    BY <1>1
  <1>4. queues' \in [Tasks -> Seq(Msg)]
    BY <1>1, <1>2
  <1>5. \A u \in Tasks : Len(queues'[u]) <= MSG_MAXMSGS
    BY <1>1, <1>2, <1>3, CapacityAssumption DEF QueuesOK
  <1>6. ASSUME NEW u \in OtherTasks, NEW i \in DOMAIN queues'[u]
        PROVE  queues'[u][i].to = u /\ queues'[u][i].devt = DEFS_ID_BBG
    <2>1. CASE u # t
      BY <2>1, <1>3 DEF QueuesOK, OtherTasks
    <2>2. CASE u = t
      <3>1. i + 1 \in DOMAIN queues[t] /\ queues'[t][i] = queues[t][i + 1]
        BY <2>2, <1>2, <1>3
      <3> QED BY <2>2, <3>1 DEF QueuesOK
    <2> QED BY <2>1, <2>2
  <1>7. t \in OtherTasks =>
          Head(queues[t]).to = t /\ Head(queues[t]).devt = DEFS_ID_BBG
    <2>1. 1 \in DOMAIN queues[t]
      BY <1>2
    <2> QED BY <1>2, <2>1 DEF QueuesOK
  <1> QED BY <1>2, <1>4, <1>5, <1>6, <1>7 DEF QueuesOK

(* The effects of a receive, of bbg_init_timer and of fopen are typed. *)
LEMMA ReceivedTyped ==
  ASSUME ProcessOK, NEW t \in Tasks, NEW m \in Msg, Received(t, m)
  PROVE  taken' \in [Tasks -> SUBSET Nat]
  BY DEF ProcessOK, Received, Msg

(* Creating timers keeps their counts within the limit. *)
LEMMA TimersTyped ==
  ASSUME ProcessOK, NEW ts, NewTimers(ts)
  PROVE  timers' \in [OtherTasks -> 0..TimerLimit]
  BY PeerAssumption DEF ProcessOK, NewTimers

(* Opening a file keeps the log variables typed. *)
LEMMA FopenTyped ==
  ASSUME LogOK, NEW p \in Paths, NEW mode, Fopen(p, mode)
  PROVE  log_file' \in Paths \cup {NoFile} /\ disk' \in [Paths -> SUBSET Nat]
  BY DEF LogOK, Fopen

(* Every step keeps the types: one step per action. *)
LEMMA TypeInductive == TypeOK /\ [Next]_vars => TypeOK'
  <1> SUFFICES ASSUME TypeOK, [Next]_vars PROVE TypeOK'
    OBVIOUS
  <1> USE DEF DEFS_TASK_BBG, DEFS_TASK_LOG, DEFS_TASK_SPEAK, DEFS_ID_BBG, Tasks,
              OtherTasks, progVars, netVars, logVars
  <1>0. /\ QueuesOK /\ ThreadsOK /\ NetworkOK /\ LogOK /\ ProcessOK
        /\ main_rx \in Msg /\ log_rx \in Msg /\ socket_msg \in Msg
        /\ ZeroMsg \in Msg
    BY MsgTypes DEF TypeOK, ThreadsOK
  <1>1. CASE MainStart
    <2>1. QueuesOK'
      <3>1. StartMsg[pc["main"]] \in Msg /\ MqSend(DEFS_TASK_BBG, StartMsg[pc["main"]])
        BY <1>1, MsgTypes DEF MainStart, msg_send
      <3> QED BY <3>1, <1>0, SendKeepsQueues
    <2>2. ThreadsOK'
      BY <1>1, <1>0 DEF MainStart, ThreadsOK, Labels, Starting, Goto, AfterStart
    <2>3. NetworkOK'
      BY <1>1, <1>0 DEF MainStart, NetworkOK
    <2>4. LogOK'
      BY <1>1, <1>0 DEF MainStart, LogOK
    <2>5. ProcessOK'
      <3>1. CASE pc["main"] = "hello"
        BY <3>1, <1>1, <1>0, TimersTyped DEF MainStart, ProcessOK
      <3>2. CASE pc["main"] # "hello"
        BY <3>2, <1>1, <1>0 DEF MainStart, ProcessOK
      <3> QED BY <3>1, <3>2
    <2> QED BY <2>1, <2>2, <2>3, <2>4, <2>5 DEF TypeOK
  <1>2. CASE MainRecv
    <2>1. QueuesOK'
      <3>1. MqReceive(DEFS_TASK_BBG)
        BY <1>2 DEF MainRecv
      <3> QED BY <3>1, <1>0, ReceiveKeepsQueues
    <2>2. ThreadsOK'
      <3>1. Head(queues[DEFS_TASK_BBG]) \in Msg
        BY <1>2, <1>0, ReceiveKeepsQueues DEF MainRecv
      <3> QED BY <3>1, <1>2, <1>0 DEF MainRecv, ThreadsOK, Labels, Starting, Goto, Msg
    <2>3. NetworkOK'
      BY <1>2, <1>0 DEF MainRecv, NetworkOK
    <2>4. LogOK'
      BY <1>2, <1>0 DEF MainRecv, LogOK
    <2>5. ProcessOK'
      <3>1. Head(queues[DEFS_TASK_BBG]) \in Msg
        BY <1>2, <1>0, ReceiveKeepsQueues DEF MainRecv
      <3>2. taken' \in [Tasks -> SUBSET Nat]
        BY <3>1, <1>2, <1>0, ReceivedTyped DEF MainRecv, ProcessOK
      <3>3. timers' \in [OtherTasks -> 0..TimerLimit]
        BY <1>2, <1>0, TimersTyped DEF MainRecv, ProcessOK, bbg_heartbeat
      <3> QED BY <3>2, <3>3, <1>2, <1>0 DEF MainRecv, ProcessOK
    <2> QED BY <2>1, <2>2, <2>3, <2>4, <2>5 DEF TypeOK
  <1>3. CASE msg_route
    <2>1. QueuesOK'
      BY <1>3, <1>0, SendKeepsQueues DEF msg_route, ThreadsOK
    <2>2. ThreadsOK'
      BY <1>3, <1>0 DEF msg_route, ThreadsOK, Labels, Starting, Goto
    <2>3. NetworkOK'
      BY <1>3, <1>0 DEF msg_route, NetworkOK
    <2>4. LogOK'
      BY <1>3, <1>0 DEF msg_route, LogOK
    <2>5. ProcessOK'
      BY <1>3, <1>0 DEF msg_route, ProcessOK
    <2> QED BY <2>1, <2>2, <2>3, <2>4, <2>5 DEF TypeOK
  <1>4. CASE MainWrite
    <2>1. QueuesOK'
      BY <1>4, <1>0 DEF MainWrite, QueuesOK
    <2>2. ThreadsOK'
      BY <1>4, <1>0 DEF MainWrite, ThreadsOK, Labels, Starting, Goto
    <2>3. NetworkOK'
      BY <1>4, <1>0 DEF MainWrite, NetworkOK
    <2>4. LogOK'
      BY <1>4, <1>0 DEF MainWrite, LogOK
    <2>5. ProcessOK'
      BY <1>4, <1>0 DEF MainWrite, ProcessOK
    <2> QED BY <2>1, <2>2, <2>3, <2>4, <2>5 DEF TypeOK
  <1>5. CASE SigPipe
    <2>1. QueuesOK'
      BY <1>5, <1>0 DEF SigPipe, Die, QueuesOK
    <2>2. ThreadsOK'
      BY <1>5, <1>0 DEF SigPipe, Die, Dead, ThreadsOK, Labels, Starting
    <2>3. NetworkOK'
      BY <1>5, <1>0 DEF SigPipe, Die, NetworkOK
    <2>4. LogOK'
      BY <1>5, <1>0 DEF SigPipe, Die, LogOK
    <2>5. ProcessOK'
      BY <1>5, <1>0, PeerAssumption DEF SigPipe, Die, ProcessOK
    <2> QED BY <2>1, <2>2, <2>3, <2>4, <2>5 DEF TypeOK
  <1>6. CASE LogRecv
    <2>1. QueuesOK'
      <3>1. MqReceive(DEFS_TASK_LOG)
        BY <1>6 DEF LogRecv
      <3> QED BY <3>1, <1>0, ReceiveKeepsQueues
    <2>2. ThreadsOK'
      <3>1. log_rx' \in Msg
        BY <1>6, <1>0, ReceiveKeepsQueues DEF LogRecv
      <3> QED BY <3>1, <1>6, <1>0 DEF LogRecv, ThreadsOK, Labels, Starting, Goto
    <2>3. NetworkOK'
      BY <1>6, <1>0 DEF LogRecv, NetworkOK
    <2>4. LogOK'
      BY <1>6, <1>0 DEF LogRecv, LogOK
    <2>5. ProcessOK'
      <3>1. log_rx' \in Msg
        BY <1>6, <1>0, ReceiveKeepsQueues DEF LogRecv
      <3>2. taken' \in [Tasks -> SUBSET Nat]
        BY <3>1, <1>6, <1>0, ReceivedTyped DEF LogRecv
      <3> QED BY <3>2, <1>6, <1>0 DEF LogRecv, ProcessOK
    <2> QED BY <2>1, <2>2, <2>3, <2>4, <2>5 DEF TypeOK
  <1>7. CASE LogHandle
    <2>1. QueuesOK'
      BY <1>7, <1>0 DEF LogHandle, QueuesOK
    <2>2. ThreadsOK'
      <3>1. \E l \in {"recv", "send", "dead"} : Goto("log", l)
        BY <1>7 DEF LogHandle, log_init, log_log, log_setpath, log_kill
      <3> QED BY <3>1, <1>7, <1>0 DEF LogHandle, ThreadsOK, Labels, Starting, Goto
    <2>3. NetworkOK'
      BY <1>7, <1>0 DEF LogHandle, NetworkOK
    <2>4. LogOK'
      <3> USE <1>7, <1>0 DEF LogHandle, LogOK
      <3>0. log_rx.path \in Paths /\ log_rx.id \in Nat
        BY DEF Msg
      <3>1. CASE log_init(log_rx)
        BY <3>0, <3>1, FopenTyped DEF log_init
      <3>2. CASE log_log(log_rx)
        <4>1. CASE log_file = NoFile
          BY <3>0, <3>2, <4>1 DEF log_log
        <4>2. CASE log_file # NoFile
          <5>1. log_file \in Paths /\ disk[log_file] \cup {log_rx.id} \in SUBSET Nat
            BY <3>0, <4>2
          <5> QED BY <3>2, <4>2, <5>1 DEF log_log
        <4> QED BY <4>1, <4>2
      <3>3. CASE log_setpath(log_rx)
        BY <3>0, <3>3, FopenTyped DEF log_setpath
      <3>4. CASE log_kill
        BY <3>4 DEF log_kill
      <3>5. CASE UNCHANGED logVars
        BY <3>5
      <3> QED BY <3>1, <3>2, <3>3, <3>4, <3>5
    <2>5. ProcessOK'
      BY <1>7, <1>0 DEF LogHandle, ProcessOK
    <2> QED BY <2>1, <2>2, <2>3, <2>4, <2>5 DEF TypeOK
  <1>8. CASE LogSend
    <2>1. QueuesOK'
      <3>1. LogMsg(DEFS_TASK_LOG) \in Msg /\ MqSend(DEFS_TASK_BBG, LogMsg(DEFS_TASK_LOG))
        BY <1>8, MsgTypes DEF LogSend, msg_send
      <3> QED BY <3>1, <1>0, SendKeepsQueues
    <2>2. ThreadsOK'
      BY <1>8, <1>0 DEF LogSend, ThreadsOK, Labels, Starting, Goto
    <2>3. NetworkOK'
      BY <1>8, <1>0 DEF LogSend, NetworkOK
    <2>4. LogOK'
      BY <1>8, <1>0 DEF LogSend, LogOK
    <2>5. ProcessOK'
      BY <1>8, <1>0 DEF LogSend, ProcessOK
    <2> QED BY <2>1, <2>2, <2>3, <2>4, <2>5 DEF TypeOK
  <1>9. CASE SpeakRecv
    <2>1. QueuesOK'
      <3>1. MqReceive(DEFS_TASK_SPEAK)
        BY <1>9 DEF SpeakRecv
      <3> QED BY <3>1, <1>0, ReceiveKeepsQueues
    <2>2. ThreadsOK'
      BY <1>9, <1>0 DEF SpeakRecv, ThreadsOK, Labels, Starting, Goto
    <2>3. NetworkOK'
      BY <1>9, <1>0 DEF SpeakRecv, NetworkOK
    <2>4. LogOK'
      BY <1>9, <1>0 DEF SpeakRecv, LogOK
    <2>5. ProcessOK'
      <3>1. Head(queues[DEFS_TASK_SPEAK]) \in Msg
        BY <1>9, <1>0, ReceiveKeepsQueues DEF SpeakRecv
      <3>2. taken' \in [Tasks -> SUBSET Nat]
        BY <3>1, <1>9, <1>0, ReceivedTyped DEF SpeakRecv
      <3> QED BY <3>2, <1>9, <1>0 DEF SpeakRecv, ProcessOK
    <2> QED BY <2>1, <2>2, <2>3, <2>4, <2>5 DEF TypeOK
  <1>10. CASE SpeakSend
    <2>1. QueuesOK'
      <3>1. LogMsg(DEFS_TASK_SPEAK) \in Msg /\ MqSend(DEFS_TASK_BBG, LogMsg(DEFS_TASK_SPEAK))
        BY <1>10, MsgTypes DEF SpeakSend, msg_send
      <3> QED BY <3>1, <1>0, SendKeepsQueues
    <2>2. ThreadsOK'
      BY <1>10, <1>0 DEF SpeakSend, ThreadsOK, Labels, Starting, Goto
    <2>3. NetworkOK'
      BY <1>10, <1>0 DEF SpeakSend, NetworkOK
    <2>4. LogOK'
      BY <1>10, <1>0 DEF SpeakSend, LogOK
    <2>5. ProcessOK'
      BY <1>10, <1>0 DEF SpeakSend, ProcessOK
    <2> QED BY <2>1, <2>2, <2>3, <2>4, <2>5 DEF TypeOK
  <1>11. CASE SpeakPlayed
    <2>1. QueuesOK'
      BY <1>11, <1>0 DEF SpeakPlayed, QueuesOK
    <2>2. ThreadsOK'
      BY <1>11, <1>0 DEF SpeakPlayed, ThreadsOK, Labels, Starting, Goto
    <2>3. NetworkOK'
      BY <1>11, <1>0 DEF SpeakPlayed, NetworkOK
    <2>4. LogOK'
      BY <1>11, <1>0 DEF SpeakPlayed, LogOK
    <2>5. ProcessOK'
      BY <1>11, <1>0 DEF SpeakPlayed, ProcessOK
    <2> QED BY <2>1, <2>2, <2>3, <2>4, <2>5 DEF TypeOK
  <1>12. CASE SockAccept
    <2>1. QueuesOK'
      BY <1>12, <1>0 DEF SockAccept, QueuesOK
    <2>2. ThreadsOK'
      BY <1>12, <1>0 DEF SockAccept, ThreadsOK, Labels, Starting, Goto
    <2>3. NetworkOK'
      BY <1>12, <1>0 DEF SockAccept, NetworkOK
    <2>4. LogOK'
      BY <1>12, <1>0 DEF SockAccept, LogOK
    <2>5. ProcessOK'
      BY <1>12, <1>0 DEF SockAccept, ProcessOK
    <2> QED BY <2>1, <2>2, <2>3, <2>4, <2>5 DEF TypeOK
  <1>13. CASE SockRead
    <2>1. QueuesOK'
      BY <1>13, <1>0 DEF SockRead, QueuesOK
    <2>2. ThreadsOK'
      <3>1. socket_msg' \in Msg
        BY <1>13, <1>0, TailFacts DEF SockRead, NetworkOK
      <3> QED BY <3>1, <1>13, <1>0 DEF SockRead, ThreadsOK, Labels, Starting, Goto
    <2>3. NetworkOK'
      BY <1>13, <1>0, TailFacts DEF SockRead, NetworkOK
    <2>4. LogOK'
      BY <1>13, <1>0 DEF SockRead, LogOK
    <2>5. ProcessOK'
      BY <1>13, <1>0 DEF SockRead, ProcessOK
    <2> QED BY <2>1, <2>2, <2>3, <2>4, <2>5 DEF TypeOK
  <1>14. CASE SockSend
    <2>1. QueuesOK'
      BY <1>14, <1>0, SendKeepsQueues DEF SockSend, msg_send
    <2>2. ThreadsOK'
      BY <1>14, <1>0 DEF SockSend, ThreadsOK, Labels, Starting, Goto
    <2>3. NetworkOK'
      BY <1>14, <1>0 DEF SockSend, NetworkOK
    <2>4. LogOK'
      BY <1>14, <1>0 DEF SockSend, LogOK
    <2>5. ProcessOK'
      BY <1>14, <1>0 DEF SockSend, ProcessOK
    <2> QED BY <2>1, <2>2, <2>3, <2>4, <2>5 DEF TypeOK
  <1>15. CASE PeerConnect
    <2>1. QueuesOK'
      BY <1>15, <1>0 DEF PeerConnect, QueuesOK
    <2>2. ThreadsOK'
      BY <1>15, <1>0 DEF PeerConnect, ThreadsOK, Labels, Starting, Goto
    <2>3. NetworkOK'
      BY <1>15, <1>0 DEF PeerConnect, NetworkOK
    <2>4. LogOK'
      BY <1>15, <1>0 DEF PeerConnect, LogOK
    <2>5. ProcessOK'
      BY <1>15, <1>0 DEF PeerConnect, ProcessOK
    <2> QED BY <2>1, <2>2, <2>3, <2>4, <2>5 DEF TypeOK
  <1>16. CASE PeerSend
    <2>1. QueuesOK'
      BY <1>16, <1>0 DEF PeerSend, QueuesOK
    <2>2. ThreadsOK'
      BY <1>16, <1>0 DEF PeerSend, ThreadsOK, Labels, Starting, Goto
    <2>3. NetworkOK'
      <3>1. \A m \in PeerMsgs : [m EXCEPT !.id = sent + 1] \in Msg
        BY <1>0, MsgTypes DEF NetworkOK
      <3> QED BY <3>1, <1>16, <1>0, AppendFacts DEF PeerSend, NetworkOK
    <2>4. LogOK'
      BY <1>16, <1>0 DEF PeerSend, LogOK
    <2>5. ProcessOK'
      BY <1>16, <1>0 DEF PeerSend, ProcessOK
    <2> QED BY <2>1, <2>2, <2>3, <2>4, <2>5 DEF TypeOK
  <1>17. CASE PeerClose
    <2>1. QueuesOK'
      BY <1>17, <1>0 DEF PeerClose, QueuesOK
    <2>2. ThreadsOK'
      BY <1>17, <1>0 DEF PeerClose, ThreadsOK, Labels, Starting, Goto
    <2>3. NetworkOK'
      BY <1>17, <1>0 DEF PeerClose, NetworkOK
    <2>4. LogOK'
      BY <1>17, <1>0 DEF PeerClose, LogOK
    <2>5. ProcessOK'
      BY <1>17, <1>0 DEF PeerClose, ProcessOK
    <2> QED BY <2>1, <2>2, <2>3, <2>4, <2>5 DEF TypeOK
  <1>18. CASE Kill
    <2>1. QueuesOK'
      BY <1>18, <1>0 DEF Kill, Die, QueuesOK
    <2>2. ThreadsOK'
      BY <1>18, <1>0 DEF Kill, Die, Dead, ThreadsOK, Labels, Starting
    <2>3. NetworkOK'
      BY <1>18, <1>0 DEF Kill, Die, NetworkOK
    <2>4. LogOK'
      BY <1>18, <1>0 DEF Kill, Die, LogOK
    <2>5. ProcessOK'
      BY <1>18, <1>0, PeerAssumption DEF Kill, Die, ProcessOK
    <2> QED BY <2>1, <2>2, <2>3, <2>4, <2>5 DEF TypeOK
  <1>19. CASE Restart
    <2>1. QueuesOK'
      BY <1>19, <1>0 DEF Restart, QueuesOK
    <2>2. ThreadsOK'
      BY <1>19, <1>0 DEF Restart, ThreadsOK, Labels, Starting, Fresh
    <2>3. NetworkOK'
      BY <1>19, <1>0 DEF Restart, NetworkOK
    <2>4. LogOK'
      BY <1>19, <1>0 DEF Restart, LogOK
    <2>5. ProcessOK'
      BY <1>19, <1>0 DEF Restart, ProcessOK
    <2> QED BY <2>1, <2>2, <2>3, <2>4, <2>5 DEF TypeOK
  <1>20. CASE UNCHANGED vars
    BY <1>20 DEF vars, TypeOK, QueuesOK, ThreadsOK, NetworkOK, LogOK, ProcessOK
  <1> QED BY <1>1, <1>2, <1>3, <1>4, <1>5, <1>6, <1>7, <1>8, <1>9, <1>10, <1>11, <1>12, <1>13,
             <1>14, <1>15, <1>16, <1>17, <1>18, <1>19, <1>20
          DEF Next, MainNext, LogNext, SpeakNext, SockNext, PeerNext

(* The initial state is typed. *)
LEMMA TypeInit == Init => TypeOK
  <1> SUFFICES ASSUME Init PROVE TypeOK
    OBVIOUS
  <1> USE DEF Init, Tasks, OtherTasks, DEFS_TASK_BBG, DEFS_TASK_LOG,
              DEFS_TASK_SPEAK
  <1>1. QueuesOK
    BY CapacityAssumption DEF QueuesOK
  <1>2. ThreadsOK
    BY MsgTypes DEF ThreadsOK, Labels, Fresh, Starting
  <1>3. NetworkOK
    <2>1. socket_conn = FALSE
      BY DEF Init
    <2>2. wire \in Seq(Msg) /\ sent \in Nat /\ peer = "away"
      BY DEF Init
    <2>3. socket_conn \in BOOLEAN
      BY <2>1, Zenon
    <2> QED BY <2>2, <2>3 DEF NetworkOK
  <1>4. LogOK
    BY DEF LogOK
  <1>5. ProcessOK
    BY PeerAssumption DEF ProcessOK
  <1> QED BY <1>1, <1>2, <1>3, <1>4, <1>5 DEF TypeOK

(* Every variable keeps its type and every queue its bound, whatever the   *)
(* peer sends and however often the process dies.                          *)
THEOREM TypeCorrect == Spec => []TypeOK
  BY TypeInit, TypeInductive, PTL DEF Spec

-----------------------------------------------------------------------------
(* InOrder needs more to be inductive: no number above sent is in use, so   *)
(* that a new message is the youngest; main holds a message only between   *)
(* its receive and its send; and the peer stays connected, so that read    *)
(* never leaves an old message in socket_msg.                              *)
Numbered ==
  /\ \A t \in Tasks : taken[t] \cup Ids(queues[t]) \subseteq 1..sent
  /\ Held \cup Upstream \subseteq 1..sent
HeldBriefly == pc["main"] \notin {"route", "write"} => main_rx = ZeroMsg
StaysConnected == peer \in {"away", "open"}
OrderInv == TypeOK /\ InOrder /\ Numbered /\ HeldBriefly /\ StaysConnected

(* The numbers in the queues after a send and after a receive. *)
LEMMA SendIds ==
  ASSUME QueuesOK, NEW t \in Tasks, NEW m \in Msg, MqSend(t, m),
         \A u \in Tasks : Increasing(queues[u])
  PROVE  /\ Ids(queues'[t]) = Ids(queues[t]) \cup ({m.id} \ {0})
         /\ \A u \in Tasks \ {t} : Ids(queues'[u]) = Ids(queues[u])
         /\ Before(Ids(queues[t]), {m.id} \ {0}) =>
              \A u \in Tasks : Increasing(queues'[u])
  <1>1. /\ queues \in [Tasks -> Seq(Msg)] /\ queues[t] \in Seq(Msg)
        /\ queues'[t] = Append(queues[t], m)
        /\ \A u \in Tasks \ {t} : queues'[u] = queues[u]
    BY DEF QueuesOK, MqSend
  <1>2. Ids(queues'[t]) = Ids(queues[t]) \cup ({m.id} \ {0})
    BY <1>1, IdsAppend
  <1>3. Before(Ids(queues[t]), {m.id} \ {0}) => Increasing(queues'[t])
    BY <1>1, IncreasingAppend
  <1> QED BY <1>1, <1>2, <1>3

(* A receive takes the oldest number out of its queue. *)
LEMMA ReceiveIds ==
  ASSUME QueuesOK, NEW t \in Tasks, MqReceive(t),
         \A u \in Tasks : Increasing(queues[u])
  PROVE  /\ Ids(queues[t]) = Ids(queues'[t]) \cup ({Head(queues[t]).id} \ {0})
         /\ \A u \in Tasks \ {t} : Ids(queues'[u]) = Ids(queues[u])
         /\ \A u \in Tasks : Increasing(queues'[u])
         /\ Before({Head(queues[t]).id} \ {0}, Ids(queues'[t]))
  <1>1. /\ queues \in [Tasks -> Seq(Msg)] /\ queues[t] \in Seq(Msg)
        /\ queues[t] # <<>> /\ queues'[t] = Tail(queues[t])
        /\ \A u \in Tasks \ {t} : queues'[u] = queues[u]
    BY DEF QueuesOK, MqReceive
  <1>2. Ids(queues[t]) = Ids(queues'[t]) \cup ({Head(queues[t]).id} \ {0})
    BY <1>1, IdsTail
  <1>3. Increasing(queues'[t]) /\ Before({Head(queues[t]).id} \ {0}, Ids(queues'[t]))
    BY <1>1, IncreasingTail
  <1> QED BY <1>1, <1>2, <1>3

(* A message made on this board has no number: sending it moves none. *)
LEMMA LocalSendKeepsOrder ==
  ASSUME OrderInv, NEW m \in Msg, m.id = 0, msg_send(m),
         UNCHANGED <<main_rx, socket_msg, peer, wire, sent, taken>>,
         Sending' = Sending
  PROVE  InOrder' /\ Numbered'
  <1> USE DEF DEFS_TASK_BBG, DEFS_TASK_SPEAK, DEFS_TASK_LOG, Tasks
  <1>1. /\ \A u \in Tasks : Ids(queues'[u]) = Ids(queues[u])
        /\ \A u \in Tasks : Increasing(queues'[u])
    <2>1. /\ QueuesOK /\ MqSend(DEFS_TASK_BBG, m) /\ DEFS_TASK_BBG \in Tasks
          /\ \A u \in Tasks : Increasing(queues[u])
      BY DEF msg_send, OrderInv, InOrder, TypeOK
    <2>2. {m.id} \ {0} = {} /\ Before(Ids(queues[DEFS_TASK_BBG]), {m.id} \ {0})
      BY DEF Before
    <2> HIDE DEF DEFS_TASK_BBG, DEFS_TASK_SPEAK, DEFS_TASK_LOG, Tasks
    <2> QED BY <2>1, <2>2, SendIds
  <1>2. Held' = Held /\ Upstream' = Upstream
    BY <1>1 DEF Held, Upstream
  <1>3. InOrder /\ Numbered /\ UNCHANGED <<taken, sent, wire>>
    BY DEF OrderInv
  <1>4. DEFS_TASK_BBG \in Tasks /\ OtherTasks \subseteq Tasks
    BY DEF OtherTasks
  <1> HIDE DEF DEFS_TASK_BBG, DEFS_TASK_SPEAK, DEFS_TASK_LOG, Tasks
  <1>5. Numbered'
    BY <1>1, <1>2, <1>3 DEF Numbered
  <1>6. InOrder'
    BY <1>1, <1>2, <1>3, <1>4 DEF InOrder
  <1> QED BY <1>5, <1>6

(* A task other than main takes a message from its queue. *)
LEMMA TaskReceiveKeepsOrder ==
  ASSUME OrderInv, NEW t \in OtherTasks, MqReceive(t), Received(t, Head(queues[t])),
         UNCHANGED <<main_rx, socket_msg, peer, wire, sent>>,
         Sending' = Sending
  PROVE  InOrder' /\ Numbered'
  <1> DEFINE m == Head(queues[t])
  <1>1. /\ QueuesOK /\ InOrder /\ Numbered /\ t \in Tasks /\ t # DEFS_TASK_BBG
        /\ taken \in [Tasks -> SUBSET Nat] /\ DEFS_TASK_BBG \in Tasks
        /\ \A u \in Tasks : Increasing(queues[u])
    BY DEF OrderInv, InOrder, TypeOK, ProcessOK, OtherTasks, Tasks
  <1>2. /\ Ids(queues[t]) = Ids(queues'[t]) \cup ({m.id} \ {0})
        /\ \A u \in Tasks \ {t} : Ids(queues'[u]) = Ids(queues[u])
        /\ \A u \in Tasks : Increasing(queues'[u])
        /\ Before({m.id} \ {0}, Ids(queues'[t]))
    BY <1>1, ReceiveIds
  <1>3. /\ taken'[t] = taken[t] \cup ({m.id} \ {0})
        /\ \A u \in Tasks \ {t} : taken'[u] = taken[u]
    BY <1>1 DEF Received
  <1> HIDE DEF m
  <1>4. Held' = Held /\ Upstream' = Upstream
    BY <1>1, <1>2 DEF Held, Upstream
  <1>5. InOrder'
    BY <1>1, <1>2, <1>3, <1>4 DEF InOrder, Before, OtherTasks
  <1>6. Numbered'
    BY <1>1, <1>2, <1>3, <1>4 DEF Numbered
  <1> QED BY <1>5, <1>6

(* Steps that touch nothing on the way of a message. *)
LEMMA SameOrder ==
  ASSUME OrderInv, TypeOK', UNCHANGED <<queues, main_rx, peer, wire, sent, taken>>,
         Sending' = Sending, pc'["main"] = pc["main"]
  PROVE  OrderInv'
  <1>1. Held' = Held /\ Upstream' = Upstream
    BY DEF Held, Upstream
  <1>2. InOrder' /\ Numbered'
    BY <1>1 DEF OrderInv, InOrder, Numbered
  <1> QED BY <1>2 DEF OrderInv, HeldBriefly, StaysConnected

(* Every step keeps the order, as long as the peer does not hang up. *)
LEMMA OrderInductive ==
  ASSUME PeerMayClose = FALSE
  PROVE  OrderInv /\ [Next]_vars => OrderInv'
  <1> SUFFICES ASSUME OrderInv, [Next]_vars PROVE OrderInv'
    OBVIOUS
  <1>a. /\ TypeOK' /\ TypeOK /\ InOrder /\ Numbered /\ HeldBriefly
        /\ StaysConnected /\ \A u \in Tasks : Increasing(queues[u])
    BY TypeInductive DEF OrderInv, InOrder
  <1>b. /\ QueuesOK /\ pc \in Labels /\ main_rx \in Msg /\ socket_msg \in Msg
        /\ wire \in Seq(Msg) /\ sent \in Nat /\ taken \in [Tasks -> SUBSET Nat]
    BY <1>a DEF TypeOK, ThreadsOK, NetworkOK, ProcessOK
  <1>c. /\ ZeroMsg \in Msg /\ ZeroMsg.id = 0
        /\ DEFS_TASK_BBG \in Tasks /\ DEFS_TASK_SPEAK \in Tasks
        /\ DEFS_TASK_LOG \in Tasks /\ DEFS_TASK_SPEAK # DEFS_TASK_BBG
        /\ DEFS_TASK_LOG # DEFS_TASK_BBG
    BY MsgTypes DEF ZeroMsg, Tasks, DEFS_TASK_BBG, DEFS_TASK_SPEAK, DEFS_TASK_LOG
  <1> USE DEF netVars, logVars, progVars
  <1>1. CASE MainStart
    <2>1. StartMsg[pc["main"]] \in Msg /\ StartMsg[pc["main"]].id = 0
      BY <1>1, MsgTypes DEF MainStart
    <2>2. Sending' = Sending
      BY <1>a, <1>b, <1>c, <1>1 DEF MainStart, Sending, Goto, Labels
    <2>3. InOrder' /\ Numbered'
      BY <1>a, <1>b, <1>c, <1>1, <2>1, <2>2, LocalSendKeepsOrder DEF MainStart, OrderInv
    <2> QED BY <1>a, <1>b, <1>c, <1>1, <2>3
         DEF MainStart, OrderInv, HeldBriefly, StaysConnected, Starting, Goto, Labels
  <1>2. CASE MainRecv
    <2> DEFINE m == Head(queues[DEFS_TASK_BBG])
    <2>1. MqReceive(DEFS_TASK_BBG) /\ m \in Msg /\ Held = {}
      BY <1>a, <1>b, <1>c, <1>2, ReceiveKeepsQueues DEF MainRecv, HeldBriefly, Held
    <2>2. /\ Ids(queues[DEFS_TASK_BBG])
                = Ids(queues'[DEFS_TASK_BBG]) \cup ({m.id} \ {0})
          /\ \A u \in Tasks \ {DEFS_TASK_BBG} : Ids(queues'[u]) = Ids(queues[u])
          /\ \A u \in Tasks : Increasing(queues'[u])
          /\ Before({m.id} \ {0}, Ids(queues'[DEFS_TASK_BBG]))
      BY <1>a, <1>b, <1>c, <2>1, ReceiveIds
    <2>3. Sending' = Sending /\ UNCHANGED <<wire, sent>>
      BY <1>a, <1>b, <1>c, <1>2 DEF MainRecv, Sending, Goto, Labels
    <2>4. Upstream = Upstream' \cup ({m.id} \ {0})
      BY <1>2, <2>2, <2>3 DEF MainRecv, Upstream
    <2> HIDE DEF m
    <2>5. ASSUME main_rx' = m, UNCHANGED taken PROVE InOrder' /\ Numbered'
      <3>1. Held' = {m.id} \ {0}
        BY <2>5 DEF Held
      <3>2. InOrder'
        BY <1>a, <1>c, <2>1, <2>2, <2>3, <2>4, <2>5, <3>1
        DEF InOrder, Before, OtherTasks, Upstream
      <3>3. Numbered'
        BY <1>a, <1>c, <2>1, <2>2, <2>3, <2>4, <2>5, <3>1
        DEF Numbered, OtherTasks
      <3> QED BY <3>2, <3>3
    <2>6. ASSUME UNCHANGED main_rx, Received(DEFS_TASK_BBG, m)
          PROVE  InOrder' /\ Numbered'
      <3>1. Held' = {}
        BY <2>1, <2>6 DEF Held
      <3>2. /\ taken'[DEFS_TASK_BBG] = taken[DEFS_TASK_BBG] \cup ({m.id} \ {0})
            /\ \A u \in Tasks \ {DEFS_TASK_BBG} : taken'[u] = taken[u]
        BY <1>a, <1>b, <1>c, <2>6 DEF Received
      <3>3. InOrder'
        BY <1>a, <1>c, <2>1, <2>2, <2>3, <2>4, <3>1, <3>2
        DEF InOrder, Before, OtherTasks, Upstream
      <3>4. Numbered'
        BY <1>a, <1>c, <2>1, <2>2, <2>3, <2>4, <3>1, <3>2
        DEF Numbered, OtherTasks
      <3> QED BY <3>3, <3>4
    <2>7. InOrder' /\ Numbered'
      BY <1>2, <2>5, <2>6 DEF MainRecv, m
    <2>8. HeldBriefly' /\ StaysConnected'
      BY <1>a, <1>b, <1>c, <1>2 DEF MainRecv, HeldBriefly, StaysConnected, Goto, Labels
    <2> QED BY <1>a, <1>b, <1>c, <2>7, <2>8 DEF OrderInv
  <1>3. CASE msg_route
    <2>1. MqSend(main_rx.to, main_rx) /\ main_rx.to \in OtherTasks /\ main_rx' = ZeroMsg
      BY <1>a, <1>b, <1>c, <1>3 DEF msg_route, TypeOK, ThreadsOK
    <2>2. main_rx.to \in Tasks /\ Before(Ids(queues[main_rx.to]), {main_rx.id} \ {0})
      BY <1>a, <1>b, <1>c, <2>1 DEF OtherTasks, InOrder, Held, Before
    <2>3. /\ Ids(queues'[main_rx.to]) = Ids(queues[main_rx.to]) \cup Held
          /\ \A u \in Tasks \ {main_rx.to} : Ids(queues'[u]) = Ids(queues[u])
          /\ \A u \in Tasks : Increasing(queues'[u])
      BY <1>a, <1>b, <1>c, <2>1, <2>2, SendIds DEF Held
    <2>4. Sending' = Sending /\ Held' = {}
      BY <1>a, <1>b, <1>c, <1>3, <2>1 DEF msg_route, Sending, Goto, Labels, Held
    <2>5. Upstream' = Upstream
      BY <1>a, <1>b, <1>c, <1>3, <2>1, <2>3, <2>4 DEF msg_route, Upstream, OtherTasks
    <2>6. InOrder'
      BY <1>a, <1>b, <1>c, <1>3, <2>1, <2>3, <2>4, <2>5 DEF msg_route, InOrder, Before, OtherTasks
    <2>7. Numbered'
      BY <1>a, <1>b, <1>c, <1>3, <2>1, <2>3, <2>4, <2>5 DEF msg_route, Numbered, OtherTasks
    <2> QED BY <1>a, <1>b, <1>c, <1>3, <2>1, <2>6, <2>7
         DEF msg_route, OrderInv, HeldBriefly, StaysConnected
  <1>4. CASE MainWrite
    <2>1. peer # "closed" /\ Sending' = Sending /\ Held' = {}
      BY <1>a, <1>b, <1>c, <1>4 DEF MainWrite, StaysConnected, Sending, Goto, Labels, Held
    <2>2. Upstream' = Upstream
      BY <1>4, <2>1 DEF MainWrite, Upstream
    <2>3. InOrder'
      BY <1>a, <1>b, <1>c, <1>4, <2>1, <2>2 DEF MainWrite, InOrder, Before, OtherTasks
    <2>4. Numbered'
      BY <1>a, <1>b, <1>c, <1>4, <2>1, <2>2 DEF MainWrite, Numbered, OtherTasks
    <2> QED BY <1>a, <1>b, <1>c, <1>4, <2>1, <2>3, <2>4
         DEF MainWrite, OrderInv, HeldBriefly, StaysConnected
  <1>5. CASE SigPipe
    BY <1>a, <1>b, <1>c, <1>5 DEF SigPipe, StaysConnected
  <1>6. CASE LogRecv
    <2>1. MqReceive(DEFS_TASK_LOG)
      BY <1>6 DEF LogRecv
    <2>2. Received(DEFS_TASK_LOG, Head(queues[DEFS_TASK_LOG]))
      BY <1>6 DEF LogRecv
    <2>3. Sending' = Sending
      BY <1>a, <1>b, <1>c, <1>6 DEF LogRecv, Sending, Goto, Labels
    <2>4. InOrder' /\ Numbered'
      BY <1>a, <1>b, <1>c, <1>6, <2>1, <2>2, <2>3, TaskReceiveKeepsOrder
      DEF LogRecv, OtherTasks, OrderInv
    <2> QED BY <1>a, <1>b, <1>c, <1>6, <2>4
         DEF LogRecv, OrderInv, HeldBriefly, StaysConnected, Goto, Labels
  <1>7. CASE LogHandle
    <2>1. \E l \in {"recv", "send", "dead"} : Goto("log", l)
      BY <1>7 DEF LogHandle, log_init, log_log, log_setpath, log_kill
    <2>2. UNCHANGED <<queues, main_rx, peer, wire, sent, taken>>
          /\ Sending' = Sending /\ pc'["main"] = pc["main"]
      BY <1>a, <1>b, <1>c, <1>7, <2>1 DEF LogHandle, Sending, Goto, Labels
    <2> QED BY <1>a, <1>b, <1>c, <2>2, SameOrder
  <1>8. CASE LogSend
    <2>1. LogMsg(DEFS_TASK_LOG) \in Msg /\ LogMsg(DEFS_TASK_LOG).id = 0
      BY <1>a, <1>b, <1>c, MsgTypes DEF LogMsg, Local
    <2>2. Sending' = Sending
      BY <1>a, <1>b, <1>c, <1>8 DEF LogSend, Sending, Goto, Labels
    <2>3. InOrder' /\ Numbered'
      BY <1>a, <1>b, <1>c, <1>8, <2>1, <2>2, LocalSendKeepsOrder DEF LogSend, OrderInv
    <2> QED BY <1>a, <1>b, <1>c, <1>8, <2>3
         DEF LogSend, OrderInv, HeldBriefly, StaysConnected, Goto, Labels
  <1>9. CASE SpeakRecv
    <2>1. MqReceive(DEFS_TASK_SPEAK)
      BY <1>9 DEF SpeakRecv
    <2>2. Received(DEFS_TASK_SPEAK, Head(queues[DEFS_TASK_SPEAK]))
      BY <1>9 DEF SpeakRecv
    <2>3. Sending' = Sending
      BY <1>a, <1>b, <1>c, <1>9 DEF SpeakRecv, Sending, Goto, Labels
    <2>4. InOrder' /\ Numbered'
      BY <1>a, <1>b, <1>c, <1>9, <2>1, <2>2, <2>3, TaskReceiveKeepsOrder
      DEF SpeakRecv, OtherTasks, OrderInv
    <2> QED BY <1>a, <1>b, <1>c, <1>9, <2>4
         DEF SpeakRecv, OrderInv, HeldBriefly, StaysConnected, Goto, Labels
  <1>10. CASE SpeakSend
    <2>1. LogMsg(DEFS_TASK_SPEAK) \in Msg /\ LogMsg(DEFS_TASK_SPEAK).id = 0
      BY <1>a, <1>b, <1>c, MsgTypes DEF LogMsg, Local
    <2>2. Sending' = Sending
      BY <1>a, <1>b, <1>c, <1>10 DEF SpeakSend, Sending, Goto, Labels
    <2>3. InOrder' /\ Numbered'
      BY <1>a, <1>b, <1>c, <1>10, <2>1, <2>2, LocalSendKeepsOrder DEF SpeakSend, OrderInv
    <2> QED BY <1>a, <1>b, <1>c, <1>10, <2>3
         DEF SpeakSend, OrderInv, HeldBriefly, StaysConnected, Goto, Labels
  <1>11. CASE SpeakPlayed
    <2>1. UNCHANGED <<queues, main_rx, peer, wire, sent, taken>>
          /\ Sending' = Sending /\ pc'["main"] = pc["main"]
      BY <1>a, <1>b, <1>c, <1>11 DEF SpeakPlayed, Sending, Goto, Labels
    <2> QED BY <1>a, <1>b, <1>c, <2>1, SameOrder
  <1>12. CASE SockAccept
    <2>1. UNCHANGED <<queues, main_rx, peer, wire, sent, taken>>
          /\ Sending' = Sending /\ pc'["main"] = pc["main"]
      BY <1>a, <1>b, <1>c, <1>12 DEF SockAccept, Sending, Goto, Labels
    <2> QED BY <1>a, <1>b, <1>c, <2>1, SameOrder
  <1>13. CASE SockRead
    <2>1. wire # <<>> /\ socket_msg' = Head(wire) /\ wire' = Tail(wire)
          /\ Sending = {} /\ Sending' = {Head(wire).id} \ {0} /\ Held' = Held
      BY <1>a, <1>b, <1>c, <1>13 DEF SockRead, StaysConnected, Sending, Goto, Labels, Held
    <2>2. /\ Ids(wire) = Ids(wire') \cup Sending' /\ Increasing(wire')
          /\ Before(Sending', Ids(wire'))
      BY <1>a, <1>b, <1>c, <2>1, IdsTail, IncreasingTail DEF InOrder
    <2>3. Upstream' = Upstream
      BY <1>13, <2>1, <2>2 DEF SockRead, Upstream
    <2>4. InOrder'
      BY <1>a, <1>b, <1>c, <1>13, <2>1, <2>2, <2>3 DEF SockRead, InOrder, Before
    <2>5. Numbered'
      BY <1>a, <1>b, <1>c, <1>13, <2>1, <2>3 DEF SockRead, Numbered
    <2> QED BY <1>a, <1>b, <1>c, <1>13, <2>4, <2>5
         DEF SockRead, OrderInv, HeldBriefly, StaysConnected, Goto, Labels
  <1>14. CASE SockSend
    <2>1. MqSend(DEFS_TASK_BBG, socket_msg) /\ Sending = {socket_msg.id} \ {0}
          /\ Sending' = {} /\ Held' = Held
      BY <1>a, <1>b, <1>c, <1>14 DEF SockSend, msg_send, Sending, Goto, Labels, Held
    <2>2. Before(Ids(queues[DEFS_TASK_BBG]), {socket_msg.id} \ {0})
      BY <1>a, <1>b, <1>c, <2>1 DEF InOrder, Before
    <2>3. /\ Ids(queues'[DEFS_TASK_BBG]) = Ids(queues[DEFS_TASK_BBG]) \cup Sending
          /\ \A u \in Tasks \ {DEFS_TASK_BBG} : Ids(queues'[u]) = Ids(queues[u])
          /\ \A u \in Tasks : Increasing(queues'[u])
      BY <1>a, <1>b, <1>c, <2>1, <2>2, SendIds
    <2>4. Upstream' = Upstream
      BY <1>14, <2>1, <2>3 DEF SockSend, Upstream
    <2>5. InOrder'
      BY <1>a, <1>b, <1>c, <1>14, <2>1, <2>3, <2>4
      DEF SockSend, InOrder, Before, OtherTasks, Upstream
    <2>6. Numbered'
      BY <1>a, <1>b, <1>c, <1>14, <2>1, <2>3, <2>4 DEF SockSend, Numbered, Upstream
    <2> QED BY <1>a, <1>b, <1>c, <1>14, <2>5, <2>6
         DEF SockSend, OrderInv, HeldBriefly, StaysConnected, Goto, Labels
  <1>15. CASE PeerConnect
    <2>1. InOrder' /\ Numbered'
      BY <1>a, <1>b, <1>c, <1>15 DEF PeerConnect, InOrder, Numbered, Held, Upstream, Sending
    <2> QED BY <1>a, <1>b, <1>c, <1>15, <2>1
         DEF PeerConnect, OrderInv, HeldBriefly, StaysConnected
  <1>16. CASE PeerSend
    <2>1. PICK m \in PeerMsgs : wire' = Append(wire, [m EXCEPT !.id = sent + 1])
      BY <1>16 DEF PeerSend
    <2> DEFINE n == [m EXCEPT !.id = sent + 1]
    <2>0. n \in Msg /\ n.id = sent + 1 /\ wire' = Append(wire, n)
      <3>1. sent + 1 \in Nat
        BY <1>b
      <3> QED BY <2>1, <3>1, MsgTypes
    <2> HIDE DEF n
    <2>2. n \in Msg /\ {n.id} \ {0} = {sent + 1} /\ wire' = Append(wire, n)
      BY <1>b, <2>0
    <2>3. Before(Ids(wire), {n.id} \ {0})
      <3>1. Ids(wire) \subseteq 1..sent
        BY <1>a DEF Numbered, Upstream
      <3>2. sent \in Nat
        BY <1>b
      <3>3. \A a \in Ids(wire) : a < sent + 1
        BY <3>1, <3>2
      <3> QED BY <2>2, <3>3 DEF Before
    <2>4. Ids(wire') = Ids(wire) \cup {sent + 1} /\ Increasing(wire')
      BY <1>a, <1>b, <2>2, <2>3, IdsAppend, IncreasingAppend DEF InOrder
    <2>5. Sending' = Sending /\ Held' = Held /\ UNCHANGED <<queues, taken>>
          /\ sent' = sent + 1
      BY <1>16 DEF PeerSend, Sending, Held
    <2>6. Upstream' = Upstream \cup {sent + 1}
      BY <2>4, <2>5 DEF Upstream
    <2>7. InOrder'
      BY <1>a, <1>b, <1>c, <2>4, <2>5, <2>6 DEF InOrder, Numbered, Before, OtherTasks, Upstream
    <2>8. Numbered'
      BY <1>a, <1>b, <2>5, <2>6 DEF Numbered
    <2> QED BY <1>a, <1>b, <1>c, <1>16, <2>7, <2>8
         DEF PeerSend, OrderInv, HeldBriefly, StaysConnected
  <1>17. CASE PeerClose
    BY <1>17 DEF PeerClose
  <1>18. CASE Kill
    <2>1. /\ Held' = {} /\ Sending' = {} /\ Ids(wire') = {} /\ Increasing(wire')
          /\ UNCHANGED <<queues, taken, sent>>
          /\ main_rx' = ZeroMsg /\ peer' = "away"
      BY <1>a, <1>b, <1>c, <1>18 DEF Kill, Die, Dead, Held, Sending, Ids, Increasing
    <2>2. Upstream' = Ids(queues[DEFS_TASK_BBG])
      BY <2>1 DEF Upstream
    <2>3. InOrder'
      BY <1>a, <1>b, <1>c, <2>1, <2>2 DEF InOrder, Before, OtherTasks, Upstream
    <2>4. Numbered'
      BY <1>a, <1>b, <1>c, <2>1, <2>2 DEF Numbered, Upstream
    <2> QED BY <1>a, <1>b, <1>c, <2>1, <2>3, <2>4 DEF OrderInv, HeldBriefly, StaysConnected
  <1>19. CASE Restart
    <2>1. /\ Sending' = {} /\ Held' = Held /\ main_rx = ZeroMsg
          /\ UNCHANGED <<queues, main_rx, peer, wire, taken, sent>>
      BY <1>a, <1>b, <1>c, <1>19 DEF Restart, Fresh, Sending, Held, HeldBriefly
    <2>2. Upstream' = Ids(queues[DEFS_TASK_BBG]) \cup Ids(wire)
      BY <2>1 DEF Upstream
    <2>3. InOrder'
      BY <1>a, <1>b, <1>c, <2>1, <2>2 DEF InOrder, Before, Upstream
    <2>4. Numbered'
      BY <1>a, <1>b, <1>c, <2>1, <2>2 DEF Numbered, Upstream
    <2> QED BY <1>a, <1>b, <1>c, <2>1, <2>3, <2>4 DEF OrderInv, HeldBriefly, StaysConnected
  <1>20. CASE UNCHANGED vars
    <2>1. UNCHANGED <<queues, main_rx, peer, wire, sent, taken>>
          /\ Sending' = Sending /\ pc'["main"] = pc["main"]
      BY <1>20 DEF vars, Sending
    <2> QED BY <1>a, <1>b, <1>c, <2>1, SameOrder
  <1> QED BY <1>1, <1>2, <1>3, <1>4, <1>5, <1>6, <1>7, <1>8, <1>9, <1>10, <1>11,
             <1>12, <1>13, <1>14, <1>15, <1>16, <1>17, <1>18, <1>19, <1>20
          DEF Next, MainNext, LogNext, SpeakNext, SockNext, PeerNext

(* Nothing is on its way when the process first starts. *)
LEMMA OrderInit == Init => OrderInv
  <1> SUFFICES ASSUME Init PROVE OrderInv
    OBVIOUS
  <1>1. TypeOK
    BY TypeInit
  <1>2. /\ \A t \in Tasks : Ids(queues[t]) = {} /\ Increasing(queues[t])
        /\ \A t \in Tasks : taken[t] = {}
        /\ Ids(wire) = {} /\ Increasing(wire) /\ Held = {} /\ Sending = {}
    BY DEF Init, Ids, Increasing, Held, Sending, ZeroMsg, Fresh
  <1>3. Upstream = {}
    BY <1>2 DEF Upstream, Tasks
  <1>4. InOrder /\ Numbered
    BY <1>2, <1>3 DEF InOrder, Numbered, Before, OtherTasks, Tasks
  <1> QED BY <1>1, <1>4 DEF OrderInv, HeldBriefly, StaysConnected, Init

(* Without a hang-up no message overtakes another or is handed over twice. *)
THEOREM OrderCorrect ==
  ASSUME PeerMayClose = FALSE
  PROVE  Spec => []InOrder
  <1>1. Init => OrderInv
    BY OrderInit
  <1>2. OrderInv /\ [Next]_vars => OrderInv'
    BY OrderInductive
  <1>3. OrderInv => InOrder
    BY DEF OrderInv
  <1> QED BY <1>1, <1>2, <1>3, PTL DEF Spec

-----------------------------------------------------------------------------
(* The numbers for one task in a sequence, after an Append and a Tail. *)
LEMMA AmongAppend ==
  ASSUME NEW t, NEW s \in Seq(Msg), NEW m \in Msg
  PROVE  AmongFor(t, Append(s, m)) = AmongFor(t, s) \cup OneFor(t, m)
  <1> DEFINE a == Append(s, m)
  <1>1. /\ DOMAIN a = 1..(Len(s) + 1) /\ DOMAIN s = 1..Len(s) /\ Len(s) \in Nat
        /\ \A i \in 1..Len(s) : a[i] = s[i]
        /\ a[Len(s) + 1] = m
    BY AppendFacts
  <1> HIDE DEF a
  <1>2. {a[i].id : i \in {j \in DOMAIN a : a[j].to = t}}
          = {s[i].id : i \in {j \in DOMAIN s : s[j].to = t}}
              \cup (IF m.to = t THEN {m.id} ELSE {})
    BY <1>1
  <1> QED BY <1>2 DEF AmongFor, OneFor, a

(* The numbers for one task in a sequence, split at its head. *)
LEMMA AmongTail ==
  ASSUME NEW t, NEW s \in Seq(Msg), s # <<>>
  PROVE  AmongFor(t, s) = AmongFor(t, Tail(s)) \cup OneFor(t, Head(s))
  <1> DEFINE r == Tail(s)
  <1>1. /\ DOMAIN s = 1..Len(s) /\ Len(s) \in Nat /\ Len(s) > 0
        /\ DOMAIN r = 1..(Len(s) - 1) /\ Head(s) = s[1]
        /\ \A i \in 1..(Len(s) - 1) : r[i] = s[i + 1]
    BY TailFacts
  <1> HIDE DEF r
  <1>2. \A i \in DOMAIN s : i = 1 \/ (i - 1 \in DOMAIN r /\ s[i] = r[i - 1])
    BY <1>1
  <1>3. \A i \in DOMAIN r : i + 1 \in DOMAIN s /\ r[i] = s[i + 1]
    BY <1>1
  <1>4. 1 \in DOMAIN s /\ s[1] = Head(s)
    BY <1>1
  <1>5. {s[i].id : i \in {j \in DOMAIN s : s[j].to = t}}
          = {r[i].id : i \in {j \in DOMAIN r : r[j].to = t}}
              \cup (IF Head(s).to = t THEN {Head(s).id} ELSE {})
    BY <1>2, <1>3, <1>4
  <1> QED BY <1>5 DEF AmongFor, OneFor, r

(* What is on its way to one task is part of all that is on its way. *)
LEMMA AmongIds ==
  /\ \A t, s : AmongFor(t, s) \subseteq Ids(s)
  /\ \A t, m : OneFor(t, m) \subseteq {m.id} \ {0}
  BY DEF AmongFor, OneFor, Ids

(* What an mq_send adds to the numbers on their way to each task. *)
LEMMA SendAmong ==
  ASSUME QueuesOK, NEW t \in Tasks, NEW m \in Msg, MqSend(t, m)
  PROVE  /\ \A u : AmongFor(u, queues'[t])
                    = AmongFor(u, queues[t]) \cup OneFor(u, m)
         /\ \A u, v : v \in Tasks \ {t} =>
              AmongFor(u, queues'[v]) = AmongFor(u, queues[v])
  <1>1. /\ queues \in [Tasks -> Seq(Msg)] /\ queues[t] \in Seq(Msg)
        /\ queues'[t] = Append(queues[t], m)
        /\ \A v \in Tasks \ {t} : queues'[v] = queues[v]
    BY DEF QueuesOK, MqSend
  <1> QED BY <1>1, AmongAppend

(* What an mq_receive takes from the numbers on their way to each task. *)
LEMMA ReceiveAmong ==
  ASSUME QueuesOK, NEW t \in Tasks, MqReceive(t)
  PROVE  /\ \A u : AmongFor(u, queues[t])
                    = AmongFor(u, queues'[t]) \cup OneFor(u, Head(queues[t]))
         /\ \A u, v : v \in Tasks \ {t} =>
              AmongFor(u, queues'[v]) = AmongFor(u, queues[v])
  <1>1. /\ queues \in [Tasks -> Seq(Msg)] /\ queues[t] \in Seq(Msg)
        /\ queues[t] # <<>> /\ queues'[t] = Tail(queues[t])
        /\ \A v \in Tasks \ {t} : queues'[v] = queues[v]
    BY DEF QueuesOK, MqReceive
  <1> QED BY <1>1, AmongTail

(* Numbered messages are for this board, and main writes none of them to   *)
(* the socket.                                                             *)
ForThisBoard(m) == m.id # 0 => m.devt = DEFS_ID_BBG
AllForThisBoard ==
  /\ \A i \in DOMAIN queues[DEFS_TASK_BBG] : ForThisBoard(queues[DEFS_TASK_BBG][i])
  /\ \A i \in DOMAIN wire : ForThisBoard(wire[i])
  /\ ForThisBoard(socket_msg)
  /\ pc["main"] = "write" => main_rx.id = 0
(* The socket thread dies with the process. *)
DeadTogether == pc["main"] = "dead" => pc["sock"] = "dead"
(* The invariant of the refinement. *)
BusInv == OrderInv /\ AllForThisBoard /\ DeadTogether

(* All messages of a tail are for this board if all of the sequence are. *)
LEMMA ForBoardTail ==
  ASSUME NEW s \in Seq(Msg), s # <<>>, \A i \in DOMAIN s : ForThisBoard(s[i])
  PROVE  /\ ForThisBoard(Head(s))
         /\ \A i \in DOMAIN Tail(s) : ForThisBoard(Tail(s)[i])
  <1> DEFINE r == Tail(s)
  <1>1. /\ DOMAIN s = 1..Len(s) /\ Len(s) \in Nat /\ Len(s) > 0
        /\ DOMAIN r = 1..(Len(s) - 1) /\ Head(s) = s[1]
        /\ \A i \in 1..(Len(s) - 1) : r[i] = s[i + 1]
    BY TailFacts
  <1> HIDE DEF r
  <1>2. \A i \in DOMAIN r : i + 1 \in DOMAIN s /\ r[i] = s[i + 1]
    BY <1>1
  <1>3. 1 \in DOMAIN s
    BY <1>1
  <1> QED BY <1>1, <1>2, <1>3 DEF r

(* Appending a message for this board keeps all of them so. *)
LEMMA ForBoardAppend ==
  ASSUME NEW s \in Seq(Msg), NEW m \in Msg, ForThisBoard(m),
         \A i \in DOMAIN s : ForThisBoard(s[i])
  PROVE  \A i \in DOMAIN Append(s, m) : ForThisBoard(Append(s, m)[i])
  <1> DEFINE a == Append(s, m)
  <1>1. /\ DOMAIN a = 1..(Len(s) + 1) /\ DOMAIN s = 1..Len(s) /\ Len(s) \in Nat
        /\ \A i \in 1..Len(s) : a[i] = s[i]
        /\ a[Len(s) + 1] = m
    BY AppendFacts
  <1> HIDE DEF a
  <1>2. \A i \in DOMAIN a : i \in DOMAIN s \/ i = Len(s) + 1
    BY <1>1
  <1>3. \A i \in DOMAIN a : ForThisBoard(a[i])
    BY <1>1, <1>2
  <1> QED BY <1>3 DEF a

(* What waits for main after a local send and after its own receive. *)
LEMMA LocalSendForBoard ==
  ASSUME TypeOK, AllForThisBoard, NEW m \in Msg, ForThisBoard(m), msg_send(m)
  PROVE  \A i \in DOMAIN queues'[DEFS_TASK_BBG] :
           ForThisBoard(queues'[DEFS_TASK_BBG][i])
  <1>1. /\ queues[DEFS_TASK_BBG] \in Seq(Msg)
        /\ queues'[DEFS_TASK_BBG] = Append(queues[DEFS_TASK_BBG], m)
    BY DEF TypeOK, QueuesOK, msg_send, MqSend, Tasks
  <1> QED BY <1>1, ForBoardAppend DEF AllForThisBoard

(* Every step keeps the numbered messages on their way to this board. *)
LEMMA ForBoardInductive ==
  TypeOK /\ AllForThisBoard /\ [Next]_vars => AllForThisBoard'
  <1> SUFFICES ASSUME TypeOK, AllForThisBoard, [Next]_vars PROVE AllForThisBoard'
    OBVIOUS
  <1>a. /\ TypeOK /\ AllForThisBoard
        /\ QueuesOK /\ ThreadsOK /\ pc \in Labels /\ wire \in Seq(Msg)
        /\ main_rx \in Msg /\ socket_msg \in Msg /\ queues \in [Tasks -> Seq(Msg)]
    BY DEF TypeOK, ThreadsOK, NetworkOK, QueuesOK
  <1>b. /\ DEFS_TASK_BBG \in Tasks /\ DEFS_TASK_SPEAK \in Tasks
        /\ DEFS_TASK_LOG \in Tasks /\ DEFS_TASK_SPEAK # DEFS_TASK_BBG
        /\ DEFS_TASK_LOG # DEFS_TASK_BBG
    BY DEF Tasks, DEFS_TASK_BBG, DEFS_TASK_SPEAK, DEFS_TASK_LOG
  <1>c. \A f \in Tasks : LogMsg(f) \in Msg /\ ForThisBoard(LogMsg(f))
    BY MsgTypes DEF LogMsg, Local, ForThisBoard
  <1>d. ZeroMsg.id = 0 /\ ForThisBoard(ZeroMsg)
    BY DEF ZeroMsg, ForThisBoard
  <1> USE DEF netVars, logVars, progVars, AllForThisBoard
  <1>1. CASE MainStart
    <2>1. /\ StartMsg[pc["main"]] \in Msg /\ ForThisBoard(StartMsg[pc["main"]])
          /\ msg_send(StartMsg[pc["main"]])
      BY <1>1, MsgTypes DEF MainStart, ForThisBoard
    <2>2. pc'["main"] # "write"
      BY <1>a, <1>1 DEF MainStart, Goto, Labels, Starting, AfterStart
    <2> QED BY <1>a, <1>1, <2>1, <2>2, LocalSendForBoard DEF MainStart
  <1>2. CASE MainRecv
    <2> DEFINE m == Head(queues[DEFS_TASK_BBG])
    <2>1. /\ queues[DEFS_TASK_BBG] # <<>> /\ queues[DEFS_TASK_BBG] \in Seq(Msg)
          /\ queues'[DEFS_TASK_BBG] = Tail(queues[DEFS_TASK_BBG])
      BY <1>a, <1>b, <1>2 DEF MainRecv, MqReceive
    <2>2. /\ ForThisBoard(m)
          /\ \A i \in DOMAIN queues'[DEFS_TASK_BBG] :
               ForThisBoard(queues'[DEFS_TASK_BBG][i])
      BY <1>a, <2>1, ForBoardTail
    <2>3. pc'["main"] = "write" => main_rx' = m /\ m.devt # DEFS_ID_BBG
      BY <1>a, <1>2 DEF MainRecv, Goto, Labels, Starting
    <2>4. pc'["main"] = "write" => main_rx'.id = 0
      BY <2>2, <2>3 DEF ForThisBoard
    <2> QED BY <1>a, <1>2, <2>2, <2>4 DEF MainRecv
  <1>3. CASE msg_route
    <2>1. queues'[DEFS_TASK_BBG] = queues[DEFS_TASK_BBG] /\ pc'["main"] = "recv"
      BY <1>a, <1>b, <1>3 DEF msg_route, MqSend, ThreadsOK, OtherTasks, Goto, Labels
    <2> QED BY <1>a, <1>3, <2>1 DEF msg_route
  <1>4. CASE MainWrite
    BY <1>a, <1>4, <1>d DEF MainWrite
  <1>5. CASE SigPipe
    BY <1>a, <1>d, <1>5 DEF SigPipe, Die, Dead
  <1>6. CASE LogRecv
    <2>1. queues'[DEFS_TASK_BBG] = queues[DEFS_TASK_BBG]
      BY <1>a, <1>b, <1>6 DEF LogRecv, MqReceive
    <2> QED BY <1>a, <1>6, <2>1 DEF LogRecv, Goto, Labels
  <1>7. CASE LogHandle
    <2>1. \E l \in {"recv", "send", "dead"} : Goto("log", l)
      BY <1>7 DEF LogHandle, log_init, log_log, log_setpath, log_kill
    <2> QED BY <1>a, <1>7, <2>1 DEF LogHandle, Goto, Labels
  <1>8. CASE LogSend
    <2>1. \A i \in DOMAIN queues'[DEFS_TASK_BBG] :
            ForThisBoard(queues'[DEFS_TASK_BBG][i])
      BY <1>b, <1>c, <1>8, LocalSendForBoard DEF LogSend
    <2> QED BY <1>a, <1>8, <2>1 DEF LogSend, Goto, Labels
  <1>9. CASE SpeakRecv
    <2>1. queues'[DEFS_TASK_BBG] = queues[DEFS_TASK_BBG]
      BY <1>a, <1>b, <1>9 DEF SpeakRecv, MqReceive
    <2> QED BY <1>a, <1>9, <2>1 DEF SpeakRecv, Goto, Labels
  <1>10. CASE SpeakSend
    <2>1. \A i \in DOMAIN queues'[DEFS_TASK_BBG] :
            ForThisBoard(queues'[DEFS_TASK_BBG][i])
      BY <1>b, <1>c, <1>10, LocalSendForBoard DEF SpeakSend
    <2> QED BY <1>a, <1>10, <2>1 DEF SpeakSend, Goto, Labels
  <1>11. CASE SpeakPlayed
    BY <1>a, <1>11 DEF SpeakPlayed, Goto, Labels
  <1>12. CASE SockAccept
    BY <1>a, <1>12 DEF SockAccept, Goto, Labels
  <1>13. CASE SockRead
    <2>1. \/ wire # <<>> /\ socket_msg' = Head(wire) /\ wire' = Tail(wire)
          \/ UNCHANGED <<socket_msg, wire>>
      BY <1>a, <1>13 DEF SockRead
    <2>2. ForThisBoard(socket_msg') /\ \A i \in DOMAIN wire' : ForThisBoard(wire'[i])
      BY <1>a, <2>1, ForBoardTail
    <2> QED BY <1>a, <1>13, <2>2 DEF SockRead, Goto, Labels
  <1>14. CASE SockSend
    <2>1. \A i \in DOMAIN queues'[DEFS_TASK_BBG] :
            ForThisBoard(queues'[DEFS_TASK_BBG][i])
      BY <1>a, <1>14, LocalSendForBoard DEF SockSend
    <2> QED BY <1>a, <1>14, <2>1 DEF SockSend, Goto, Labels
  <1>15. CASE PeerConnect
    BY <1>a, <1>15 DEF PeerConnect
  <1>16. CASE PeerSend
    <2>1. PICK m \in PeerMsgs : wire' = Append(wire, [m EXCEPT !.id = sent + 1])
      BY <1>16 DEF PeerSend
    <2> DEFINE n == [m EXCEPT !.id = sent + 1]
    <2>2. n \in Msg
      <3>1. sent + 1 \in Nat
        BY <1>a DEF TypeOK, NetworkOK
      <3> QED BY <3>1, MsgTypes
    <2>3. ForThisBoard(n)
      BY PeerAssumption DEF ForThisBoard
    <2>4. wire' = Append(wire, n)
      BY <2>1
    <2> HIDE DEF n
    <2>5. \A i \in DOMAIN wire' : ForThisBoard(wire'[i])
      BY <1>a, <2>2, <2>3, <2>4, ForBoardAppend
    <2> QED BY <1>a, <1>16, <2>5 DEF PeerSend
  <1>17. CASE PeerClose
    BY <1>a, <1>17 DEF PeerClose
  <1>18. CASE Kill
    BY <1>a, <1>d, <1>18 DEF Kill, Die, Dead
  <1>19. CASE Restart
    BY <1>a, <1>19 DEF Restart, Fresh
  <1>20. CASE UNCHANGED vars
    BY <1>a, <1>20 DEF vars
  <1> QED BY <1>1, <1>2, <1>3, <1>4, <1>5, <1>6, <1>7, <1>8, <1>9, <1>10, <1>11,
             <1>12, <1>13, <1>14, <1>15, <1>16, <1>17, <1>18, <1>19, <1>20
          DEF Next, MainNext, LogNext, SpeakNext, SockNext, PeerNext

(* Only the death of the whole process makes main dead, and no thread runs *)
(* until it is started again.                                              *)
LEMMA DeadInductive == TypeOK /\ DeadTogether /\ [Next]_vars => DeadTogether'
  <1> SUFFICES ASSUME TypeOK, DeadTogether, [Next]_vars PROVE DeadTogether'
    OBVIOUS
  <1>a. pc \in Labels
    BY DEF TypeOK, ThreadsOK
  <1> USE DEF DeadTogether, Goto, Labels, progVars
  <1>1. CASE MainNext \/ Kill
    <2>1. CASE MainStart
      BY <1>a, <2>1 DEF MainStart, Starting, AfterStart
    <2>2. CASE MainRecv
      BY <1>a, <2>2 DEF MainRecv
    <2>3. CASE msg_route \/ MainWrite
      BY <1>a, <2>3 DEF msg_route, MainWrite
    <2>4. CASE SigPipe \/ Kill
      BY <2>4 DEF SigPipe, Kill, Die, Dead
    <2> QED BY <1>1, <2>1, <2>2, <2>3, <2>4 DEF MainNext
  <1>2. CASE LogNext
    <2>1. \E l \in {"recv", "handle", "send", "dead"} : Goto("log", l)
      BY <1>2 DEF LogNext, LogRecv, LogHandle, LogSend, log_init, log_log,
                  log_setpath, log_kill
    <2> QED BY <1>a, <2>1
  <1>3. CASE SpeakNext
    <2>1. pc'["main"] = pc["main"] /\ pc'["sock"] = pc["sock"]
      BY <1>a, <1>3 DEF SpeakNext, SpeakRecv, SpeakSend, SpeakPlayed
    <2> QED BY <2>1
  <1>4. CASE SockNext
    BY <1>a, <1>4 DEF SockNext, SockAccept, SockRead, SockSend
  <1>5. CASE PeerNext
    BY <1>5 DEF PeerNext, PeerConnect, PeerSend, PeerClose
  <1>6. CASE Restart
    BY <1>6 DEF Restart, Fresh
  <1>7. CASE UNCHANGED vars
    BY <1>7 DEF vars
  <1> QED BY <1>1, <1>2, <1>3, <1>4, <1>5, <1>6, <1>7 DEF Next

(* The invariant of the refinement is inductive. *)
LEMMA BusInductive ==
  ASSUME PeerMayClose = FALSE
  PROVE  BusInv /\ [Next]_vars => BusInv'
  BY OrderInductive, ForBoardInductive, DeadInductive DEF BusInv, OrderInv

-----------------------------------------------------------------------------
(* A step that moves numbers along the way without taking one is a stutter *)
(* of the bus.                                                             *)
LEMMA BusStutter ==
  ASSUME \A t \in Tasks : Pending(t)' = Pending(t),
         UNCHANGED <<sent, taken>>, Deaths' = Deaths
  PROVE  UNCHANGED Bus!busVars
  BY DEF Bus!busVars

(* A local message is pending for nobody. *)
LEMMA LocalSendStutters ==
  ASSUME BusInv, NEW m \in Msg, m.id = 0, msg_send(m),
         UNCHANGED <<main_rx, socket_msg, wire, sent, taken>>,
         pc'["sock"] = pc["sock"], Deaths' = Deaths
  PROVE  UNCHANGED Bus!busVars
  <1>1. QueuesOK /\ DEFS_TASK_BBG \in Tasks /\ MqSend(DEFS_TASK_BBG, m)
    BY DEF BusInv, OrderInv, TypeOK, Tasks, msg_send
  <1>2. \A u : OneFor(u, m) = {}
    BY DEF OneFor
  <1>3. \A u, v : v \in Tasks => AmongFor(u, queues'[v]) = AmongFor(u, queues[v])
    BY <1>1, <1>2, SendAmong
  <1>4. \A t \in Tasks : Pending(t)' = Pending(t)
    BY <1>1, <1>3 DEF Pending
  <1> QED BY <1>4, BusStutter

(* A task that receives a message is handed it, as the oldest pending one. *)
LEMMA ReceiveHands ==
  ASSUME BusInv, NEW t \in Tasks, MqReceive(t), Received(t, Head(queues[t])),
         Head(queues[t]).to = t, t = DEFS_TASK_BBG => main_rx = ZeroMsg,
         UNCHANGED <<main_rx, socket_msg, wire, sent>>,
         pc'["sock"] = pc["sock"], Deaths' = Deaths
  PROVE  [Bus!BusNext]_(Bus!busVars)
  <1> DEFINE m == Head(queues[t])
             rest(u) == OneFor(u, main_rx) \cup AmongFor(u, wire)
                \cup (IF pc["sock"] = "send" THEN OneFor(u, socket_msg) ELSE {})
  <1>1. /\ QueuesOK /\ InOrder /\ m \in Msg /\ DEFS_TASK_BBG \in Tasks
        /\ taken \in [Tasks -> SUBSET Nat]
        /\ \A u \in Tasks : Increasing(queues[u])
    BY ReceiveKeepsQueues DEF BusInv, OrderInv, TypeOK, ProcessOK, InOrder, Tasks
  <1>2. /\ \A u : AmongFor(u, queues[t]) = AmongFor(u, queues'[t]) \cup OneFor(u, m)
        /\ \A u, v : v \in Tasks \ {t} =>
             AmongFor(u, queues'[v]) = AmongFor(u, queues[v])
    BY <1>1, ReceiveAmong
  <1>3. /\ Ids(queues[t]) = Ids(queues'[t]) \cup ({m.id} \ {0})
        /\ Before({m.id} \ {0}, Ids(queues'[t]))
    BY <1>1, ReceiveIds
  <1>4. \A u : OneFor(u, m) = IF u = t THEN {m.id} \ {0} ELSE {}
    BY DEF OneFor
  <1>5. \A u \in Tasks : /\ Pending(u) = Pending(u)' \cup OneFor(u, m)
    BY <1>1, <1>2, <1>4 DEF Pending
  <1> HIDE DEF m
  <1>6. CASE m.id = 0
    <2>1. \A u \in Tasks : Pending(u)' = Pending(u)
      BY <1>4, <1>5, <1>6
    <2>2. taken' = taken
      BY <1>6 DEF Received, m
    <2> QED BY <2>1, <2>2, BusStutter
  <1>7. CASE m.id # 0
    <2>1. Before({m.id}, Pending(t)')
      <3>1. Pending(t)' \subseteq Ids(queues'[t]) \cup Ids(queues'[DEFS_TASK_BBG])
                                  \cup Held \cup Sending \cup Ids(wire)
        BY AmongIds DEF Pending, Held, Sending
      <3>2. Before({m.id}, Ids(queues'[t]))
        BY <1>3, <1>7 DEF Before
      <3>3. m.id \in Ids(queues[t])
        BY <1>3, <1>7
      <3>4. CASE t = DEFS_TASK_BBG
        <4>1. Held = {}
          BY <3>4 DEF Held, ZeroMsg
        <4> QED BY <1>1, <3>1, <3>2, <3>3, <3>4, <4>1 DEF InOrder, Before
      <3>5. CASE t # DEFS_TASK_BBG
        <4>1. Ids(queues'[DEFS_TASK_BBG]) = Ids(queues[DEFS_TASK_BBG])
          BY <1>1, <3>5, ReceiveIds
        <4> QED BY <1>1, <3>1, <3>2, <3>3, <3>5, <4>1
             DEF InOrder, Before, OtherTasks, Upstream
      <3> QED BY <3>4, <3>5
    <2>2. m.id \in Nat /\ Pending(t)' \subseteq Nat
      <3>1. Pending(t)' \subseteq Pending(t)
        BY <1>5
      <3>2. Pending(t) \subseteq Ids(queues[t]) \cup Held \cup Upstream
        BY AmongIds DEF Pending, Held, Upstream, Sending
      <3>3. Ids(queues[t]) \cup Held \cup Upstream \subseteq 1..sent
        BY DEF BusInv, OrderInv, Numbered
      <3> QED BY <1>1, <3>1, <3>2, <3>3 DEF Msg
    <2>3. m.id \in Pending(t) /\ \A k \in Pending(t) : m.id <= k
      BY <1>4, <1>5, <1>7, <2>1, <2>2 DEF Before
    <2>4. Pending(t)' = Pending(t) \ {m.id}
      BY <1>4, <1>5, <1>7, <2>1, <2>2 DEF Before
    <2>5. \A u \in Tasks \ {t} : Pending(u)' = Pending(u)
      BY <1>4, <1>5
    <2>6. taken' = [taken EXCEPT ![t] = @ \cup {m.id}]
      BY <1>7 DEF Received, m
    <2>7. [u \in Tasks |-> Pending(u)]'
            = [[u \in Tasks |-> Pending(u)] EXCEPT ![t] = @ \ {m.id}]
      BY <2>4, <2>5
    <2>8. Bus!Hand(t, m.id)
      BY <2>3, <2>6, <2>7 DEF Bus!Hand
    <2> QED BY <2>3, <2>8 DEF Bus!BusNext
  <1> QED BY <1>6, <1>7

(* Every step is a step of the bus or leaves the bus alone. *)
LEMMA Simulation ==
  ASSUME PeerMayClose = FALSE
  PROVE  BusInv /\ [Next]_vars => [Bus!BusNext]_(Bus!busVars)
  <1> SUFFICES ASSUME BusInv, [Next]_vars PROVE [Bus!BusNext]_(Bus!busVars)
    OBVIOUS
  <1>a. /\ TypeOK /\ InOrder /\ AllForThisBoard /\ StaysConnected /\ HeldBriefly
        /\ QueuesOK /\ ThreadsOK /\ pc \in Labels /\ wire \in Seq(Msg)
        /\ main_rx \in Msg /\ socket_msg \in Msg /\ queues \in [Tasks -> Seq(Msg)]
    BY DEF BusInv, OrderInv, TypeOK, ThreadsOK, NetworkOK, QueuesOK
  <1>b. /\ DEFS_TASK_BBG \in Tasks /\ DEFS_TASK_SPEAK \in Tasks
        /\ DEFS_TASK_LOG \in Tasks /\ DEFS_TASK_SPEAK # DEFS_TASK_BBG
        /\ DEFS_TASK_LOG # DEFS_TASK_BBG
    BY DEF Tasks, DEFS_TASK_BBG, DEFS_TASK_SPEAK, DEFS_TASK_LOG
  <1>c. \A f \in Tasks : LogMsg(f) \in Msg /\ LogMsg(f).id = 0
    BY MsgTypes DEF LogMsg, Local
  <1>d. ZeroMsg.id = 0 /\ \A u : OneFor(u, ZeroMsg) = {}
    BY DEF ZeroMsg, OneFor
  <1> USE DEF netVars, logVars, progVars
  <1>1. CASE MainStart
    <2>1. /\ StartMsg[pc["main"]] \in Msg /\ StartMsg[pc["main"]].id = 0
          /\ msg_send(StartMsg[pc["main"]])
      BY <1>1, MsgTypes DEF MainStart
    <2>2. pc'["sock"] = pc["sock"] /\ Deaths' = Deaths
      BY <1>a, <1>1 DEF MainStart, Goto, Labels, Starting, AfterStart, Deaths
    <2> QED BY <1>1, <2>1, <2>2, LocalSendStutters DEF MainStart
  <1>2. CASE MainRecv
    <2> DEFINE m == Head(queues[DEFS_TASK_BBG])
    <2>1. /\ MqReceive(DEFS_TASK_BBG) /\ main_rx = ZeroMsg
          /\ UNCHANGED <<socket_msg, wire, sent>>
          /\ pc'["sock"] = pc["sock"] /\ Deaths' = Deaths
      BY <1>a, <1>2 DEF MainRecv, Goto, Labels, Starting, HeldBriefly, Deaths
    <2>2. CASE m.devt = DEFS_ID_BBG /\ m.to = DEFS_TASK_BBG
      BY <1>b, <1>2, <2>1, <2>2, ReceiveHands DEF MainRecv
    <2>3. CASE ~(m.devt = DEFS_ID_BBG /\ m.to = DEFS_TASK_BBG)
      <3>1. main_rx' = m /\ UNCHANGED taken
        BY <1>2, <2>3 DEF MainRecv
      <3>2. /\ \A u : AmongFor(u, queues[DEFS_TASK_BBG])
                      = AmongFor(u, queues'[DEFS_TASK_BBG]) \cup OneFor(u, m)
            /\ \A u, v : v \in Tasks \ {DEFS_TASK_BBG} =>
                 AmongFor(u, queues'[v]) = AmongFor(u, queues[v])
        BY <1>a, <1>b, <2>1, ReceiveAmong
      <3>3. OneFor(DEFS_TASK_BBG, m) = {}
        <4>1. ForThisBoard(m)
          <5>1. 1 \in DOMAIN queues[DEFS_TASK_BBG] /\ m = queues[DEFS_TASK_BBG][1]
            BY <1>a, <1>b, <2>1, TailFacts DEF MqReceive
          <5> QED BY <1>a, <5>1 DEF AllForThisBoard
        <4> QED BY <2>3, <4>1 DEF ForThisBoard, OneFor
      <3> HIDE DEF m
      <3>4. \A u \in Tasks : Pending(u)' = Pending(u)
        BY <1>b, <1>d, <2>1, <3>1, <3>2, <3>3 DEF Pending
      <3> QED BY <2>1, <3>1, <3>4, BusStutter
    <2> QED BY <2>2, <2>3
  <1>3. CASE msg_route
    <2>1. /\ MqSend(main_rx.to, main_rx) /\ main_rx.to \in OtherTasks
          /\ main_rx' = ZeroMsg /\ UNCHANGED <<socket_msg, wire, sent, taken>>
          /\ pc'["sock"] = pc["sock"] /\ Deaths' = Deaths
      BY <1>a, <1>3 DEF msg_route, ThreadsOK, Goto, Labels, Deaths
    <2>2. /\ main_rx.to \in Tasks /\ main_rx.to # DEFS_TASK_BBG
          /\ \A u : OneFor(u, main_rx) = IF u = main_rx.to THEN {main_rx.id} \ {0} ELSE {}
      BY <2>1 DEF OtherTasks, OneFor
    <2>3. /\ \A u : AmongFor(u, queues'[main_rx.to])
                    = AmongFor(u, queues[main_rx.to]) \cup OneFor(u, main_rx)
          /\ \A u, v : v \in Tasks \ {main_rx.to} =>
               AmongFor(u, queues'[v]) = AmongFor(u, queues[v])
      BY <1>a, <2>1, <2>2, SendAmong
    <2>4. \A u \in Tasks : Pending(u)' = Pending(u)
      BY <1>b, <1>d, <2>1, <2>2, <2>3 DEF Pending
    <2> QED BY <2>1, <2>4, BusStutter
  <1>4. CASE MainWrite
    <2>1. /\ \A u : OneFor(u, main_rx) = {}
          /\ main_rx' = ZeroMsg /\ UNCHANGED <<queues, socket_msg, wire, sent, taken>>
          /\ pc'["sock"] = pc["sock"] /\ Deaths' = Deaths
      BY <1>a, <1>4 DEF MainWrite, AllForThisBoard, OneFor, Goto, Labels, Deaths
    <2>2. \A u \in Tasks : Pending(u)' = Pending(u)
      BY <1>d, <2>1 DEF Pending
    <2> QED BY <2>1, <2>2, BusStutter
  <1>5. CASE SigPipe
    BY <1>a, <1>5 DEF SigPipe, StaysConnected
  <1>6. CASE LogRecv
    <2>1. /\ MqReceive(DEFS_TASK_LOG)
          /\ Received(DEFS_TASK_LOG, Head(queues[DEFS_TASK_LOG]))
          /\ UNCHANGED <<main_rx, socket_msg, wire, sent>>
          /\ pc'["sock"] = pc["sock"] /\ Deaths' = Deaths
      BY <1>a, <1>6 DEF LogRecv, Goto, Labels, Deaths
    <2>2. Head(queues[DEFS_TASK_LOG]).to = DEFS_TASK_LOG
      BY <1>a, <1>b, <2>1, ReceiveKeepsQueues DEF OtherTasks
    <2> QED BY <1>b, <2>1, <2>2, ReceiveHands
  <1>7. CASE LogHandle
    <2>1. \E l \in {"recv", "send", "dead"} : Goto("log", l)
      BY <1>7 DEF LogHandle, log_init, log_log, log_setpath, log_kill
    <2>2. UNCHANGED <<queues, main_rx, socket_msg, wire, sent, taken>>
          /\ pc'["sock"] = pc["sock"] /\ Deaths' = Deaths
      BY <1>a, <1>7, <2>1 DEF LogHandle, Goto, Labels, Deaths
    <2> QED BY <2>2, BusStutter DEF Pending
  <1>8. CASE LogSend
    <2>1. pc'["sock"] = pc["sock"] /\ Deaths' = Deaths
      BY <1>a, <1>8 DEF LogSend, Goto, Labels, Deaths
    <2> QED BY <1>b, <1>c, <1>8, <2>1, LocalSendStutters DEF LogSend
  <1>9. CASE SpeakRecv
    <2>1. /\ MqReceive(DEFS_TASK_SPEAK)
          /\ Received(DEFS_TASK_SPEAK, Head(queues[DEFS_TASK_SPEAK]))
          /\ UNCHANGED <<main_rx, socket_msg, wire, sent>>
          /\ pc'["sock"] = pc["sock"] /\ Deaths' = Deaths
      BY <1>a, <1>9 DEF SpeakRecv, Goto, Labels, Deaths
    <2>2. Head(queues[DEFS_TASK_SPEAK]).to = DEFS_TASK_SPEAK
      BY <1>a, <1>b, <2>1, ReceiveKeepsQueues DEF OtherTasks
    <2> QED BY <1>b, <2>1, <2>2, ReceiveHands
  <1>10. CASE SpeakSend
    <2>1. pc'["sock"] = pc["sock"] /\ Deaths' = Deaths
      BY <1>a, <1>10 DEF SpeakSend, Goto, Labels, Deaths
    <2> QED BY <1>b, <1>c, <1>10, <2>1, LocalSendStutters DEF SpeakSend
  <1>11. CASE SpeakPlayed
    <2>1. UNCHANGED <<queues, main_rx, socket_msg, wire, sent, taken>>
          /\ pc'["sock"] = pc["sock"] /\ Deaths' = Deaths
      BY <1>a, <1>11 DEF SpeakPlayed, Goto, Labels, Deaths
    <2> QED BY <2>1, BusStutter DEF Pending
  <1>12. CASE SockAccept
    <2>1. /\ UNCHANGED <<queues, main_rx, socket_msg, wire, sent, taken>>
          /\ pc["sock"] # "send" /\ pc'["sock"] # "send" /\ Deaths' = Deaths
      BY <1>a, <1>12 DEF SockAccept, Goto, Labels, Deaths
    <2> QED BY <2>1, BusStutter DEF Pending
  <1>13. CASE SockRead
    <2>1. /\ wire # <<>> /\ socket_msg' = Head(wire) /\ wire' = Tail(wire)
          /\ pc["sock"] # "send" /\ pc'["sock"] = "send" /\ Deaths' = Deaths
          /\ UNCHANGED <<queues, main_rx, sent, taken>>
      BY <1>a, <1>13 DEF SockRead, StaysConnected, Goto, Labels, Deaths
    <2>2. \A u : AmongFor(u, wire) = AmongFor(u, wire') \cup OneFor(u, socket_msg')
      BY <1>a, <2>1, AmongTail
    <2>3. \A u \in Tasks : Pending(u)' = Pending(u)
      BY <2>1, <2>2 DEF Pending
    <2> QED BY <2>1, <2>3, BusStutter
  <1>14. CASE SockSend
    <2>1. /\ MqSend(DEFS_TASK_BBG, socket_msg)
          /\ pc["sock"] = "send" /\ pc'["sock"] # "send" /\ Deaths' = Deaths
          /\ UNCHANGED <<main_rx, socket_msg, wire, sent, taken>>
      BY <1>a, <1>14 DEF SockSend, msg_send, Goto, Labels, Deaths
    <2>2. /\ \A u : AmongFor(u, queues'[DEFS_TASK_BBG])
                    = AmongFor(u, queues[DEFS_TASK_BBG]) \cup OneFor(u, socket_msg)
          /\ \A u, v : v \in Tasks \ {DEFS_TASK_BBG} =>
               AmongFor(u, queues'[v]) = AmongFor(u, queues[v])
      BY <1>a, <1>b, <2>1, SendAmong
    <2>3. \A u \in Tasks : Pending(u)' = Pending(u)
      BY <1>b, <2>1, <2>2 DEF Pending
    <2> QED BY <2>1, <2>3, BusStutter
  <1>15. CASE PeerConnect
    <2>1. UNCHANGED <<queues, pc, main_rx, socket_msg, wire, sent, taken>>
          /\ Deaths' = Deaths
      BY <1>15 DEF PeerConnect, Deaths
    <2> QED BY <2>1, BusStutter DEF Pending
  <1>16. CASE PeerSend
    <2>1. PICK m \in PeerMsgs : wire' = Append(wire, [m EXCEPT !.id = sent + 1])
      BY <1>16 DEF PeerSend
    <2> DEFINE n == [m EXCEPT !.id = sent + 1]
    <2>2. sent \in Nat /\ sent + 1 \in Nat
      BY <1>a DEF TypeOK, NetworkOK
    <2>3. n \in Msg /\ n.id = sent + 1 /\ n.to \in Tasks /\ wire' = Append(wire, n)
      BY <2>1, <2>2, MsgTypes, PeerAssumption
    <2> HIDE DEF n
    <2>4. \A u : OneFor(u, n) = IF u = n.to THEN {sent + 1} ELSE {}
      <3>1. {n.id} \ {0} = {sent + 1}
        BY <2>2, <2>3
      <3> QED BY <3>1 DEF OneFor
    <2>5. \A u : AmongFor(u, wire') = AmongFor(u, wire) \cup OneFor(u, n)
      BY <1>a, <2>3, AmongAppend
    <2>6. UNCHANGED <<queues, pc, main_rx, socket_msg, taken>>
          /\ Deaths' = Deaths /\ sent' = sent + 1
      BY <1>16 DEF PeerSend, Deaths
    <2>7. \A u \in Tasks : Pending(u)' = Pending(u) \cup OneFor(u, n)
      BY <2>5, <2>6 DEF Pending
    <2>8. [u \in Tasks |-> Pending(u)]'
            = [[u \in Tasks |-> Pending(u)] EXCEPT ![n.to] = @ \cup {sent + 1}]
      <3>1. \A u \in Tasks : u = n.to => Pending(u)' = Pending(u) \cup {sent + 1}
        BY <2>4, <2>7
      <3>2. \A u \in Tasks : u # n.to => Pending(u)' = Pending(u)
        BY <2>4, <2>7
      <3> QED BY <2>3, <3>1, <3>2
    <2>9. Bus!Post(n.to)
      BY <2>6, <2>8 DEF Bus!Post
    <2> QED BY <2>3, <2>9 DEF Bus!BusNext
  <1>17. CASE PeerClose
    BY <1>17 DEF PeerClose
  <1>18. CASE Kill
    <2>1. /\ main_rx' = ZeroMsg /\ wire' = <<>> /\ pc'["sock"] # "send"
          /\ UNCHANGED <<queues, sent, taken>>
          /\ restarts' = restarts /\ pc["main"] # "dead" /\ pc'["main"] = "dead"
      BY <1>18 DEF Kill, Die, Dead
    <2>2. restarts \in Nat /\ sent \in Nat
      BY <1>a DEF TypeOK, ProcessOK, NetworkOK
    <2>3. Deaths' = Deaths + 1
      BY <2>1, <2>2 DEF Deaths
    <2>4. \A u \in Tasks : Pending(u)' \subseteq Pending(u)
      BY <1>d, <2>1 DEF Pending, AmongFor
    <2>5. \A u \in Tasks : Pending(u) \subseteq 1..sent
      <3>1. \A u \in Tasks : Pending(u) \subseteq Ids(queues[u]) \cup Held \cup Upstream
        BY AmongIds DEF Pending, Held, Upstream, Sending
      <3> QED BY <3>1 DEF BusInv, OrderInv, Numbered
    <2>6. [u \in Tasks |-> Pending(u)]' \in [Tasks -> SUBSET (1..sent)]
      BY <2>4, <2>5
    <2>7. Bus!Die
      BY <2>1, <2>3, <2>4, <2>6 DEF Bus!Die
    <2> QED BY <2>7 DEF Bus!BusNext
  <1>19. CASE Restart
    <2>1. /\ UNCHANGED <<queues, main_rx, socket_msg, wire, sent, taken>>
          /\ pc'["sock"] # "send" /\ restarts' = restarts + 1
          /\ pc["main"] = "dead" /\ pc'["main"] # "dead"
      BY <1>19 DEF Restart, Fresh
    <2>2. pc["sock"] # "send"
      BY <2>1 DEF BusInv, DeadTogether
    <2>3. restarts \in Nat
      BY <1>a DEF TypeOK, ProcessOK
    <2>4. Deaths' = Deaths
      BY <2>1, <2>3 DEF Deaths
    <2>5. \A u \in Tasks : Pending(u)' = Pending(u)
      BY <2>1, <2>2 DEF Pending
    <2> QED BY <2>1, <2>4, <2>5, BusStutter
  <1>20. CASE UNCHANGED vars
    <2>1. UNCHANGED <<queues, pc, main_rx, socket_msg, wire, sent, taken>>
          /\ Deaths' = Deaths
      BY <1>20 DEF vars, Deaths
    <2> QED BY <2>1, BusStutter DEF Pending
  <1> QED BY <1>1, <1>2, <1>3, <1>4, <1>5, <1>6, <1>7, <1>8, <1>9, <1>10, <1>11,
             <1>12, <1>13, <1>14, <1>15, <1>16, <1>17, <1>18, <1>19, <1>20
          DEF Next, MainNext, LogNext, SpeakNext, SockNext, PeerNext

(* The four threads and three queues implement the message bus, as long as *)
(* the peer does not hang up: every message reaches the task it is for, in *)
(* order and at most once, and only the death of the process loses one.    *)
THEOREM BusCorrect ==
  ASSUME PeerMayClose = FALSE
  PROVE  Spec => ImplementsBus
  <1>1. Init => BusInv /\ Bus!BusInit
    <2> SUFFICES ASSUME Init PROVE BusInv /\ Bus!BusInit
      OBVIOUS
    <2>1. OrderInv
      BY TypeInit, OrderInit
    <2>2. AllForThisBoard /\ DeadTogether
      BY DEF Init, AllForThisBoard, ForThisBoard, DeadTogether, Fresh, Tasks,
             DEFS_TASK_BBG, ZeroMsg
    <2>3. \A t \in Tasks : Pending(t) = {}
      BY DEF Init, Pending, AmongFor, OneFor, ZeroMsg, Fresh, Tasks, DEFS_TASK_BBG
    <2>4. Bus!BusInit
      BY <2>3 DEF Init, Bus!BusInit, Deaths, Fresh
    <2> QED BY <2>1, <2>2, <2>4 DEF BusInv
  <1>2. BusInv /\ [Next]_vars => BusInv'
    BY BusInductive
  <1>3. BusInv /\ [Next]_vars => [Bus!BusNext]_(Bus!busVars)
    BY Simulation
  <1> QED BY <1>1, <1>2, <1>3, PTL DEF Spec, ImplementsBus, Bus!BusSpec


-----------------------------------------------------------------------------
(* How many messages there are on this board is bounded by how many were   *)
(* made: three by main's start and those of the peer.  A task that answers *)
(* a message sends one message for it, so it is counted while it works.    *)
InMain == IF pc["main"] \in {"route", "write"} THEN 1 ELSE 0
InLog == IF pc["log"] \in {"handle", "send"} THEN 1 ELSE 0
InSpeak == IF pc["speak"] \in {"init", "terminate"} THEN 1 ELSE 0
InSock == IF pc["sock"] = "send" THEN 1 ELSE 0
ForMain == Len(queues[DEFS_TASK_BBG])
ForSpeak == Len(queues[DEFS_TASK_SPEAK])
ForLog == Len(queues[DEFS_TASK_LOG])
OnWire == Len(wire)
Load ==
  ForMain + ForSpeak + ForLog + InMain + InLog + InSpeak + InSock + OnWire
Made ==
  sent + CASE pc["main"] = "log_init" -> 0
           [] pc["main"] = "speak_init" -> 1
           [] pc["main"] = "hello" -> 2
           [] OTHER -> 3
LoadInv == TypeOK /\ StaysConnected /\ Load <= Made

(* A send makes its queue one longer, a receive one shorter. *)
LEMMA SendWaiting ==
  ASSUME QueuesOK, NEW t \in Tasks, NEW m \in Msg, MqSend(t, m)
  PROVE  /\ Len(queues'[t]) = Len(queues[t]) + 1
         /\ \A u \in Tasks \ {t} : Len(queues'[u]) = Len(queues[u])
  <1>1. /\ queues \in [Tasks -> Seq(Msg)] /\ queues[t] \in Seq(Msg)
        /\ queues'[t] = Append(queues[t], m)
        /\ \A u \in Tasks \ {t} : queues'[u] = queues[u]
    BY DEF QueuesOK, MqSend
  <1> QED BY <1>1, AppendFacts

(* What a receive does to the lengths of the queues. *)
LEMMA ReceiveWaiting ==
  ASSUME QueuesOK, NEW t \in Tasks, MqReceive(t)
  PROVE  /\ Len(queues'[t]) = Len(queues[t]) - 1
         /\ \A u \in Tasks \ {t} : Len(queues'[u]) = Len(queues[u])
  <1>1. /\ queues \in [Tasks -> Seq(Msg)] /\ queues[t] \in Seq(Msg)
        /\ queues[t] # <<>> /\ queues'[t] = Tail(queues[t])
        /\ \A u \in Tasks \ {t} : queues'[u] = queues[u]
    BY DEF QueuesOK, MqReceive
  <1> QED BY <1>1, TailFacts

(* No step makes a message that is not counted as made. *)
LEMMA LoadInductive ==
  ASSUME PeerMayClose = FALSE, MaxRestarts = 0
  PROVE  LoadInv /\ [Next]_vars => LoadInv'
  <1> SUFFICES ASSUME LoadInv, [Next]_vars PROVE LoadInv'
    OBVIOUS
  <1>a. /\ TypeOK' /\ TypeOK /\ QueuesOK /\ StaysConnected /\ Load <= Made
        /\ pc \in Labels /\ wire \in Seq(Msg) /\ sent \in Nat /\ restarts \in Nat
        /\ main_rx \in Msg /\ socket_msg \in Msg
        /\ (pc["main"] = "route" => main_rx.to \in OtherTasks)
    BY TypeInductive DEF LoadInv, TypeOK, ThreadsOK, NetworkOK, ProcessOK
  <1>b. /\ DEFS_TASK_BBG \in Tasks /\ DEFS_TASK_SPEAK \in Tasks
        /\ DEFS_TASK_LOG \in Tasks /\ DEFS_TASK_SPEAK # DEFS_TASK_BBG
        /\ DEFS_TASK_LOG # DEFS_TASK_BBG /\ DEFS_TASK_LOG # DEFS_TASK_SPEAK
        /\ Tasks = {DEFS_TASK_BBG, DEFS_TASK_SPEAK, DEFS_TASK_LOG}
        /\ OtherTasks = {DEFS_TASK_SPEAK, DEFS_TASK_LOG}
    BY DEF Tasks, OtherTasks, DEFS_TASK_BBG, DEFS_TASK_SPEAK, DEFS_TASK_LOG
  <1>c. /\ ForMain \in Nat /\ ForSpeak \in Nat
        /\ ForLog \in Nat /\ OnWire \in Nat
        /\ (wire # <<>> => Len(Tail(wire)) = OnWire - 1)
        /\ \A m \in Msg : Len(Append(wire, m)) = OnWire + 1
    BY <1>a, <1>b DEF QueuesOK, ForMain, ForSpeak, ForLog, OnWire
  <1>d. /\ \A f \in Tasks : LogMsg(f) \in Msg
        /\ \A l \in Starting : StartMsg[l] \in Msg
        /\ \A m \in PeerMsgs : [m EXCEPT !.id = sent + 1] \in Msg
    <2>1. sent + 1 \in Nat
      BY <1>a
    <2> QED BY <2>1, MsgTypes
  <1>t. /\ Made \in Nat /\ InMain \in Nat /\ InLog \in Nat /\ InSpeak \in Nat
        /\ InSock \in Nat
    BY <1>a DEF Made, InMain, InLog, InSpeak, InSock
  <1>n. /\ ForMain \in Nat /\ ForSpeak \in Nat /\ ForLog \in Nat /\ OnWire \in Nat
        /\ Made \in Nat /\ InMain \in Nat /\ InLog \in Nat /\ InSpeak \in Nat
        /\ InSock \in Nat /\ Load <= Made
    BY <1>a, <1>c, <1>t
  <1>e. ~SigPipe /\ ~Kill /\ ~Restart /\ ~PeerClose
    BY <1>a DEF SigPipe, Kill, Restart, PeerClose, StaysConnected
  <1> USE DEF netVars, logVars, progVars
  <1>1. ASSUME UNCHANGED <<wire, sent, queues>>, pc'["main"] = pc["main"],
               UNCHANGED pc["sock"], UNCHANGED pc["speak"],
               InLog' = InLog \/ InLog' = InLog - 1
        PROVE  Load' <= Made'
    <2>1. /\ Made' = Made /\ InMain' = InMain /\ InSpeak' = InSpeak /\ InSock' = InSock
          /\ OnWire' = OnWire
          /\ ForMain' = ForMain /\ ForSpeak' = ForSpeak /\ ForLog' = ForLog
      BY <1>1 DEF Made, InMain, InSpeak, InSock, InLog,
           ForMain, ForSpeak, ForLog, OnWire
    <2>2. InLog' = InLog \/ InLog' = InLog - 1
      BY <1>1
    <2> QED BY <1>n, <2>1, <2>2 DEF Load
  <1>2. CASE MainStart
    <2>1. MqSend(DEFS_TASK_BBG, StartMsg[pc["main"]]) /\ StartMsg[pc["main"]] \in Msg
      BY <1>2, <1>d DEF MainStart, msg_send
    <2>2. /\ ForMain' = ForMain + 1
          /\ ForSpeak' = ForSpeak
          /\ ForLog' = ForLog
      BY <1>a, <1>b, <2>1, SendWaiting DEF ForMain, ForSpeak, ForLog
    <2>3. /\ Made' = Made + 1 /\ InMain' = InMain /\ InLog' = InLog
          /\ InSpeak' = InSpeak /\ InSock' = InSock /\ OnWire' = OnWire
      BY <1>2, <1>a DEF MainStart, Goto, Labels, Starting, AfterStart, Made,
           InMain, InLog, InSpeak, InSock, OnWire, ForMain, ForSpeak, ForLog
    <2>4. Load' <= Made'
      BY <1>n, <2>2, <2>3 DEF Load
    <2> QED BY <1>2, <1>a, <2>4 DEF LoadInv, MainStart, StaysConnected
  <1>3. CASE MainRecv
    <2>1. /\ ForMain' = ForMain - 1
          /\ ForSpeak' = ForSpeak
          /\ ForLog' = ForLog
      BY <1>3, <1>a, <1>b, ReceiveWaiting DEF ForMain, ForSpeak, ForLog, MainRecv
    <2>2. /\ Made' = Made /\ InLog' = InLog
          /\ (InMain' = InMain \/ InMain' = InMain + 1)
          /\ InSpeak' = InSpeak /\ InSock' = InSock /\ OnWire' = OnWire
      BY <1>3, <1>a DEF MainRecv, Goto, Labels, Starting, Made,
           InMain, InLog, InSpeak, InSock, OnWire, ForMain, ForSpeak, ForLog
    <2>3. Load' <= Made'
      BY <1>n, <2>1, <2>2 DEF Load
    <2> QED BY <1>3, <1>a, <2>3 DEF LoadInv, MainRecv, StaysConnected
  <1>4. CASE msg_route
    <2>1. MqSend(main_rx.to, main_rx) /\ main_rx.to \in OtherTasks
      BY <1>4, <1>a DEF msg_route
    <2>2. /\ Len(queues'[main_rx.to]) = Len(queues[main_rx.to]) + 1
          /\ \A u \in Tasks \ {main_rx.to} : Len(queues'[u]) = Len(queues[u])
      <3>1. main_rx.to \in Tasks /\ main_rx \in Msg /\ QueuesOK
        BY <1>a, <1>b, <2>1
      <3> QED BY <2>1, <3>1, SendWaiting
    <2>3. /\ Made' = Made /\ InMain' = InMain - 1 /\ InLog' = InLog
          /\ InSpeak' = InSpeak /\ InSock' = InSock /\ OnWire' = OnWire
      BY <1>4, <1>a DEF msg_route, Goto, Labels, Starting, Made,
           InMain, InLog, InSpeak, InSock, OnWire, ForMain, ForSpeak, ForLog
    <2>4. Load' <= Made'
      <3>1. CASE main_rx.to = DEFS_TASK_SPEAK
        <4>1. ForSpeak' = ForSpeak + 1 /\ ForMain' = ForMain /\ ForLog' = ForLog
          BY <1>b, <2>2, <3>1 DEF ForMain, ForSpeak, ForLog
        <4> QED BY <1>n, <2>3, <4>1 DEF Load
      <3>2. CASE main_rx.to = DEFS_TASK_LOG
        <4>1. ForLog' = ForLog + 1 /\ ForMain' = ForMain /\ ForSpeak' = ForSpeak
          BY <1>b, <2>2, <3>2 DEF ForMain, ForSpeak, ForLog
        <4> QED BY <1>n, <2>3, <4>1 DEF Load
      <3> QED BY <1>b, <2>1, <3>1, <3>2
    <2> QED BY <1>4, <1>a, <2>4 DEF LoadInv, msg_route, StaysConnected
  <1>5. CASE MainWrite
    <2>1. /\ Made' = Made /\ InMain' = InMain - 1 /\ InLog' = InLog
          /\ InSpeak' = InSpeak /\ InSock' = InSock /\ UNCHANGED <<ForMain, ForSpeak, ForLog, OnWire>>
      BY <1>5, <1>a DEF MainWrite, Goto, Labels, Starting, Made,
           InMain, InLog, InSpeak, InSock, OnWire, ForMain, ForSpeak, ForLog
    <2>2. Load' <= Made'
      BY <1>n, <2>1 DEF Load
    <2>3. StaysConnected'
      BY <1>5, <1>a DEF MainWrite, StaysConnected
    <2> QED BY <1>a, <2>2, <2>3 DEF LoadInv
  <1>6. CASE LogRecv
    <2>1. /\ ForLog' = ForLog - 1
          /\ ForSpeak' = ForSpeak
          /\ ForMain' = ForMain
      BY <1>6, <1>a, <1>b, ReceiveWaiting DEF ForMain, ForSpeak, ForLog, LogRecv
    <2>2. /\ Made' = Made /\ InMain' = InMain /\ InLog' = InLog + 1
          /\ InSpeak' = InSpeak /\ InSock' = InSock /\ OnWire' = OnWire
      BY <1>6, <1>a DEF LogRecv, Goto, Labels, Starting, Made,
           InMain, InLog, InSpeak, InSock, OnWire, ForMain, ForSpeak, ForLog
    <2>3. Load' <= Made'
      BY <1>n, <2>1, <2>2 DEF Load
    <2> QED BY <1>6, <1>a, <2>3 DEF LoadInv, LogRecv, StaysConnected
  <1>7. CASE LogHandle
    <2>1. \E l \in {"recv", "send", "dead"} : Goto("log", l)
      BY <1>7 DEF LogHandle, log_init, log_log, log_setpath, log_kill
    <2>2. /\ UNCHANGED <<wire, sent, queues, peer>> /\ pc'["main"] = pc["main"]
          /\ pc'["sock"] = pc["sock"] /\ pc'["speak"] = pc["speak"]
          /\ (InLog' = InLog \/ InLog' = InLog - 1)
      BY <1>7, <1>a, <2>1 DEF LogHandle, Goto, Labels, InLog
    <2> QED BY <1>a, <1>1, <2>2 DEF LoadInv, StaysConnected
  <1>8. CASE LogSend
    <2>1. /\ ForMain' = ForMain + 1
          /\ ForSpeak' = ForSpeak
          /\ ForLog' = ForLog
      BY <1>8, <1>a, <1>b, <1>d, SendWaiting DEF ForMain, ForSpeak, ForLog, LogSend, msg_send
    <2>2. /\ Made' = Made /\ InMain' = InMain /\ InLog' = InLog - 1
          /\ InSpeak' = InSpeak /\ InSock' = InSock /\ OnWire' = OnWire
      BY <1>8, <1>a DEF LogSend, Goto, Labels, Starting, Made,
           InMain, InLog, InSpeak, InSock, OnWire, ForMain, ForSpeak, ForLog
    <2>3. Load' <= Made'
      BY <1>n, <2>1, <2>2 DEF Load
    <2> QED BY <1>8, <1>a, <2>3 DEF LoadInv, LogSend, StaysConnected
  <1>9. CASE SpeakRecv
    <2>1. /\ ForSpeak' = ForSpeak - 1
          /\ ForLog' = ForLog
          /\ ForMain' = ForMain
      BY <1>9, <1>a, <1>b, ReceiveWaiting DEF ForMain, ForSpeak, ForLog, SpeakRecv
    <2>2. /\ Made' = Made /\ InMain' = InMain /\ InLog' = InLog
          /\ (InSpeak' = InSpeak \/ InSpeak' = InSpeak + 1) /\ InSock' = InSock /\ OnWire' = OnWire
      BY <1>9, <1>a DEF SpeakRecv, Goto, Labels, Starting, Made,
           InMain, InLog, InSpeak, InSock, OnWire, ForMain, ForSpeak, ForLog
    <2>3. Load' <= Made'
      BY <1>n, <2>1, <2>2 DEF Load
    <2> QED BY <1>9, <1>a, <2>3 DEF LoadInv, SpeakRecv, StaysConnected
  <1>10. CASE SpeakSend
    <2>1. /\ ForMain' = ForMain + 1
          /\ ForSpeak' = ForSpeak
          /\ ForLog' = ForLog
      BY <1>10, <1>a, <1>b, <1>d, SendWaiting DEF ForMain, ForSpeak, ForLog, SpeakSend, msg_send
    <2>2. /\ Made' = Made /\ InMain' = InMain /\ InLog' = InLog
          /\ InSpeak' = InSpeak - 1 /\ InSock' = InSock /\ OnWire' = OnWire
      BY <1>10, <1>a DEF SpeakSend, Goto, Labels, Starting, Made,
           InMain, InLog, InSpeak, InSock, OnWire, ForMain, ForSpeak, ForLog
    <2>3. Load' <= Made'
      BY <1>n, <2>1, <2>2 DEF Load
    <2> QED BY <1>10, <1>a, <2>3 DEF LoadInv, SpeakSend, StaysConnected
  <1>11. CASE SpeakPlayed
    <2>1. /\ Made' = Made /\ InMain' = InMain /\ InLog' = InLog
          /\ InSpeak' = InSpeak /\ InSock' = InSock /\ UNCHANGED <<ForMain, ForSpeak, ForLog, OnWire>>
      BY <1>11, <1>a DEF SpeakPlayed, Goto, Labels, Starting, Made,
           InMain, InLog, InSpeak, InSock, OnWire, ForMain, ForSpeak, ForLog
    <2>2. Load' <= Made'
      BY <1>n, <2>1 DEF Load
    <2> QED BY <1>11, <1>a, <2>2 DEF LoadInv, SpeakPlayed, StaysConnected
  <1>12. CASE SockAccept
    <2>1. /\ Made' = Made /\ InMain' = InMain /\ InLog' = InLog
          /\ InSpeak' = InSpeak /\ InSock' = InSock /\ UNCHANGED <<ForMain, ForSpeak, ForLog, OnWire>>
      BY <1>12, <1>a DEF SockAccept, Goto, Labels, Starting, Made,
           InMain, InLog, InSpeak, InSock, OnWire, ForMain, ForSpeak, ForLog
    <2>2. Load' <= Made'
      BY <1>n, <2>1 DEF Load
    <2> QED BY <1>12, <1>a, <2>2 DEF LoadInv, SockAccept, StaysConnected
  <1>13. CASE SockRead
    <2>1. wire # <<>> /\ wire' = Tail(wire)
      BY <1>13, <1>a DEF SockRead, StaysConnected
    <2>2. /\ Made' = Made /\ InMain' = InMain /\ InLog' = InLog
          /\ UNCHANGED <<ForMain, ForSpeak, ForLog>>
          /\ InSpeak' = InSpeak /\ InSock' = InSock + 1 /\ OnWire' = OnWire - 1
      BY <1>13, <1>a, <1>c, <2>1 DEF SockRead, Goto, Labels, Starting, Made,
           InMain, InLog, InSpeak, InSock, OnWire, ForMain, ForSpeak, ForLog
    <2>3. Load' <= Made'
      BY <1>n, <2>2 DEF Load
    <2> QED BY <1>13, <1>a, <2>3 DEF LoadInv, SockRead, StaysConnected
  <1>14. CASE SockSend
    <2>1. /\ ForMain' = ForMain + 1
          /\ ForSpeak' = ForSpeak
          /\ ForLog' = ForLog
      BY <1>14, <1>a, <1>b, SendWaiting DEF ForMain, ForSpeak, ForLog, SockSend, msg_send
    <2>2. /\ Made' = Made /\ InMain' = InMain /\ InLog' = InLog
          /\ InSpeak' = InSpeak /\ InSock' = InSock - 1 /\ OnWire' = OnWire
      BY <1>14, <1>a DEF SockSend, Goto, Labels, Starting, Made,
           InMain, InLog, InSpeak, InSock, OnWire, ForMain, ForSpeak, ForLog
    <2>3. Load' <= Made'
      BY <1>n, <2>1, <2>2 DEF Load
    <2> QED BY <1>14, <1>a, <2>3 DEF LoadInv, SockSend, StaysConnected
  <1>15. CASE PeerConnect
    <2>1. UNCHANGED <<wire, sent, queues, pc>> /\ StaysConnected'
      BY <1>15 DEF PeerConnect, StaysConnected
    <2>2. InLog' = InLog
      BY <2>1 DEF InLog
    <2> QED BY <1>a, <1>1, <2>1, <2>2 DEF LoadInv
  <1>16. CASE PeerSend
    <2>1. /\ OnWire' = OnWire + 1 /\ sent' = sent + 1 /\ UNCHANGED <<queues, pc>>
      BY <1>16, <1>c, <1>d DEF PeerSend, OnWire
    <2>0. /\ InMain' = InMain /\ InLog' = InLog /\ InSpeak' = InSpeak
          /\ InSock' = InSock /\ Made' = Made + 1
          /\ ForMain' = ForMain /\ ForSpeak' = ForSpeak /\ ForLog' = ForLog
      BY <1>a, <2>1 DEF Made, InMain, InLog, InSpeak, InSock, ForMain, ForSpeak, ForLog
    <2>2. OnWire' = OnWire + 1
      BY <2>1
    <2>3. Load' <= Made'
      BY <1>n, <2>0, <2>2 DEF Load
    <2> QED BY <1>16, <1>a, <2>3 DEF LoadInv, PeerSend, StaysConnected
  <1>17. CASE UNCHANGED vars
    <2>1. UNCHANGED <<wire, sent, queues, pc, peer>>
      BY <1>17 DEF vars
    <2> QED BY <1>a, <2>1
         DEF LoadInv, Load, Made, InMain, InLog, InSpeak, InSock, OnWire, ForMain, ForSpeak, ForLog,
             StaysConnected
  <1> QED BY <1>2, <1>3, <1>4, <1>5, <1>6, <1>7, <1>8, <1>9, <1>10, <1>11,
             <1>12, <1>13, <1>14, <1>15, <1>16, <1>17, <1>e
          DEF Next, MainNext, LogNext, SpeakNext, SockNext, PeerNext

(* Before main's first step nothing was made. *)
LEMMA LoadInit == Init => LoadInv
  <1> SUFFICES ASSUME Init PROVE LoadInv
    OBVIOUS
  <1>1. TypeOK /\ StaysConnected
    BY TypeInit DEF Init, StaysConnected
  <1>2. ForMain = 0 /\ ForSpeak = 0
        /\ ForLog = 0 /\ OnWire = 0
    BY DEF Init, Tasks, ForMain, ForSpeak, ForLog, OnWire
  <1>3. Load = 0 /\ Made = 0
    BY <1>2 DEF Init, Load, Made, InMain, InLog, InSpeak, InSock, Fresh
  <1> QED BY <1>1, <1>3 DEF LoadInv

(* main cannot block itself in its start-up before the peer has sent all   *)
(* but two of the messages its queue holds, whatever the messages are.     *)
THEOREM StartupCorrect ==
  ASSUME PeerMayClose = FALSE, MaxRestarts = 0
  PROVE  Spec => []StartupHasRoom
  <1>1. Init => LoadInv
    BY LoadInit
  <1>2. LoadInv /\ [Next]_vars => LoadInv'
    BY LoadInductive
  <1>3. LoadInv => StartupHasRoom
    <2> SUFFICES ASSUME LoadInv, pc["main"] \in Starting, ~HasRoom(DEFS_TASK_BBG)
                 PROVE  sent >= MSG_MAXMSGS - 2
      BY DEF StartupHasRoom
    <2>1. /\ ForMain \in Nat /\ ForSpeak \in Nat
          /\ ForLog \in Nat /\ OnWire \in Nat /\ sent \in Nat
      BY DEF LoadInv, TypeOK, QueuesOK, NetworkOK, Tasks, ForMain, ForSpeak,
             ForLog, OnWire
    <2>2. ForMain >= MSG_MAXMSGS /\ Made <= sent + 2
      BY <2>1, CapacityAssumption DEF HasRoom, Made, Starting, ForMain
    <2>3. /\ InMain \in Nat /\ InLog \in Nat /\ InSpeak \in Nat /\ InSock \in Nat
          /\ Load <= Made /\ Made \in Nat
      BY <2>1 DEF LoadInv, Made, InMain, InLog, InSpeak, InSock
    <2> QED BY <2>1, <2>2, <2>3, CapacityAssumption DEF Load
  <1> QED BY <1>1, <1>2, <1>3, PTL DEF Spec

(* main and a task wait for room in each other's queue only if the peer    *)
(* sent nearly as many messages as two queues hold.                        *)
THEOREM CircularWaitCorrect ==
  ASSUME PeerMayClose = FALSE, MaxRestarts = 0
  PROVE  Spec => []NoEarlyCircularWait
  <1>1. Init => LoadInv
    BY LoadInit
  <1>2. LoadInv /\ [Next]_vars => LoadInv'
    BY LoadInductive
  <1>3. LoadInv => NoEarlyCircularWait
    <2> SUFFICES ASSUME LoadInv, CircularWait PROVE sent >= 2 * MSG_MAXMSGS - 1
      BY DEF NoEarlyCircularWait
    <2>1. /\ ForMain \in Nat /\ ForSpeak \in Nat
          /\ ForLog \in Nat /\ OnWire \in Nat /\ sent \in Nat
      BY DEF LoadInv, TypeOK, QueuesOK, NetworkOK, Tasks, ForMain, ForSpeak,
             ForLog, OnWire
    <2>2. /\ ForMain >= MSG_MAXMSGS /\ InMain = 1
          /\ Made = sent + 3
      BY <2>1, CapacityAssumption DEF CircularWait, HasRoom, Made, InMain, ForMain
    <2>3. \/ ForLog >= MSG_MAXMSGS /\ InLog = 1
          \/ ForSpeak >= MSG_MAXMSGS /\ InSpeak = 1
      BY <2>1, CapacityAssumption DEF CircularWait, HasRoom, InLog, InSpeak, ForLog, ForSpeak
    <2>4. InLog \in Nat /\ InSpeak \in Nat /\ InSock \in Nat /\ Load <= Made
      BY DEF LoadInv, InLog, InSpeak, InSock
    <2> QED BY <2>1, <2>2, <2>3, <2>4, CapacityAssumption DEF Load
  <1> QED BY <1>1, <1>2, <1>3, PTL DEF Spec


-----------------------------------------------------------------------------
(* Where a number may be, and that none is nowhere.  That none is dropped  *)
(* is inductive only if main holds no message while it receives the next,  *)
(* and none with a number while it writes to the socket.                   *)
Somewhere(n) ==
  \/ n \in Held \/ n \in Sending \/ n \in Ids(wire)
  \/ \E t \in Tasks : n \in taken[t] \/ n \in Ids(queues[t])
NoneMissing ==
  restarts = 0 /\ pc["main"] # "dead" => \A n \in 1..sent : Somewhere(n)
LossInv == TypeOK /\ HeldBriefly /\ AllForThisBoard /\ NoneMissing

(* The numbers in the queues after a send, and after a receive. *)
LEMMA SendMoves ==
  ASSUME QueuesOK, NEW t \in Tasks, NEW m \in Msg, MqSend(t, m)
  PROVE  /\ Ids(queues'[t]) = Ids(queues[t]) \cup ({m.id} \ {0})
         /\ \A u \in Tasks \ {t} : Ids(queues'[u]) = Ids(queues[u])
  <1>1. /\ queues \in [Tasks -> Seq(Msg)] /\ queues[t] \in Seq(Msg)
        /\ queues'[t] = Append(queues[t], m)
        /\ \A u \in Tasks \ {t} : queues'[u] = queues[u]
    BY DEF QueuesOK, MqSend
  <1> QED BY <1>1, IdsAppend

(* What a receive takes out of the queues. *)
LEMMA ReceiveMoves ==
  ASSUME QueuesOK, NEW t \in Tasks, MqReceive(t)
  PROVE  /\ Ids(queues[t]) = Ids(queues'[t]) \cup ({Head(queues[t]).id} \ {0})
         /\ \A u \in Tasks \ {t} : Ids(queues'[u]) = Ids(queues[u])
  <1>1. /\ queues \in [Tasks -> Seq(Msg)] /\ queues[t] \in Seq(Msg)
        /\ queues[t] # <<>> /\ queues'[t] = Tail(queues[t])
        /\ \A u \in Tasks \ {t} : queues'[u] = queues[u]
    BY DEF QueuesOK, MqReceive
  <1> QED BY <1>1, IdsTail

(* A send puts its number into a queue and leaves the others there. *)
LEMMA SendKeeps ==
  ASSUME QueuesOK, NEW t \in Tasks, NEW m \in Msg, MqSend(t, m), UNCHANGED taken
  PROVE  \A n : (\E u \in Tasks : n \in taken[u] \/ n \in Ids(queues[u]))
                  \/ n \in {m.id} \ {0}
                => \E u \in Tasks : n \in taken'[u] \/ n \in Ids(queues'[u])
  BY SendMoves

(* A received number is with the receiver, if the receiver is its task. *)
LEMMA ReceiveKeeps ==
  ASSUME QueuesOK, taken \in [Tasks -> SUBSET Nat], NEW t \in Tasks, MqReceive(t),
         Received(t, Head(queues[t]))
  PROVE  \A n : (\E u \in Tasks : n \in taken[u] \/ n \in Ids(queues[u]))
                => \E u \in Tasks : n \in taken'[u] \/ n \in Ids(queues'[u])
  <1> DEFINE m == Head(queues[t])
  <1>1. /\ Ids(queues[t]) = Ids(queues'[t]) \cup ({m.id} \ {0})
        /\ \A u \in Tasks \ {t} : Ids(queues'[u]) = Ids(queues[u])
    BY ReceiveMoves
  <1>2. /\ taken'[t] = taken[t] \cup ({m.id} \ {0})
        /\ \A u \in Tasks \ {t} : taken'[u] = taken[u]
    BY DEF Received
  <1> HIDE DEF m
  <1> QED BY <1>1, <1>2

(* No step drops a number, even if the peer hangs up. *)
LEMMA LossInductive == LossInv /\ [Next]_vars => LossInv'
  <1> SUFFICES ASSUME LossInv, [Next]_vars PROVE LossInv'
    OBVIOUS
  <1>a. /\ TypeOK' /\ TypeOK /\ AllForThisBoard' /\ AllForThisBoard /\ HeldBriefly
        /\ NoneMissing
    BY TypeInductive, ForBoardInductive DEF LossInv
  <1>b. /\ QueuesOK /\ pc \in Labels /\ main_rx \in Msg /\ socket_msg \in Msg
        /\ wire \in Seq(Msg) /\ sent \in Nat /\ taken \in [Tasks -> SUBSET Nat]
        /\ restarts \in Nat
        /\ (pc["main"] = "route" => main_rx.to \in OtherTasks)
    BY <1>a DEF TypeOK, ThreadsOK, NetworkOK, ProcessOK
  <1>c. /\ ZeroMsg \in Msg /\ ZeroMsg.id = 0
        /\ DEFS_TASK_BBG \in Tasks /\ DEFS_TASK_SPEAK \in Tasks
        /\ DEFS_TASK_LOG \in Tasks /\ OtherTasks \subseteq Tasks
        /\ \A f \in Tasks : LogMsg(f) \in Msg
        /\ \A l \in Starting : StartMsg[l] \in Msg
    BY MsgTypes DEF ZeroMsg, OtherTasks, Tasks, DEFS_TASK_BBG, DEFS_TASK_SPEAK,
         DEFS_TASK_LOG
  <1> USE DEF netVars, logVars, progVars
  <1>n. ASSUME UNCHANGED <<restarts, sent>>,
               pc["main"] = "dead" => pc'["main"] = "dead",
               \A n : Somewhere(n) => Somewhere(n)'
        PROVE  NoneMissing'
    BY <1>a, <1>n DEF NoneMissing
  <1>1. CASE MainStart
    <2>1. /\ MqSend(DEFS_TASK_BBG, StartMsg[pc["main"]]) /\ StartMsg[pc["main"]] \in Msg
          /\ UNCHANGED <<main_rx, socket_msg, wire, sent, taken, restarts>>
      BY <1>1, <1>c DEF MainStart, msg_send
    <2>2. /\ pc["main"] # "dead" /\ pc'["sock"] = pc["sock"]
          /\ pc'["main"] \notin {"route", "write"} /\ main_rx = ZeroMsg
      BY <1>1, <1>a, <1>b DEF MainStart, Starting, Goto, Labels, HeldBriefly, AfterStart
    <2>3. \A n : Somewhere(n) => Somewhere(n)'
      BY <1>b, <1>c, <2>1, <2>2, SendKeeps DEF Somewhere, Held, Sending
    <2> QED BY <1>a, <1>n, <2>1, <2>2, <2>3 DEF LossInv, HeldBriefly
  <1>2. CASE MainRecv
    <2> DEFINE m == Head(queues[DEFS_TASK_BBG])
    <2>1. /\ MqReceive(DEFS_TASK_BBG) /\ Held = {} /\ main_rx = ZeroMsg
          /\ UNCHANGED <<socket_msg, wire, sent, restarts>>
          /\ pc'["sock"] = pc["sock"] /\ pc["main"] # "dead"
      BY <1>2, <1>a, <1>b, <1>c DEF MainRecv, HeldBriefly, Held, Goto, Labels
    <2>2. HeldBriefly'
      BY <1>2, <1>b, <2>1 DEF MainRecv, HeldBriefly, Goto, Labels
    <2>3. CASE main_rx' = m /\ UNCHANGED taken
      <3>1. /\ Ids(queues[DEFS_TASK_BBG])
                 = Ids(queues'[DEFS_TASK_BBG]) \cup ({m.id} \ {0})
            /\ \A u \in Tasks \ {DEFS_TASK_BBG} : Ids(queues'[u]) = Ids(queues[u])
        BY <1>b, <1>c, <2>1, ReceiveMoves
      <3> HIDE DEF m
      <3>2. Held' = {m.id} \ {0}
        BY <2>3 DEF Held
      <3>3. \A n : Somewhere(n) => Somewhere(n)'
        BY <1>c, <2>1, <2>3, <3>1, <3>2 DEF Somewhere, Sending
      <3> QED BY <1>a, <1>n, <2>1, <2>2, <3>3 DEF LossInv
    <2>4. CASE UNCHANGED main_rx /\ Received(DEFS_TASK_BBG, m)
      <3>1. \A n : Somewhere(n) => Somewhere(n)'
        BY <1>b, <1>c, <2>1, <2>4, ReceiveKeeps DEF Somewhere, Sending, Held
      <3> QED BY <1>a, <1>n, <2>1, <2>2, <3>1 DEF LossInv
    <2> QED BY <1>2, <2>3, <2>4 DEF MainRecv
  <1>3. CASE msg_route
    <2>1. /\ MqSend(main_rx.to, main_rx) /\ main_rx.to \in Tasks
          /\ UNCHANGED <<socket_msg, wire, sent, restarts, taken>>
          /\ main_rx' = ZeroMsg
          /\ pc'["sock"] = pc["sock"] /\ pc["main"] # "dead"
      BY <1>3, <1>b, <1>c DEF msg_route, Goto, Labels
    <2>2. \A n : (\E u \in Tasks : n \in taken[u] \/ n \in Ids(queues[u]))
                   \/ n \in {main_rx.id} \ {0}
                 => \E u \in Tasks : n \in taken'[u] \/ n \in Ids(queues'[u])
      BY <1>b, <2>1, SendKeeps
    <2>3. \A n : Somewhere(n) => Somewhere(n)'
      BY <2>1, <2>2 DEF Somewhere, Sending, Held
    <2> QED BY <1>a, <1>n, <2>1, <2>3 DEF LossInv, HeldBriefly
  <1>4. CASE MainWrite
    <2>1. /\ UNCHANGED <<queues, socket_msg, wire, sent, restarts, taken>>
          /\ main_rx' = ZeroMsg /\ main_rx.id = 0
          /\ pc'["sock"] = pc["sock"] /\ pc["main"] # "dead"
      BY <1>4, <1>a, <1>b DEF MainWrite, Goto, Labels, AllForThisBoard
    <2>2. \A n : Somewhere(n) => Somewhere(n)'
      BY <2>1 DEF Somewhere, Sending, Held
    <2> QED BY <1>a, <1>n, <2>1, <2>2 DEF LossInv, HeldBriefly
  <1>5. CASE SigPipe \/ Kill
    <2>1. pc'["main"] = "dead" /\ main_rx' = ZeroMsg
      BY <1>5 DEF SigPipe, Kill, Die, Dead
    <2> QED BY <1>a, <2>1 DEF LossInv, HeldBriefly, NoneMissing
  <1>6. CASE LogRecv
    <2>1. /\ MqReceive(DEFS_TASK_LOG)
          /\ Received(DEFS_TASK_LOG, Head(queues[DEFS_TASK_LOG]))
          /\ UNCHANGED <<main_rx, socket_msg, wire, sent, restarts>>
          /\ pc'["sock"] = pc["sock"] /\ pc'["main"] = pc["main"]
      BY <1>6, <1>b DEF LogRecv, Goto, Labels
    <2>2. \A n : Somewhere(n) => Somewhere(n)'
      BY <1>b, <1>c, <2>1, ReceiveKeeps DEF Somewhere, Sending, Held
    <2> QED BY <1>a, <1>n, <2>1, <2>2 DEF LossInv, HeldBriefly
  <1>7. CASE LogHandle
    <2>1. \E l \in {"recv", "send", "dead"} : Goto("log", l)
      BY <1>7 DEF LogHandle, log_init, log_log, log_setpath, log_kill
    <2>2. /\ UNCHANGED <<queues, main_rx, socket_msg, wire, sent, restarts, taken>>
          /\ pc'["sock"] = pc["sock"] /\ pc'["main"] = pc["main"]
      BY <1>7, <1>b, <2>1 DEF LogHandle, Goto, Labels
    <2>3. \A n : Somewhere(n) => Somewhere(n)'
      BY <2>2 DEF Somewhere, Sending, Held
    <2> QED BY <1>a, <1>n, <2>2, <2>3 DEF LossInv, HeldBriefly
  <1>8. CASE LogSend
    <2>1. /\ MqSend(DEFS_TASK_BBG, LogMsg(DEFS_TASK_LOG))
          /\ UNCHANGED <<main_rx, socket_msg, wire, sent, restarts, taken>>
          /\ pc'["sock"] = pc["sock"] /\ pc'["main"] = pc["main"]
      BY <1>8, <1>b DEF LogSend, msg_send, Goto, Labels
    <2>2. \A n : Somewhere(n) => Somewhere(n)'
      BY <1>b, <1>c, <2>1, SendKeeps DEF Somewhere, Held, Sending
    <2> QED BY <1>a, <1>n, <2>1, <2>2 DEF LossInv, HeldBriefly
  <1>9. CASE SpeakRecv
    <2>1. /\ MqReceive(DEFS_TASK_SPEAK)
          /\ Received(DEFS_TASK_SPEAK, Head(queues[DEFS_TASK_SPEAK]))
          /\ UNCHANGED <<main_rx, socket_msg, wire, sent, restarts>>
          /\ pc'["sock"] = pc["sock"] /\ pc'["main"] = pc["main"]
      BY <1>9, <1>b DEF SpeakRecv, Goto, Labels
    <2>2. \A n : Somewhere(n) => Somewhere(n)'
      BY <1>b, <1>c, <2>1, ReceiveKeeps DEF Somewhere, Sending, Held
    <2> QED BY <1>a, <1>n, <2>1, <2>2 DEF LossInv, HeldBriefly
  <1>10. CASE SpeakSend
    <2>1. /\ MqSend(DEFS_TASK_BBG, LogMsg(DEFS_TASK_SPEAK))
          /\ UNCHANGED <<main_rx, socket_msg, wire, sent, restarts, taken>>
          /\ pc'["sock"] = pc["sock"] /\ pc'["main"] = pc["main"]
      BY <1>10, <1>b DEF SpeakSend, msg_send, Goto, Labels
    <2>2. \A n : Somewhere(n) => Somewhere(n)'
      BY <1>b, <1>c, <2>1, SendKeeps DEF Somewhere, Held, Sending
    <2> QED BY <1>a, <1>n, <2>1, <2>2 DEF LossInv, HeldBriefly
  <1>11. CASE SpeakPlayed
    <2>1. /\ UNCHANGED <<queues, main_rx, socket_msg, wire, sent, restarts, taken>>
          /\ pc'["sock"] = pc["sock"] /\ pc'["main"] = pc["main"]
      BY <1>11, <1>b DEF SpeakPlayed, Goto, Labels
    <2>2. \A n : Somewhere(n) => Somewhere(n)'
      BY <2>1 DEF Somewhere, Sending, Held
    <2> QED BY <1>a, <1>n, <2>1, <2>2 DEF LossInv, HeldBriefly
  <1>12. CASE SockAccept
    <2>1. /\ UNCHANGED <<queues, main_rx, socket_msg, wire, sent, restarts, taken>>
          /\ pc["sock"] # "send" /\ pc'["main"] = pc["main"]
      BY <1>12, <1>b DEF SockAccept, Goto, Labels
    <2>2. \A n : Somewhere(n) => Somewhere(n)'
      BY <2>1 DEF Somewhere, Sending, Held
    <2> QED BY <1>a, <1>n, <2>1, <2>2 DEF LossInv, HeldBriefly
  <1>13. CASE SockRead
    <2>1. /\ \/ wire # <<>> /\ socket_msg' = Head(wire) /\ wire' = Tail(wire)
             \/ UNCHANGED <<socket_msg, wire>>
          /\ UNCHANGED <<queues, main_rx, sent, restarts, taken>>
          /\ pc["sock"] # "send" /\ pc'["sock"] = "send" /\ pc'["main"] = pc["main"]
      BY <1>13, <1>b DEF SockRead, Goto, Labels
    <2>2. Ids(wire) \subseteq Ids(wire') \cup ({socket_msg'.id} \ {0})
      BY <1>b, <2>1, IdsTail
    <2>3. \A n : Somewhere(n) => Somewhere(n)'
      BY <2>1, <2>2 DEF Somewhere, Sending, Held
    <2> QED BY <1>a, <1>n, <2>1, <2>3 DEF LossInv, HeldBriefly
  <1>14. CASE SockSend
    <2>1. /\ MqSend(DEFS_TASK_BBG, socket_msg)
          /\ UNCHANGED <<main_rx, socket_msg, wire, sent, restarts, taken>>
          /\ pc["sock"] = "send" /\ pc'["main"] = pc["main"]
      BY <1>14, <1>b DEF SockSend, msg_send, Goto, Labels
    <2>2. \A n : (\E u \in Tasks : n \in taken[u] \/ n \in Ids(queues[u]))
                   \/ n \in {socket_msg.id} \ {0}
                 => \E u \in Tasks : n \in taken'[u] \/ n \in Ids(queues'[u])
      BY <1>b, <1>c, <2>1, SendKeeps
    <2>3. \A n : Somewhere(n) => Somewhere(n)'
      BY <2>1, <2>2 DEF Somewhere, Sending, Held
    <2> QED BY <1>a, <1>n, <2>1, <2>3 DEF LossInv, HeldBriefly
  <1>15. CASE PeerConnect \/ PeerClose
    <2>1. UNCHANGED <<queues, pc, main_rx, socket_msg, wire, sent, restarts, taken>>
      BY <1>15 DEF PeerConnect, PeerClose
    <2>2. \A n : Somewhere(n) => Somewhere(n)'
      BY <2>1 DEF Somewhere, Sending, Held
    <2> QED BY <1>a, <1>n, <2>1, <2>2 DEF LossInv, HeldBriefly
  <1>16. CASE PeerSend
    <2>1. PICK m \in PeerMsgs : wire' = Append(wire, [m EXCEPT !.id = sent + 1])
      BY <1>16 DEF PeerSend
    <2> DEFINE k == [m EXCEPT !.id = sent + 1]
    <2>2. k \in Msg /\ k.id = sent + 1 /\ wire' = Append(wire, k)
      <3>1. sent + 1 \in Nat
        BY <1>b
      <3> QED BY <2>1, <3>1, MsgTypes
    <2> HIDE DEF k
    <2>3. Ids(wire') = Ids(wire) \cup {sent + 1}
      <3>1. {k.id} \ {0} = {sent + 1}
        BY <1>b, <2>2
      <3> QED BY <1>b, <2>2, <3>1, IdsAppend
    <2>4. /\ UNCHANGED <<queues, pc, main_rx, socket_msg, restarts, taken>>
          /\ sent' = sent + 1
      BY <1>16 DEF PeerSend
    <2>5. \A n : Somewhere(n) \/ n = sent + 1 => Somewhere(n)'
      BY <2>3, <2>4 DEF Somewhere, Sending, Held
    <2>6. \A n \in 1..sent' : n \in 1..sent \/ n = sent + 1
      BY <1>b, <2>4
    <2>7. NoneMissing'
      BY <1>a, <2>4, <2>5, <2>6 DEF NoneMissing
    <2> QED BY <1>a, <2>4, <2>7 DEF LossInv, HeldBriefly
  <1>17. CASE Restart
    <2>1. restarts' # 0 /\ main_rx' = main_rx /\ main_rx = ZeroMsg
      BY <1>17, <1>a, <1>b DEF Restart, HeldBriefly
    <2> QED BY <1>a, <2>1 DEF LossInv, HeldBriefly, NoneMissing
  <1>18. CASE UNCHANGED vars
    <2>1. UNCHANGED <<queues, pc, main_rx, socket_msg, wire, sent, restarts, taken>>
      BY <1>18 DEF vars
    <2>2. \A n : Somewhere(n) => Somewhere(n)'
      BY <2>1 DEF Somewhere, Sending, Held
    <2> QED BY <1>a, <1>n, <2>1, <2>2 DEF LossInv, HeldBriefly
  <1> QED BY <1>1, <1>2, <1>3, <1>4, <1>5, <1>6, <1>7, <1>8, <1>9, <1>10, <1>11,
             <1>12, <1>13, <1>14, <1>15, <1>16, <1>17, <1>18
          DEF Next, MainNext, LogNext, SpeakNext, SockNext, PeerNext

(* As long as the process lives, every message the peer sent has reached   *)
(* its task or is on the way, whatever the peer sends and even if it hangs *)
(* up: no thread drops one.                                                *)
THEOREM LossCorrect == Spec => []NothingLost
  <1>1. Init => LossInv
    <2> SUFFICES ASSUME Init PROVE LossInv
      OBVIOUS
    <2>1. TypeOK
      BY TypeInit
    <2>2. AllForThisBoard
      BY DEF Init, AllForThisBoard, ForThisBoard, Fresh, Tasks, DEFS_TASK_BBG, ZeroMsg
    <2>3. HeldBriefly /\ NoneMissing
      BY DEF Init, HeldBriefly, NoneMissing
    <2> QED BY <2>1, <2>2, <2>3 DEF LossInv
  <1>2. LossInv /\ [Next]_vars => LossInv'
    BY LossInductive
  <1>3. LossInv => NothingLost
    <2>1. \A n : Somewhere(n) =>
            n \in Held \cup Upstream
                  \cup UNION {taken[t] \cup Ids(queues[t]) : t \in Tasks}
      BY DEF Somewhere, Upstream
    <2> QED BY <2>1 DEF LossInv, NoneMissing, NothingLost
  <1> QED BY <1>1, <1>2, <1>3, PTL DEF Spec


-----------------------------------------------------------------------------
(* The order when the peer may hang up.  A read that fails leaves the last *)
(* message in socket_msg and it is sent again, so the stage behind main's  *)
(* queue is what socket_msg keeps, sent or not, and a message may be as    *)
(* old as the one before it.                                               *)
NonDecreasing(s) ==
  \A i, j \in DOMAIN s :
    i < j /\ s[i].id # 0 /\ s[j].id # 0 => s[i].id <= s[j].id
Kept == {socket_msg.id} \ {0}
Behind == Ids(queues[DEFS_TASK_BBG]) \cup Kept \cup Ids(wire)
KeptOrder ==
  /\ \A t \in Tasks : NonDecreasing(queues[t])
  /\ NonDecreasing(wire)
  /\ \A t \in Tasks : NotAfter(taken[t], Ids(queues[t]) \cup Held \cup Behind)
  /\ \A t \in OtherTasks : NotAfter(Ids(queues[t]), Held \cup Behind)
  /\ NotAfter(Held, Behind)
  /\ NotAfter(Ids(queues[DEFS_TASK_BBG]), Kept \cup Ids(wire))
  /\ NotAfter(Kept, Ids(wire))
KeptNumbered ==
  /\ \A t \in Tasks : taken[t] \cup Ids(queues[t]) \subseteq 1..sent
  /\ Held \cup Behind \subseteq 1..sent
KeptInv == TypeOK /\ KeptOrder /\ KeptNumbered /\ HeldBriefly

(* Taking the head off a sequence in this order, and appending to one. *)
LEMMA NonDecreasingTail ==
  ASSUME NEW s \in Seq(Msg), s # <<>>, NonDecreasing(s)
  PROVE  NonDecreasing(Tail(s)) /\ NotAfter({Head(s).id} \ {0}, Ids(Tail(s)))
  <1> DEFINE r == Tail(s)
  <1>1. /\ DOMAIN s = 1..Len(s) /\ Len(s) \in Nat /\ Len(s) > 0
        /\ DOMAIN r = 1..(Len(s) - 1) /\ Head(s) = s[1]
        /\ \A i \in 1..(Len(s) - 1) : r[i] = s[i + 1]
    BY TailFacts
  <1> HIDE DEF r
  <1>2. \A i \in DOMAIN r : /\ i \in Nat /\ i + 1 \in DOMAIN s /\ 1 < i + 1
                            /\ 1 \in DOMAIN s /\ r[i] = s[i + 1]
    BY <1>1
  <1>3. NonDecreasing(r)
    <2> SUFFICES ASSUME NEW i \in DOMAIN r, NEW j \in DOMAIN r, i < j,
                        r[i].id # 0, r[j].id # 0
                 PROVE  r[i].id <= r[j].id
      BY DEF NonDecreasing
    <2>1. i + 1 \in DOMAIN s /\ j + 1 \in DOMAIN s /\ i + 1 < j + 1
      BY <1>2
    <2> QED BY <1>2, <2>1 DEF NonDecreasing
  <1>4. NotAfter({Head(s).id} \ {0}, Ids(r))
    BY <1>1, <1>2 DEF NonDecreasing, NotAfter, Ids
  <1> QED BY <1>3, <1>4 DEF r

(* Appending a number not below the others keeps a sequence in this order. *)
LEMMA NonDecreasingAppend ==
  ASSUME NEW s \in Seq(Msg), NEW m \in Msg, NonDecreasing(s),
         NotAfter(Ids(s), {m.id} \ {0})
  PROVE  NonDecreasing(Append(s, m))
  <1> DEFINE a == Append(s, m)
  <1>1. /\ DOMAIN a = 1..(Len(s) + 1) /\ DOMAIN s = 1..Len(s) /\ Len(s) \in Nat
        /\ \A i \in 1..Len(s) : a[i] = s[i]
        /\ a[Len(s) + 1] = m
    BY AppendFacts
  <1> HIDE DEF a
  <1> SUFFICES ASSUME NEW i \in DOMAIN a, NEW j \in DOMAIN a, i < j,
                      a[i].id # 0, a[j].id # 0
               PROVE  a[i].id <= a[j].id
    BY DEF NonDecreasing, a
  <1>2. i \in DOMAIN s /\ a[i] = s[i]
    BY <1>1
  <1>3. CASE j \in DOMAIN s
    BY <1>1, <1>2, <1>3 DEF NonDecreasing
  <1>4. CASE j = Len(s) + 1
    BY <1>1, <1>2, <1>4 DEF NotAfter, Ids
  <1> QED BY <1>1, <1>3, <1>4

(* Sending a number not below those in the queue keeps the queues in order. *)
LEMMA SendKeepsDown ==
  ASSUME QueuesOK, NEW t \in Tasks, NEW m \in Msg, MqSend(t, m),
         \A u \in Tasks : NonDecreasing(queues[u]),
         NotAfter(Ids(queues[t]), {m.id} \ {0})
  PROVE  \A u \in Tasks : NonDecreasing(queues'[u])
  <1>1. /\ queues \in [Tasks -> Seq(Msg)] /\ queues[t] \in Seq(Msg)
        /\ queues'[t] = Append(queues[t], m)
        /\ \A u \in Tasks \ {t} : queues'[u] = queues[u]
    BY DEF QueuesOK, MqSend
  <1>2. NonDecreasing(queues'[t])
    BY <1>1, NonDecreasingAppend
  <1> QED BY <1>1, <1>2

(* A receive keeps the queues in order and takes no younger number first. *)
LEMMA ReceiveKeepsDown ==
  ASSUME QueuesOK, NEW t \in Tasks, MqReceive(t),
         \A u \in Tasks : NonDecreasing(queues[u])
  PROVE  /\ \A u \in Tasks : NonDecreasing(queues'[u])
         /\ NotAfter({Head(queues[t]).id} \ {0}, Ids(queues'[t]))
  <1>1. /\ queues \in [Tasks -> Seq(Msg)] /\ queues[t] \in Seq(Msg)
        /\ queues[t] # <<>> /\ queues'[t] = Tail(queues[t])
        /\ \A u \in Tasks \ {t} : queues'[u] = queues[u]
    BY DEF QueuesOK, MqReceive
  <1>2. NonDecreasing(queues'[t]) /\ NotAfter({Head(queues[t]).id} \ {0}, Ids(queues'[t]))
    BY <1>1, NonDecreasingTail
  <1> QED BY <1>1, <1>2

(* A message made on this board has no number: sending it moves none. *)
LEMMA LocalSendKeepsDown ==
  ASSUME KeptInv, NEW m \in Msg, m.id = 0, msg_send(m),
         UNCHANGED <<main_rx, socket_msg, wire, sent, taken>>
  PROVE  KeptOrder' /\ KeptNumbered'
  <1>1. /\ QueuesOK /\ MqSend(DEFS_TASK_BBG, m) /\ DEFS_TASK_BBG \in Tasks
        /\ \A u \in Tasks : NonDecreasing(queues[u])
    BY DEF msg_send, KeptInv, KeptOrder, TypeOK, Tasks
  <1>2. {m.id} \ {0} = {} /\ NotAfter(Ids(queues[DEFS_TASK_BBG]), {m.id} \ {0})
    BY DEF NotAfter
  <1>3. /\ \A u \in Tasks : Ids(queues'[u]) = Ids(queues[u])
        /\ \A u \in Tasks : NonDecreasing(queues'[u])
    BY <1>1, <1>2, SendMoves, SendKeepsDown
  <1>4. Held' = Held /\ Kept' = Kept /\ Behind' = Behind
    BY <1>1, <1>3 DEF Held, Kept, Behind
  <1> QED BY <1>1, <1>3, <1>4 DEF KeptInv, KeptOrder, KeptNumbered, OtherTasks

(* A task other than main takes a message from its queue. *)
LEMMA TaskReceiveKeepsDown ==
  ASSUME KeptInv, NEW t \in OtherTasks, MqReceive(t), Received(t, Head(queues[t])),
         UNCHANGED <<main_rx, socket_msg, wire, sent>>
  PROVE  KeptOrder' /\ KeptNumbered'
  <1> DEFINE m == Head(queues[t])
  <1>1. /\ QueuesOK /\ KeptOrder /\ KeptNumbered /\ t \in Tasks /\ t # DEFS_TASK_BBG
        /\ taken \in [Tasks -> SUBSET Nat] /\ DEFS_TASK_BBG \in Tasks
        /\ \A u \in Tasks : NonDecreasing(queues[u])
    BY DEF KeptInv, KeptOrder, TypeOK, ProcessOK, OtherTasks, Tasks
  <1>2. /\ Ids(queues[t]) = Ids(queues'[t]) \cup ({m.id} \ {0})
        /\ \A u \in Tasks \ {t} : Ids(queues'[u]) = Ids(queues[u])
        /\ \A u \in Tasks : NonDecreasing(queues'[u])
        /\ NotAfter({m.id} \ {0}, Ids(queues'[t]))
    BY <1>1, ReceiveMoves, ReceiveKeepsDown
  <1>3. /\ taken'[t] = taken[t] \cup ({m.id} \ {0})
        /\ \A u \in Tasks \ {t} : taken'[u] = taken[u]
    BY <1>1 DEF Received
  <1> HIDE DEF m
  <1>4. Held' = Held /\ Kept' = Kept /\ Behind' = Behind
    BY <1>1, <1>2 DEF Held, Kept, Behind
  <1>5. KeptOrder'
    BY <1>1, <1>2, <1>3, <1>4 DEF KeptOrder, NotAfter, OtherTasks
  <1>6. KeptNumbered'
    BY <1>1, <1>2, <1>3, <1>4 DEF KeptNumbered
  <1> QED BY <1>5, <1>6

(* Steps that touch nothing on the way of a message. *)
LEMMA SameDown ==
  ASSUME KeptInv, TypeOK', UNCHANGED <<queues, main_rx, socket_msg, wire, sent, taken>>,
         pc'["main"] = pc["main"]
  PROVE  KeptInv'
  <1>1. Held' = Held /\ Kept' = Kept /\ Behind' = Behind
    BY DEF Held, Kept, Behind
  <1>2. KeptOrder' /\ KeptNumbered'
    BY <1>1 DEF KeptInv, KeptOrder, KeptNumbered
  <1> QED BY <1>2 DEF KeptInv, HeldBriefly

(* Every step keeps this order, whatever the peer does. *)
LEMMA KeptInductive == KeptInv /\ [Next]_vars => KeptInv'
  <1> SUFFICES ASSUME KeptInv, [Next]_vars PROVE KeptInv'
    OBVIOUS
  <1>a. /\ TypeOK' /\ TypeOK /\ KeptOrder /\ KeptNumbered /\ HeldBriefly
        /\ \A u \in Tasks : NonDecreasing(queues[u])
    BY TypeInductive DEF KeptInv, KeptOrder
  <1>b. /\ QueuesOK /\ pc \in Labels /\ main_rx \in Msg /\ socket_msg \in Msg
        /\ wire \in Seq(Msg) /\ sent \in Nat /\ taken \in [Tasks -> SUBSET Nat]
        /\ (pc["main"] = "route" => main_rx.to \in OtherTasks)
    BY <1>a DEF TypeOK, ThreadsOK, NetworkOK, ProcessOK
  <1>c. /\ ZeroMsg \in Msg /\ ZeroMsg.id = 0
        /\ DEFS_TASK_BBG \in Tasks /\ DEFS_TASK_SPEAK \in Tasks
        /\ DEFS_TASK_LOG \in Tasks /\ DEFS_TASK_SPEAK # DEFS_TASK_BBG
        /\ DEFS_TASK_LOG # DEFS_TASK_BBG
        /\ OtherTasks \subseteq Tasks /\ DEFS_TASK_BBG \notin OtherTasks
        /\ DEFS_TASK_LOG \in OtherTasks /\ DEFS_TASK_SPEAK \in OtherTasks
        /\ \A f \in Tasks : LogMsg(f) \in Msg /\ LogMsg(f).id = 0
        /\ \A l \in Starting : StartMsg[l] \in Msg /\ StartMsg[l].id = 0
    BY MsgTypes DEF ZeroMsg, OtherTasks, Tasks, DEFS_TASK_BBG, DEFS_TASK_SPEAK,
         DEFS_TASK_LOG, LogMsg, Local
  <1> USE DEF netVars, logVars, progVars
  <1>1. CASE MainStart
    <2>1. KeptOrder' /\ KeptNumbered'
      BY <1>c, <1>1, LocalSendKeepsDown DEF MainStart
    <2>2. HeldBriefly'
      BY <1>a, <1>b, <1>1 DEF MainStart, HeldBriefly, Starting, Goto, Labels
    <2> QED BY <1>a, <2>1, <2>2 DEF KeptInv
  <1>2. CASE MainRecv
    <2> DEFINE m == Head(queues[DEFS_TASK_BBG])
    <2>1. MqReceive(DEFS_TASK_BBG) /\ Held = {}
      BY <1>a, <1>b, <1>c, <1>2 DEF MainRecv, HeldBriefly, Held
    <2>2. /\ Ids(queues[DEFS_TASK_BBG])
                = Ids(queues'[DEFS_TASK_BBG]) \cup ({m.id} \ {0})
          /\ \A u \in Tasks \ {DEFS_TASK_BBG} : Ids(queues'[u]) = Ids(queues[u])
          /\ \A u \in Tasks : NonDecreasing(queues'[u])
          /\ NotAfter({m.id} \ {0}, Ids(queues'[DEFS_TASK_BBG]))
      BY <1>a, <1>b, <1>c, <2>1, ReceiveMoves, ReceiveKeepsDown
    <2>3. Kept' = Kept /\ UNCHANGED <<wire, sent>>
      BY <1>2 DEF MainRecv, Kept
    <2>4. Behind = Behind' \cup ({m.id} \ {0})
      BY <1>2, <2>2, <2>3 DEF MainRecv, Behind
    <2> HIDE DEF m
    <2>5. ASSUME main_rx' = m, UNCHANGED taken PROVE KeptOrder' /\ KeptNumbered'
      <3>1. Held' = {m.id} \ {0}
        BY <2>5 DEF Held
      <3>2. KeptOrder'
        BY <1>a, <1>c, <2>1, <2>2, <2>3, <2>4, <2>5, <3>1
        DEF KeptOrder, NotAfter, OtherTasks, Behind
      <3>3. KeptNumbered'
        BY <1>a, <1>c, <2>1, <2>2, <2>3, <2>4, <2>5, <3>1
        DEF KeptNumbered, OtherTasks
      <3> QED BY <3>2, <3>3
    <2>6. ASSUME UNCHANGED main_rx, Received(DEFS_TASK_BBG, m)
          PROVE  KeptOrder' /\ KeptNumbered'
      <3>1. Held' = {}
        BY <2>1, <2>6 DEF Held
      <3>2. /\ taken'[DEFS_TASK_BBG] = taken[DEFS_TASK_BBG] \cup ({m.id} \ {0})
            /\ \A u \in Tasks \ {DEFS_TASK_BBG} : taken'[u] = taken[u]
        BY <1>a, <1>b, <1>c, <2>6 DEF Received
      <3>3. KeptOrder'
        BY <1>a, <1>c, <2>1, <2>2, <2>3, <2>4, <3>1, <3>2
        DEF KeptOrder, NotAfter, OtherTasks, Behind
      <3>4. KeptNumbered'
        BY <1>a, <1>c, <2>1, <2>2, <2>3, <2>4, <3>1, <3>2
        DEF KeptNumbered, OtherTasks
      <3> QED BY <3>3, <3>4
    <2>7. KeptOrder' /\ KeptNumbered'
      BY <1>2, <2>5, <2>6 DEF MainRecv, m
    <2>8. HeldBriefly'
      BY <1>a, <1>b, <1>c, <1>2 DEF MainRecv, HeldBriefly, Goto, Labels
    <2> QED BY <1>a, <2>7, <2>8 DEF KeptInv
  <1>3. CASE msg_route
    <2>1. /\ MqSend(main_rx.to, main_rx) /\ main_rx.to \in OtherTasks
          /\ main_rx.to \in Tasks /\ main_rx' = ZeroMsg
          /\ UNCHANGED <<socket_msg, wire, sent, taken>>
      BY <1>b, <1>c, <1>3 DEF msg_route
    <2>2. NotAfter(Ids(queues[main_rx.to]), {main_rx.id} \ {0})
      BY <1>a, <2>1 DEF KeptOrder, Held, NotAfter
    <2>3. /\ Ids(queues'[main_rx.to]) = Ids(queues[main_rx.to]) \cup Held
          /\ \A u \in Tasks \ {main_rx.to} : Ids(queues'[u]) = Ids(queues[u])
          /\ \A u \in Tasks : NonDecreasing(queues'[u])
      BY <1>a, <1>b, <2>1, <2>2, SendMoves, SendKeepsDown DEF Held
    <2>4. Kept' = Kept /\ Held' = {}
      BY <1>c, <2>1 DEF Kept, Held
    <2>5. Behind' = Behind
      BY <1>c, <2>1, <2>3, <2>4 DEF Behind
    <2>6. KeptOrder'
      BY <1>a, <1>c, <2>1, <2>3, <2>4, <2>5 DEF KeptOrder, NotAfter, OtherTasks
    <2>7. KeptNumbered'
      BY <1>a, <1>c, <2>1, <2>3, <2>4, <2>5 DEF KeptNumbered, OtherTasks
    <2> QED BY <1>a, <2>1, <2>6, <2>7 DEF KeptInv, HeldBriefly
  <1>4. CASE MainWrite
    <2>1. /\ Kept' = Kept /\ Held' = {} /\ main_rx' = ZeroMsg
          /\ UNCHANGED <<queues, wire, sent, taken>>
      BY <1>c, <1>4 DEF MainWrite, Kept, Held
    <2>2. Behind' = Behind
      BY <2>1 DEF Behind
    <2>3. KeptOrder'
      BY <1>a, <2>1, <2>2 DEF KeptOrder, NotAfter
    <2>4. KeptNumbered'
      BY <1>a, <2>1, <2>2 DEF KeptNumbered
    <2> QED BY <1>a, <2>1, <2>3, <2>4 DEF KeptInv, HeldBriefly
  <1>5. CASE SigPipe \/ Kill
    <2>1. /\ Held' = {} /\ Kept' = {} /\ Ids(wire') = {} /\ NonDecreasing(wire')
          /\ UNCHANGED <<queues, taken, sent>> /\ main_rx' = ZeroMsg
      BY <1>c, <1>5 DEF SigPipe, Kill, Die, Held, Kept, Ids, NonDecreasing
    <2>2. Behind' = Ids(queues[DEFS_TASK_BBG])
      BY <2>1 DEF Behind
    <2>3. KeptOrder'
      BY <1>a, <1>c, <2>1, <2>2 DEF KeptOrder, NotAfter, Behind
    <2>4. KeptNumbered'
      BY <1>a, <2>1, <2>2 DEF KeptNumbered, Behind
    <2> QED BY <1>a, <2>1, <2>3, <2>4 DEF KeptInv, HeldBriefly
  <1>6. CASE LogRecv
    <2>1. /\ MqReceive(DEFS_TASK_LOG)
          /\ Received(DEFS_TASK_LOG, Head(queues[DEFS_TASK_LOG]))
          /\ UNCHANGED <<main_rx, socket_msg, wire, sent>> /\ pc'["main"] = pc["main"]
      BY <1>b, <1>6 DEF LogRecv, Goto, Labels
    <2>2. KeptOrder' /\ KeptNumbered'
      BY <1>c, <2>1, TaskReceiveKeepsDown
    <2> QED BY <1>a, <2>1, <2>2 DEF KeptInv, HeldBriefly
  <1>7. CASE LogHandle
    <2>1. \E l \in {"recv", "send", "dead"} : Goto("log", l)
      BY <1>7 DEF LogHandle, log_init, log_log, log_setpath, log_kill
    <2>2. UNCHANGED <<queues, main_rx, socket_msg, wire, sent, taken>>
          /\ pc'["main"] = pc["main"]
      BY <1>b, <1>7, <2>1 DEF LogHandle, Goto, Labels
    <2> QED BY <1>a, <2>2, SameDown
  <1>8. CASE LogSend
    <2>1. KeptOrder' /\ KeptNumbered'
      BY <1>c, <1>8, LocalSendKeepsDown DEF LogSend
    <2> QED BY <1>a, <1>b, <1>8, <2>1 DEF LogSend, KeptInv, HeldBriefly, Goto, Labels
  <1>9. CASE SpeakRecv
    <2>1. /\ MqReceive(DEFS_TASK_SPEAK)
          /\ Received(DEFS_TASK_SPEAK, Head(queues[DEFS_TASK_SPEAK]))
          /\ UNCHANGED <<main_rx, socket_msg, wire, sent>> /\ pc'["main"] = pc["main"]
      BY <1>b, <1>9 DEF SpeakRecv, Goto, Labels
    <2>2. KeptOrder' /\ KeptNumbered'
      BY <1>c, <2>1, TaskReceiveKeepsDown
    <2> QED BY <1>a, <2>1, <2>2 DEF KeptInv, HeldBriefly
  <1>10. CASE SpeakSend
    <2>1. KeptOrder' /\ KeptNumbered'
      BY <1>c, <1>10, LocalSendKeepsDown DEF SpeakSend
    <2> QED BY <1>a, <1>b, <1>10, <2>1 DEF SpeakSend, KeptInv, HeldBriefly, Goto, Labels
  <1>11. CASE SpeakPlayed \/ SockAccept
    <2>1. UNCHANGED <<queues, main_rx, socket_msg, wire, sent, taken>>
          /\ pc'["main"] = pc["main"]
      BY <1>b, <1>11 DEF SpeakPlayed, SockAccept, Goto, Labels
    <2> QED BY <1>a, <2>1, SameDown
  <1>12. CASE SockRead
    <2>1. /\ UNCHANGED <<queues, main_rx, sent, taken>> /\ pc'["main"] = pc["main"]
          /\ Held' = Held
      BY <1>b, <1>12 DEF SockRead, Goto, Labels, Held
    <2>2. CASE UNCHANGED <<socket_msg, wire>>
      BY <1>a, <2>1, <2>2, SameDown
    <2>3. CASE wire # <<>> /\ socket_msg' = Head(wire) /\ wire' = Tail(wire)
      <3>1. Kept' = {Head(wire).id} \ {0}
        BY <2>3 DEF Kept
      <3>2. /\ Ids(wire) = Ids(wire') \cup Kept' /\ NonDecreasing(wire')
            /\ NotAfter(Kept', Ids(wire'))
        BY <1>a, <1>b, <2>3, <3>1, IdsTail, NonDecreasingTail DEF KeptOrder
      <3>3. Behind' \subseteq Behind
        BY <2>1, <3>2 DEF Behind
      <3>4. KeptOrder'
        BY <1>a, <2>1, <3>2, <3>3 DEF KeptOrder, NotAfter
      <3>5. KeptNumbered'
        BY <1>a, <2>1, <3>3 DEF KeptNumbered
      <3> QED BY <1>a, <2>1, <3>4, <3>5 DEF KeptInv, HeldBriefly
    <2> QED BY <1>12, <2>2, <2>3 DEF SockRead
  <1>13. CASE SockSend
    <2>1. /\ MqSend(DEFS_TASK_BBG, socket_msg) /\ Kept' = Kept /\ Held' = Held
          /\ UNCHANGED <<main_rx, socket_msg, wire, sent, taken>>
          /\ pc'["main"] = pc["main"]
      BY <1>b, <1>13 DEF SockSend, msg_send, Kept, Held, Goto, Labels
    <2>2. NotAfter(Ids(queues[DEFS_TASK_BBG]), {socket_msg.id} \ {0})
      BY <1>a DEF KeptOrder, NotAfter, Kept
    <2>3. /\ Ids(queues'[DEFS_TASK_BBG]) = Ids(queues[DEFS_TASK_BBG]) \cup Kept
          /\ \A u \in Tasks \ {DEFS_TASK_BBG} : Ids(queues'[u]) = Ids(queues[u])
          /\ \A u \in Tasks : NonDecreasing(queues'[u])
      BY <1>a, <1>b, <1>c, <2>1, <2>2, SendMoves, SendKeepsDown DEF Kept
    <2>4. Behind' = Behind
      BY <2>1, <2>3 DEF Behind
    <2>5. NotAfter(Kept, Kept)
      BY <1>b DEF NotAfter, Kept, Msg
    <2>6. KeptOrder'
      BY <1>a, <1>c, <2>1, <2>3, <2>4, <2>5 DEF KeptOrder, NotAfter, OtherTasks, Behind
    <2>7. KeptNumbered'
      BY <1>a, <1>c, <2>1, <2>3, <2>4 DEF KeptNumbered, Behind
    <2> QED BY <1>a, <2>1, <2>6, <2>7 DEF KeptInv, HeldBriefly
  <1>14. CASE PeerConnect \/ PeerClose
    <2>1. UNCHANGED <<queues, pc, main_rx, socket_msg, wire, sent, taken>>
      BY <1>14 DEF PeerConnect, PeerClose
    <2> QED BY <1>a, <2>1, SameDown
  <1>15. CASE PeerSend
    <2>1. PICK m \in PeerMsgs : wire' = Append(wire, [m EXCEPT !.id = sent + 1])
      BY <1>15 DEF PeerSend
    <2> DEFINE n == [m EXCEPT !.id = sent + 1]
    <2>2. n \in Msg /\ n.id = sent + 1 /\ wire' = Append(wire, n)
      <3>1. sent + 1 \in Nat
        BY <1>b
      <3> QED BY <2>1, <3>1, MsgTypes
    <2> HIDE DEF n
    <2>3. {n.id} \ {0} = {sent + 1}
      BY <1>b, <2>2
    <2>4. \A k \in 1..sent : k <= sent + 1
      BY <1>b
    <2>5. NotAfter(Ids(wire), {n.id} \ {0})
      BY <1>a, <2>3, <2>4 DEF KeptNumbered, Behind, NotAfter
    <2>6. Ids(wire') = Ids(wire) \cup {sent + 1} /\ NonDecreasing(wire')
      BY <1>a, <1>b, <2>2, <2>3, <2>5, IdsAppend, NonDecreasingAppend DEF KeptOrder
    <2>7. Kept' = Kept /\ Held' = Held /\ UNCHANGED <<queues, pc, main_rx, taken>>
          /\ sent' = sent + 1
      BY <1>15 DEF PeerSend, Kept, Held
    <2>8. Behind' = Behind \cup {sent + 1}
      BY <2>6, <2>7 DEF Behind
    <2>9. KeptOrder'
      BY <1>a, <1>c, <2>4, <2>6, <2>7, <2>8
      DEF KeptOrder, KeptNumbered, NotAfter, OtherTasks, Behind
    <2>10. KeptNumbered'
      BY <1>a, <1>b, <2>7, <2>8 DEF KeptNumbered
    <2> QED BY <1>a, <2>7, <2>9, <2>10 DEF KeptInv, HeldBriefly
  <1>16. CASE Restart
    <2>1. UNCHANGED <<queues, main_rx, socket_msg, wire, taken, sent>>
          /\ main_rx = ZeroMsg
      BY <1>a, <1>16 DEF Restart, HeldBriefly
    <2>2. Held' = Held /\ Kept' = Kept /\ Behind' = Behind
      BY <2>1 DEF Held, Kept, Behind
    <2>3. KeptOrder' /\ KeptNumbered'
      BY <1>a, <2>1, <2>2 DEF KeptOrder, KeptNumbered
    <2> QED BY <1>a, <2>1, <2>3 DEF KeptInv, HeldBriefly
  <1>17. CASE UNCHANGED vars
    <2>1. UNCHANGED <<queues, pc, main_rx, socket_msg, wire, sent, taken>>
      BY <1>17 DEF vars
    <2> QED BY <1>a, <2>1, SameDown
  <1> QED BY <1>1, <1>2, <1>3, <1>4, <1>5, <1>6, <1>7, <1>8, <1>9, <1>10, <1>11,
             <1>12, <1>13, <1>14, <1>15, <1>16, <1>17
          DEF Next, MainNext, LogNext, SpeakNext, SockNext, PeerNext

(* No message is handed to its task after a younger one, whatever the peer *)
(* sends, even if it hangs up, and whatever dies and restarts.             *)
THEOREM OvertakenCorrect == Spec => []NeverOvertaken
  <1>1. Init => KeptInv
    <2> SUFFICES ASSUME Init PROVE KeptInv
      OBVIOUS
    <2>1. TypeOK
      BY TypeInit
    <2>2. /\ \A t \in Tasks : Ids(queues[t]) = {} /\ NonDecreasing(queues[t])
          /\ \A t \in Tasks : taken[t] = {}
          /\ Ids(wire) = {} /\ NonDecreasing(wire) /\ Held = {} /\ Kept = {}
      BY DEF Init, Ids, NonDecreasing, Held, Kept, ZeroMsg
    <2>3. Behind = {}
      BY <2>2 DEF Behind, Tasks
    <2>4. KeptOrder /\ KeptNumbered
      BY <2>2, <2>3 DEF KeptOrder, KeptNumbered, NotAfter, OtherTasks, Tasks
    <2> QED BY <2>1, <2>4 DEF KeptInv, HeldBriefly, Init
  <1>2. KeptInv /\ [Next]_vars => KeptInv'
    BY KeptInductive
  <1>3. KeptInv => NeverOvertaken
    <2> SUFFICES ASSUME KeptInv PROVE NeverOvertaken
      OBVIOUS
    <2>1. Sending \subseteq Kept /\ Upstream \subseteq Behind
      BY DEF Sending, Kept, Upstream, Behind
    <2> QED BY <2>1 DEF KeptInv, KeptOrder, NeverOvertaken, NotAfter
  <1> QED BY <1>1, <1>2, <1>3, PTL DEF Spec


-----------------------------------------------------------------------------
(* The log file.  Of the messages for the logger only main's first one     *)
(* opens a file, and it is in one place at a time: before that place       *)
(* forgets it nothing was written, so opening the file erases nothing.     *)
Opens(m) == m.to = DEFS_TASK_LOG /\ m.cmd = LOG_INIT
PeerKinds == {m \in Msg : m.to = DEFS_TASK_LOG => m.cmd = LOG_LOG}
LogKinds ==
  {m \in Msg : m.to = DEFS_TASK_LOG =>
     m.cmd = LOG_LOG
       \/ (m.cmd = LOG_INIT /\ m.flag = 1 /\ m.path = LogPath /\ m.id = 0)}
Kinds ==
  /\ queues \in [Tasks -> Seq(LogKinds)]
  /\ main_rx \in LogKinds /\ log_rx \in LogKinds
  /\ wire \in Seq(PeerKinds) /\ socket_msg \in PeerKinds
Holds(s) == \E i \in DOMAIN s : Opens(s[i])
Single(s) == \A i, j \in DOMAIN s : Opens(s[i]) /\ Opens(s[j]) => i = j
(* Where the opening message is, from main's start to the open file. *)
Unsent == pc["main"] = "log_init"
AtMain == Holds(queues[DEFS_TASK_BBG])
WithMain == Opens(main_rx)
AtLog == Holds(queues[DEFS_TASK_LOG])
WithLog == Opens(log_rx)
Opened == log_file # NoFile
Alone ==
  /\ Unsent => ~AtMain /\ ~WithMain /\ ~AtLog /\ ~WithLog /\ ~Opened
  /\ AtMain => ~WithMain /\ ~AtLog /\ ~WithLog /\ ~Opened
  /\ WithMain => ~AtLog /\ ~WithLog /\ ~Opened
  /\ AtLog => ~WithLog /\ ~Opened
  /\ WithLog => ~Opened
Singles == Single(queues[DEFS_TASK_BBG]) /\ Single(queues[DEFS_TASK_LOG])
(* The file, the lines and the message the logger is working on. *)
Logged == (disk[LogPath] \cup unlogged) \ {0}
Logging ==
  /\ LogComplete
  /\ log_file \in {NoFile, LogPath}
  /\ log_file = NoFile => disk[LogPath] = {}
  /\ IF pc["log"] = "handle"
       THEN log_rx.to = DEFS_TASK_LOG /\ Before(Logged, {log_rx.id} \ {0})
       ELSE log_rx = ZeroMsg
LogInv == OrderInv /\ Kinds /\ Alone /\ Singles /\ Logging

(* The opening message in a sequence, after an Append and after a Tail. *)
LEMMA HoldsAppend ==
  ASSUME NEW s \in Seq(Msg), NEW m \in Msg, Single(s), Opens(m) => ~Holds(s)
  PROVE  /\ Holds(Append(s, m)) <=> (Holds(s) \/ Opens(m))
         /\ Single(Append(s, m))
  <1> DEFINE a == Append(s, m)
  <1>1. /\ DOMAIN a = 1..(Len(s) + 1) /\ DOMAIN s = 1..Len(s) /\ Len(s) \in Nat
        /\ \A i \in 1..Len(s) : a[i] = s[i]
        /\ a[Len(s) + 1] = m
    BY AppendFacts
  <1> HIDE DEF a
  <1>2. /\ \A i \in DOMAIN a : (i \in DOMAIN s /\ a[i] = s[i]) \/ (i = Len(s) + 1 /\ a[i] = m)
        /\ \A i \in DOMAIN s : i \in DOMAIN a /\ a[i] = s[i]
        /\ Len(s) + 1 \in DOMAIN a
    BY <1>1
  <1>3. Holds(a) <=> (Holds(s) \/ Opens(m))
    <2>1. Holds(a) => Holds(s) \/ Opens(m)
      BY <1>2 DEF Holds
    <2>2. Holds(s) => Holds(a)
      BY <1>2 DEF Holds
    <2>3. Opens(m) => Holds(a)
      BY <1>1, <1>2 DEF Holds
    <2> QED BY <2>1, <2>2, <2>3
  <1>4. Single(a)
    <2> SUFFICES ASSUME NEW i \in DOMAIN a, NEW j \in DOMAIN a,
                        Opens(a[i]), Opens(a[j])
                 PROVE  i = j
      BY DEF Single
    <2> QED BY <1>2 DEF Single, Holds
  <1> QED BY <1>3, <1>4 DEF a

(* Whether a sequence holds it, split at the head. *)
LEMMA HoldsTail ==
  ASSUME NEW s \in Seq(Msg), s # <<>>, Single(s)
  PROVE  /\ Holds(s) <=> (Holds(Tail(s)) \/ Opens(Head(s)))
         /\ ~(Holds(Tail(s)) /\ Opens(Head(s)))
         /\ Single(Tail(s))
  <1> DEFINE r == Tail(s)
  <1>1. /\ DOMAIN s = 1..Len(s) /\ Len(s) \in Nat /\ Len(s) > 0
        /\ DOMAIN r = 1..(Len(s) - 1) /\ Head(s) = s[1]
        /\ \A i \in 1..(Len(s) - 1) : r[i] = s[i + 1]
    BY TailFacts
  <1> HIDE DEF r
  <1>2. /\ \A i \in DOMAIN r : i \in Nat /\ i + 1 \in DOMAIN s /\ r[i] = s[i + 1] /\ i + 1 # 1
        /\ \A i \in DOMAIN s : (i - 1 \in DOMAIN r /\ s[i] = r[i - 1]) \/ i = 1
        /\ 1 \in DOMAIN s
    BY <1>1
  <1>3. Holds(s) <=> (Holds(r) \/ Opens(Head(s)))
    <2>1. Holds(s) => Holds(r) \/ Opens(Head(s))
      BY <1>1, <1>2 DEF Holds
    <2>2. Holds(r) => Holds(s)
      BY <1>2 DEF Holds
    <2>3. Opens(Head(s)) => Holds(s)
      BY <1>1, <1>2 DEF Holds
    <2> QED BY <2>1, <2>2, <2>3
  <1>4. ~(Holds(r) /\ Opens(Head(s)))
    BY <1>1, <1>2 DEF Single, Holds
  <1>5. Single(r)
    <2> SUFFICES ASSUME NEW i \in DOMAIN r, NEW j \in DOMAIN r,
                        Opens(r[i]), Opens(r[j])
                 PROVE  i = j
      BY DEF Single
    <2>1. i + 1 = j + 1
      BY <1>2 DEF Single
    <2> QED BY <1>2, <2>1
  <1> QED BY <1>3, <1>4, <1>5 DEF r

(* What a send and a receive do to the kinds of the queued messages. *)
LEMMA SendKinds ==
  ASSUME queues \in [Tasks -> Seq(LogKinds)], NEW t \in Tasks, NEW m \in LogKinds,
         MqSend(t, m)
  PROVE  /\ queues' \in [Tasks -> Seq(LogKinds)]
         /\ queues'[t] = Append(queues[t], m)
         /\ \A u \in Tasks \ {t} : queues'[u] = queues[u]
  <1>1. /\ queues[t] \in Seq(LogKinds)
        /\ queues' = [queues EXCEPT ![t] = Append(queues[t], m)]
    BY DEF MqSend
  <1>2. Append(queues[t], m) \in Seq(LogKinds)
    BY <1>1, AppendFacts
  <1> QED BY <1>1, <1>2

(* A received message is of one of the kinds, and so is what stays. *)
LEMMA ReceiveKinds ==
  ASSUME queues \in [Tasks -> Seq(LogKinds)], NEW t \in Tasks, MqReceive(t)
  PROVE  /\ queues' \in [Tasks -> Seq(LogKinds)]
         /\ queues[t] # <<>> /\ queues'[t] = Tail(queues[t])
         /\ Head(queues[t]) \in LogKinds
         /\ \A u \in Tasks \ {t} : queues'[u] = queues[u]
  <1>1. /\ queues[t] \in Seq(LogKinds) /\ queues[t] # <<>>
        /\ queues' = [queues EXCEPT ![t] = Tail(queues[t])]
    BY DEF MqReceive
  <1>2. Tail(queues[t]) \in Seq(LogKinds) /\ Head(queues[t]) \in LogKinds
    BY <1>1, TailFacts
  <1> QED BY <1>1, <1>2

(* The kinds of the messages made on this board and by the peer. *)
LEMMA KindFacts ==
  ASSUME \A m \in PeerMsgs : m.to = DEFS_TASK_LOG => m.cmd = LOG_LOG
  PROVE  /\ ZeroMsg \in PeerKinds /\ ~Opens(ZeroMsg) /\ PeerKinds \subseteq LogKinds
         /\ LogKinds \subseteq Msg /\ \A m \in PeerKinds : ~Opens(m)
         /\ \A f \in Tasks : LogMsg(f) \in LogKinds /\ ~Opens(LogMsg(f))
         /\ \A l \in Starting : StartMsg[l] \in LogKinds
         /\ \A l \in Starting : l # "log_init" => ~Opens(StartMsg[l])
         /\ \A m \in PeerMsgs, n \in Nat : [m EXCEPT !.id = n] \in PeerKinds
  <1>1. ZeroMsg \in PeerKinds /\ ~Opens(ZeroMsg)
    BY MsgTypes DEF PeerKinds, ZeroMsg, Char0, Opens, DEFS_TASK_LOG, LOG_INIT
  <1>2. PeerKinds \subseteq LogKinds /\ LogKinds \subseteq Msg
    BY DEF PeerKinds, LogKinds
  <1>3. \A m \in PeerKinds : ~Opens(m)
    BY DEF PeerKinds, Opens, LOG_LOG, LOG_INIT
  <1>4. \A f \in Tasks : LogMsg(f) \in LogKinds /\ ~Opens(LogMsg(f))
    <2>1. \A f \in Tasks : LogMsg(f) \in Msg /\ LogMsg(f).cmd = LOG_LOG
      BY MsgTypes DEF LogMsg, Local
    <2> QED BY <2>1 DEF LogKinds, Opens, LOG_LOG, LOG_INIT
  <1>5. \A l \in Starting : StartMsg[l] \in LogKinds
    <2> SUFFICES ASSUME NEW l \in Starting PROVE StartMsg[l] \in LogKinds
      OBVIOUS
    <2>1. StartMsg[l] \in Msg
      BY MsgTypes
    <2>2. CASE l = "log_init"
      BY <2>1, <2>2 DEF StartMsg, Local, LogKinds
    <2>3. CASE l # "log_init"
      BY <2>1, <2>3 DEF StartMsg, Local, LogKinds, Starting, DEFS_TASK_SPEAK,
           DEFS_TASK_LOG
    <2> QED BY <2>2, <2>3
  <1>6. \A l \in Starting : l # "log_init" => ~Opens(StartMsg[l])
    BY DEF StartMsg, Local, Opens, Starting, DEFS_TASK_SPEAK, DEFS_TASK_LOG
  <1>7. \A m \in PeerMsgs, n \in Nat : [m EXCEPT !.id = n] \in PeerKinds
    <2> SUFFICES ASSUME NEW m \in PeerMsgs, NEW n \in Nat
                 PROVE  [m EXCEPT !.id = n] \in PeerKinds
      OBVIOUS
    <2>1. [m EXCEPT !.id = n] \in Msg
      BY MsgTypes
    <2>2. [m EXCEPT !.id = n].to = m.to /\ [m EXCEPT !.id = n].cmd = m.cmd
      BY PeerAssumption
    <2> QED BY <2>1, <2>2 DEF PeerKinds
  <1> QED BY <1>1, <1>2, <1>3, <1>4, <1>5, <1>6, <1>7


(* Steps of the other threads leave the logger's state alone. *)
LEMMA SameLogging ==
  ASSUME Logging, UNCHANGED <<log_file, disk, unlogged, log_rx>>,
         taken'[DEFS_TASK_LOG] = taken[DEFS_TASK_LOG],
         pc'["log"] = "handle" <=> pc["log"] = "handle"
  PROVE  Logging' /\ WithLog' = WithLog /\ Opened' = Opened
  BY DEF Logging, LogComplete, Logged, WithLog, Opened

(* Sending a message other than the opening one to main moves nothing. *)
LEMMA SendStaysAlone ==
  ASSUME LogInv, NEW m \in LogKinds, ~Opens(m), MqSend(DEFS_TASK_BBG, m),
         UNCHANGED <<main_rx, log_rx, wire, socket_msg, log_file>>, Unsent' = Unsent
  PROVE  Kinds' /\ Alone' /\ Singles'
  <1>1. /\ queues \in [Tasks -> Seq(LogKinds)] /\ DEFS_TASK_BBG \in Tasks
        /\ DEFS_TASK_LOG \in Tasks \ {DEFS_TASK_BBG} /\ LogKinds \subseteq Msg
        /\ queues \in [Tasks -> Seq(Msg)]
    BY DEF LogInv, Kinds, Tasks, DEFS_TASK_BBG, DEFS_TASK_LOG, LogKinds, OrderInv,
         TypeOK, QueuesOK
  <1>2. /\ queues' \in [Tasks -> Seq(LogKinds)]
        /\ queues'[DEFS_TASK_BBG] = Append(queues[DEFS_TASK_BBG], m)
        /\ queues'[DEFS_TASK_LOG] = queues[DEFS_TASK_LOG]
    BY <1>1, SendKinds
  <1>3. /\ Single(Append(queues[DEFS_TASK_BBG], m))
        /\ Holds(Append(queues[DEFS_TASK_BBG], m)) <=> Holds(queues[DEFS_TASK_BBG])
    <2>1. queues[DEFS_TASK_BBG] \in Seq(Msg) /\ m \in Msg /\ Single(queues[DEFS_TASK_BBG])
      BY <1>1 DEF LogInv, Singles
    <2> QED BY <2>1, HoldsAppend
  <1>4. /\ AtMain' <=> AtMain
        /\ AtLog' = AtLog /\ WithMain' = WithMain /\ WithLog' = WithLog
        /\ Opened' = Opened
    BY <1>2, <1>3 DEF AtMain, AtLog, WithMain, WithLog, Opened
  <1>5. Alone'
    BY <1>4, Zenon DEF LogInv, Alone
  <1>6. Kinds'
    BY <1>2 DEF LogInv, Kinds
  <1>7. Singles'
    BY <1>2, <1>3 DEF LogInv, Singles
  <1> QED BY <1>5, <1>6, <1>7

(* Every step keeps the log complete and in order. *)
LEMMA LogInductive ==
  ASSUME PeerMayClose = FALSE, MaxRestarts = 0,
         \A m \in PeerMsgs : m.to = DEFS_TASK_LOG => m.cmd = LOG_LOG
  PROVE  LogInv /\ [Next]_vars => LogInv'
  <1> SUFFICES ASSUME LogInv, [Next]_vars PROVE LogInv'
    OBVIOUS
  <1>a. /\ OrderInv' /\ OrderInv /\ TypeOK /\ InOrder /\ HeldBriefly /\ StaysConnected
        /\ Kinds /\ Alone /\ Singles /\ Logging
    BY OrderInductive DEF LogInv, OrderInv
  <1>b. /\ QueuesOK /\ pc \in Labels /\ wire \in Seq(Msg) /\ wire \in Seq(PeerKinds)
        /\ main_rx \in LogKinds /\ socket_msg \in PeerKinds /\ log_rx \in LogKinds
        /\ queues \in [Tasks -> Seq(Msg)] /\ queues \in [Tasks -> Seq(LogKinds)]
        /\ taken \in [Tasks -> SUBSET Nat] /\ disk \in [Paths -> SUBSET Nat]
        /\ restarts \in Nat /\ sent \in Nat
        /\ (pc["main"] = "route" => main_rx.to \in OtherTasks)
    BY <1>a DEF TypeOK, ThreadsOK, NetworkOK, ProcessOK, LogOK, QueuesOK, Kinds
  <1>c. /\ DEFS_TASK_BBG \in Tasks /\ DEFS_TASK_SPEAK \in Tasks
        /\ DEFS_TASK_LOG \in Tasks /\ DEFS_TASK_SPEAK # DEFS_TASK_BBG
        /\ DEFS_TASK_LOG # DEFS_TASK_BBG /\ DEFS_TASK_LOG # DEFS_TASK_SPEAK
        /\ OtherTasks = {DEFS_TASK_SPEAK, DEFS_TASK_LOG}
    BY DEF OtherTasks, Tasks, DEFS_TASK_BBG, DEFS_TASK_SPEAK, DEFS_TASK_LOG
  <1>k. /\ ZeroMsg \in PeerKinds /\ ~Opens(ZeroMsg) /\ PeerKinds \subseteq LogKinds
        /\ LogKinds \subseteq Msg /\ (\A m \in PeerKinds : ~Opens(m))
        /\ \A f \in Tasks : LogMsg(f) \in LogKinds /\ ~Opens(LogMsg(f))
        /\ \A l \in Starting : StartMsg[l] \in LogKinds
        /\ \A l \in Starting : l # "log_init" => ~Opens(StartMsg[l])
        /\ \A m \in PeerMsgs, n \in Nat : [m EXCEPT !.id = n] \in PeerKinds
    BY KindFacts
  <1>e. ~SigPipe /\ ~Kill /\ ~Restart /\ ~PeerClose
    BY <1>a, <1>b DEF SigPipe, Kill, Restart, PeerClose, StaysConnected
  <1>r. ASSUME NEW t \in Tasks, MqReceive(t)
        PROVE  /\ queues' \in [Tasks -> Seq(LogKinds)]
               /\ Head(queues[t]) \in LogKinds
               /\ queues[t] # <<>> /\ queues'[t] = Tail(queues[t])
               /\ \A u \in Tasks \ {t} : queues'[u] = queues[u]
    BY <1>b, <1>r, ReceiveKinds
  <1>h. ASSUME NEW t \in Tasks, MqReceive(t), Single(queues[t])
        PROVE  /\ Holds(queues[t]) <=> (Holds(Tail(queues[t])) \/ Opens(Head(queues[t])))
               /\ ~(Holds(Tail(queues[t])) /\ Opens(Head(queues[t])))
               /\ Single(Tail(queues[t]))
    <2>1. queues[t] \in Seq(Msg) /\ queues[t] # <<>>
      BY <1>b, <1>h DEF MqReceive
    <2> QED BY <1>h, <2>1, HoldsTail
  <1> USE DEF netVars, logVars, progVars
  <1>s. ASSUME UNCHANGED <<queues, main_rx, log_rx, wire, socket_msg, log_file, disk,
                           unlogged, taken>>,
               pc'["main"] = "log_init" <=> pc["main"] = "log_init",
               pc'["log"] = "handle" <=> pc["log"] = "handle"
        PROVE  LogInv'
    <2>1. Logging' /\ WithLog' = WithLog /\ Opened' = Opened
      BY <1>a, <1>s, SameLogging
    <2>2. /\ Kinds' /\ Singles' /\ AtMain' = AtMain /\ AtLog' = AtLog
          /\ WithMain' = WithMain /\ Unsent' = Unsent
      BY <1>a, <1>s DEF Kinds, Singles, AtMain, AtLog, WithMain, Unsent
    <2>3. Alone'
      BY <1>a, <2>1, <2>2, Zenon DEF Alone
    <2> QED BY <1>a, <2>1, <2>2, <2>3 DEF LogInv
  <1>1. CASE MainStart
    <2>1. /\ MqSend(DEFS_TASK_BBG, StartMsg[pc["main"]])
          /\ StartMsg[pc["main"]] \in LogKinds
          /\ UNCHANGED <<main_rx, log_rx, wire, socket_msg, log_file, disk, unlogged,
                         taken>>
          /\ pc'["log"] = pc["log"] /\ pc'["main"] # "log_init"
      BY <1>1, <1>b, <1>k DEF MainStart, msg_send, Goto, Labels, Starting, AfterStart
    <2>2. Logging' /\ WithLog' = WithLog /\ Opened' = Opened
      BY <1>a, <2>1, SameLogging
    <2>3. CASE pc["main"] # "log_init"
      <3>1. Unsent' = Unsent /\ ~Opens(StartMsg[pc["main"]])
        BY <1>1, <1>k, <2>1, <2>3 DEF Unsent, MainStart
      <3>2. Kinds' /\ Alone' /\ Singles'
        BY <2>1, <3>1, SendStaysAlone
      <3> QED BY <1>a, <2>2, <3>2 DEF LogInv
    <2>4. CASE pc["main"] = "log_init"
      <3> DEFINE m == StartMsg[pc["main"]]
      <3>1. Unsent /\ ~Unsent' /\ ~Holds(queues[DEFS_TASK_BBG])
        BY <1>a, <2>1, <2>4 DEF Alone, Unsent, AtMain
      <3>2. /\ queues' \in [Tasks -> Seq(LogKinds)]
            /\ queues'[DEFS_TASK_BBG] = Append(queues[DEFS_TASK_BBG], m)
            /\ queues'[DEFS_TASK_LOG] = queues[DEFS_TASK_LOG]
        BY <1>b, <1>c, <2>1, SendKinds
      <3>3. Single(queues'[DEFS_TASK_BBG])
        <4>1. /\ queues[DEFS_TASK_BBG] \in Seq(Msg) /\ m \in Msg
              /\ Single(queues[DEFS_TASK_BBG])
          BY <1>a, <1>b, <1>c, <1>k, <2>1 DEF Singles
        <4> HIDE DEF m
        <4> QED BY <3>1, <3>2, <4>1, HoldsAppend
      <3>4. AtLog' = AtLog /\ WithMain' = WithMain
        BY <2>1, <3>2 DEF AtLog, WithMain
      <3>5. Alone'
        BY <1>a, <2>2, <3>1, <3>4, Zenon DEF Alone
      <3>6. Kinds' /\ Singles'
        BY <1>a, <2>1, <3>2, <3>3 DEF Kinds, Singles
      <3> QED BY <1>a, <2>2, <3>5, <3>6 DEF LogInv
    <2> QED BY <2>3, <2>4
  <1>2. CASE MainRecv
    <2> DEFINE m == Head(queues[DEFS_TASK_BBG])
    <2>1. /\ MqReceive(DEFS_TASK_BBG) /\ main_rx = ZeroMsg
          /\ UNCHANGED <<log_rx, wire, socket_msg, log_file, disk, unlogged>>
          /\ pc'["log"] = pc["log"] /\ pc["main"] # "log_init"
          /\ pc'["main"] # "log_init"
      BY <1>2, <1>a, <1>b DEF MainRecv, Goto, Labels, HeldBriefly
    <2>2. taken'[DEFS_TASK_LOG] = taken[DEFS_TASK_LOG]
      BY <1>2, <1>b, <1>c DEF MainRecv, Received
    <2>3. Logging' /\ WithLog' = WithLog /\ Opened' = Opened
      BY <1>a, <2>1, <2>2, SameLogging
    <2>4. main_rx' = m \/ (main_rx' = ZeroMsg /\ ~Opens(m))
      BY <1>2, <1>c, <2>1 DEF MainRecv, Opens
    <2>5. /\ queues' \in [Tasks -> Seq(LogKinds)] /\ m \in LogKinds
          /\ queues'[DEFS_TASK_BBG] = Tail(queues[DEFS_TASK_BBG])
          /\ queues'[DEFS_TASK_LOG] = queues[DEFS_TASK_LOG]
      BY <1>c, <1>r, <2>1
    <2>6. /\ Holds(queues[DEFS_TASK_BBG]) <=> (Holds(Tail(queues[DEFS_TASK_BBG])) \/ Opens(m))
          /\ ~(Holds(Tail(queues[DEFS_TASK_BBG])) /\ Opens(m))
          /\ Single(Tail(queues[DEFS_TASK_BBG]))
      BY <1>a, <1>c, <1>h, <2>1 DEF Singles
    <2> HIDE DEF m
    <2>7. /\ AtMain <=> (AtMain' \/ WithMain')
          /\ ~(AtMain' /\ WithMain')
          /\ AtLog' = AtLog /\ ~Unsent'
      BY <1>k, <2>1, <2>4, <2>5, <2>6 DEF AtMain, WithMain, AtLog, Unsent
    <2>8. Alone'
      BY <1>a, <2>3, <2>7, Zenon DEF Alone
    <2>9. Kinds' /\ Singles'
      BY <1>a, <1>k, <2>1, <2>4, <2>5, <2>6 DEF Kinds, Singles
    <2> QED BY <1>a, <2>3, <2>8, <2>9 DEF LogInv
  <1>3. CASE msg_route
    <2>1. /\ MqSend(main_rx.to, main_rx) /\ main_rx.to \in OtherTasks
          /\ main_rx.to \in Tasks /\ main_rx' = ZeroMsg
          /\ UNCHANGED <<log_rx, wire, socket_msg, log_file, disk, unlogged, taken>>
          /\ pc'["log"] = pc["log"] /\ pc["main"] # "log_init"
          /\ pc'["main"] # "log_init"
      BY <1>3, <1>b, <1>c DEF msg_route, Goto, Labels
    <2>2. Logging' /\ WithLog' = WithLog /\ Opened' = Opened
      BY <1>a, <2>1, SameLogging
    <2>3. /\ queues' \in [Tasks -> Seq(LogKinds)]
          /\ queues'[main_rx.to] = Append(queues[main_rx.to], main_rx)
          /\ \A u \in Tasks \ {main_rx.to} : queues'[u] = queues[u]
      BY <1>b, <2>1, SendKinds
    <2>4. /\ ~Unsent' /\ ~WithMain' /\ AtMain' = AtMain
          /\ queues'[DEFS_TASK_BBG] = queues[DEFS_TASK_BBG]
      BY <1>c, <1>k, <2>1, <2>3 DEF Unsent, WithMain, AtMain
    <2>5. /\ AtLog' <=> (AtLog \/ WithMain)
          /\ Single(queues'[DEFS_TASK_LOG])
      <3>1. CASE main_rx.to = DEFS_TASK_LOG
        <4>1. /\ queues[DEFS_TASK_LOG] \in Seq(Msg) /\ main_rx \in Msg
              /\ Single(queues[DEFS_TASK_LOG])
              /\ (Opens(main_rx) => ~Holds(queues[DEFS_TASK_LOG]))
          BY <1>a, <1>b, <1>c, <1>k DEF Singles, Alone, AtLog, WithMain
        <4>2. /\ Holds(Append(queues[DEFS_TASK_LOG], main_rx))
                   <=> (Holds(queues[DEFS_TASK_LOG]) \/ Opens(main_rx))
              /\ Single(Append(queues[DEFS_TASK_LOG], main_rx))
          BY <4>1, HoldsAppend
        <4> QED BY <2>3, <3>1, <4>2 DEF AtLog, WithMain
      <3>2. CASE main_rx.to # DEFS_TASK_LOG
        <4>1. ~Opens(main_rx) /\ queues'[DEFS_TASK_LOG] = queues[DEFS_TASK_LOG]
          BY <1>c, <2>3, <3>2 DEF Opens
        <4> QED BY <1>a, <4>1 DEF AtLog, WithMain, Singles
      <3> QED BY <3>1, <3>2
    <2>6. Alone'
      BY <1>a, <2>2, <2>4, <2>5, Zenon DEF Alone
    <2>7. Kinds' /\ Singles'
      BY <1>a, <1>k, <2>1, <2>3, <2>4, <2>5 DEF Kinds, Singles
    <2> QED BY <1>a, <2>2, <2>6, <2>7 DEF LogInv
  <1>4. CASE MainWrite
    <2>1. /\ UNCHANGED <<queues, log_rx, wire, socket_msg, log_file, disk, unlogged,
                         taken>>
          /\ main_rx' = ZeroMsg /\ pc'["log"] = pc["log"]
          /\ pc["main"] # "log_init" /\ pc'["main"] # "log_init"
      BY <1>4, <1>b DEF MainWrite, Goto, Labels
    <2>2. Logging' /\ WithLog' = WithLog /\ Opened' = Opened
      BY <1>a, <2>1, SameLogging
    <2>3. /\ ~Unsent' /\ ~WithMain' /\ AtMain' = AtMain /\ AtLog' = AtLog
      BY <1>k, <2>1 DEF Unsent, WithMain, AtMain, AtLog
    <2>4. Alone'
      BY <1>a, <2>2, <2>3, Zenon DEF Alone
    <2>5. Kinds' /\ Singles'
      BY <1>a, <1>k, <2>1 DEF Kinds, Singles
    <2> QED BY <1>a, <2>2, <2>4, <2>5 DEF LogInv
  <1>5. CASE LogRecv
    <2> DEFINE m == Head(queues[DEFS_TASK_LOG])
    <2>1. /\ MqReceive(DEFS_TASK_LOG) /\ log_rx' = m /\ Received(DEFS_TASK_LOG, m)
          /\ UNCHANGED <<main_rx, wire, socket_msg, log_file, disk, unlogged>>
          /\ pc["log"] = "recv" /\ pc'["log"] = "handle" /\ pc'["main"] = pc["main"]
      BY <1>5, <1>b DEF LogRecv, Goto, Labels
    <2>2. /\ queues' \in [Tasks -> Seq(LogKinds)] /\ m \in LogKinds
          /\ queues'[DEFS_TASK_LOG] = Tail(queues[DEFS_TASK_LOG])
          /\ queues'[DEFS_TASK_BBG] = queues[DEFS_TASK_BBG]
      BY <1>c, <1>r, <2>1
    <2>3. /\ Holds(queues[DEFS_TASK_LOG]) <=> (Holds(Tail(queues[DEFS_TASK_LOG])) \/ Opens(m))
          /\ ~(Holds(Tail(queues[DEFS_TASK_LOG])) /\ Opens(m))
          /\ Single(Tail(queues[DEFS_TASK_LOG]))
      BY <1>a, <1>c, <1>h, <2>1 DEF Singles
    <2>4. m.to = DEFS_TASK_LOG /\ m.id \in Nat
      BY <1>b, <1>c, <2>1, ReceiveKeepsQueues DEF Msg
    <2>5. {m.id} \ {0} \subseteq Ids(queues[DEFS_TASK_LOG])
      BY <1>a, <1>b, <1>c, <2>1, ReceiveMoves
    <2> HIDE DEF m
    <2>6. /\ AtLog <=> (AtLog' \/ WithLog')
          /\ ~(AtLog' /\ WithLog')
          /\ AtMain' = AtMain /\ WithMain' = WithMain /\ Unsent' = Unsent
          /\ Opened' = Opened
      BY <2>1, <2>2, <2>3 DEF AtLog, WithLog, AtMain, WithMain, Unsent, Opened
    <2>7. Alone'
      BY <1>a, <2>6, Zenon DEF Alone
    <2>8. Kinds' /\ Singles'
      BY <1>a, <2>1, <2>2, <2>3 DEF Kinds, Singles
    <2>9. Logging'
      <3>1. log_rx.id = 0
        BY <1>a, <2>1 DEF Logging, ZeroMsg
      <3>2. taken[DEFS_TASK_LOG] = Logged
        BY <1>a, <3>1 DEF Logging, LogComplete, Logged
      <3>3. taken'[DEFS_TASK_LOG] = taken[DEFS_TASK_LOG] \cup ({m.id} \ {0})
        BY <1>b, <1>c, <2>1 DEF Received
      <3>4. LogComplete'
        <4>1. taken'[DEFS_TASK_LOG] = (disk[LogPath] \cup unlogged \cup {m.id}) \ {0}
          BY <3>2, <3>3 DEF Logged
        <4> QED BY <1>a, <2>1, <4>1 DEF Logging, LogComplete
      <3>5. Before(Logged, {m.id} \ {0})
        BY <1>a, <1>c, <2>5, <3>2 DEF InOrder, Before
      <3>6. Logged' = Logged
        BY <2>1 DEF Logged
      <3> QED BY <1>a, <2>1, <2>4, <3>4, <3>5, <3>6 DEF Logging
    <2> QED BY <1>a, <2>7, <2>8, <2>9 DEF LogInv
  <1>6. CASE LogHandle
    <2>1. /\ pc["log"] = "handle" /\ log_rx' = ZeroMsg
          /\ UNCHANGED <<queues, main_rx, wire, socket_msg, taken>>
          /\ log_rx.to = DEFS_TASK_LOG /\ Before(Logged, {log_rx.id} \ {0})
      BY <1>6, <1>a DEF LogHandle, Logging
    <2>2. /\ log_rx.id \in Nat /\ LogPath \in Paths /\ LogPath # NoFile
          /\ ZeroMsg.id = 0
      BY <1>b, <1>k, PathAssumption DEF Msg, ZeroMsg
    <2>3. \E l \in {"recv", "send", "dead"} : Goto("log", l)
      BY <1>6 DEF LogHandle, log_init, log_log, log_setpath, log_kill
    <2>4. pc'["main"] = pc["main"] /\ pc'["log"] # "handle"
      BY <1>b, <2>3 DEF Goto, Labels
    <2>5. /\ Kinds' /\ Singles' /\ AtMain' = AtMain /\ AtLog' = AtLog
          /\ WithMain' = WithMain /\ Unsent' = Unsent /\ ~WithLog'
      BY <1>a, <1>k, <2>1, <2>4
      DEF Kinds, Singles, AtMain, AtLog, WithMain, Unsent, WithLog
    <2>6. CASE log_rx.cmd = LOG_INIT
      <3>1. WithLog /\ log_rx.flag = 1 /\ log_rx.path = LogPath /\ log_rx.id = 0
        BY <1>b, <2>1, <2>6 DEF WithLog, Opens, LogKinds, LOG_INIT, LOG_LOG
      <3>2. ~Opened /\ log_file = NoFile /\ disk[LogPath] = {}
        BY <1>a, <3>1 DEF Alone, Opened, Logging
      <3>3. log_init(log_rx)
        BY <1>6, <2>6 DEF LogHandle, LOG_INIT, LOG_LOG, LOG_SETPATH, LOG_KILL
      <3>4. /\ log_file' \in {NoFile, LogPath} /\ disk'[LogPath] = {}
            /\ unlogged' = unlogged
        BY <1>b, <2>2, <3>1, <3>2, <3>3 DEF log_init, Fopen
      <3>5. Alone'
        BY <1>a, <2>5, <3>1, Zenon DEF Alone
      <3>6. LogComplete'
        BY <1>a, <2>1, <2>2, <3>1, <3>2, <3>4 DEF LogComplete, Logging
      <3>7. Logging'
        BY <2>1, <2>4, <3>4, <3>6 DEF Logging
      <3> QED BY <1>a, <2>5, <3>5, <3>7 DEF LogInv
    <2>7. CASE log_rx.cmd # LOG_INIT
      <3>1. log_rx.cmd = LOG_LOG
        BY <1>b, <2>1, <2>7 DEF LogKinds
      <3>2. log_log(log_rx)
        BY <1>6, <3>1 DEF LogHandle, LOG_INIT, LOG_LOG, LOG_SETPATH, LOG_KILL
      <3>3. log_file' = log_file /\ Opened' = Opened
        BY <3>2 DEF log_log, Opened
      <3>4. Alone'
        BY <1>a, <2>5, <3>3, Zenon DEF Alone
      <3>5. CASE log_file = NoFile
        <4>1. /\ unlogged' = unlogged \cup {log_rx.id} /\ disk' = disk
              /\ disk[LogPath] = {}
          BY <1>a, <3>2, <3>5 DEF log_log, Logging
        <4>2. taken'[DEFS_TASK_LOG]
                = (disk'[LogPath] \cup unlogged' \cup {log_rx'.id}) \ {0}
          BY <1>a, <2>1, <2>2, <4>1 DEF Logging, LogComplete
        <4>3. Before(unlogged' \ {0}, disk'[LogPath] \ {0})
          BY <4>1 DEF Before
        <4> QED BY <1>a, <2>1, <2>4, <2>5, <3>3, <3>4, <3>5, <4>1, <4>2, <4>3
             DEF LogInv, Logging, LogComplete
      <3>6. CASE log_file # NoFile
        <4>1. /\ log_file = LogPath /\ unlogged' = unlogged
              /\ disk'[LogPath] = disk[LogPath] \cup {log_rx.id}
          BY <1>a, <1>b, <2>2, <3>2, <3>6 DEF log_log, Logging
        <4>2. taken'[DEFS_TASK_LOG]
                = (disk'[LogPath] \cup unlogged' \cup {log_rx'.id}) \ {0}
          BY <1>a, <2>1, <2>2, <4>1 DEF Logging, LogComplete
        <4>3. Before(unlogged' \ {0}, disk'[LogPath] \ {0})
          BY <1>a, <2>1, <4>1 DEF Before, Logged, Logging, LogComplete
        <4> QED BY <1>a, <2>1, <2>4, <2>5, <3>3, <3>4, <3>6, <4>1, <4>2, <4>3
             DEF LogInv, Logging, LogComplete
      <3> QED BY <3>5, <3>6
    <2> QED BY <2>6, <2>7
  <1>7. CASE LogSend
    <2>1. /\ MqSend(DEFS_TASK_BBG, LogMsg(DEFS_TASK_LOG))
          /\ UNCHANGED <<main_rx, log_rx, wire, socket_msg, log_file, disk, unlogged,
                         taken>>
          /\ pc["log"] # "handle" /\ pc'["log"] # "handle" /\ pc'["main"] = pc["main"]
      BY <1>7, <1>b DEF LogSend, msg_send, Goto, Labels
    <2>2. Kinds' /\ Alone' /\ Singles'
      BY <1>c, <1>k, <2>1, SendStaysAlone DEF Unsent
    <2>3. Logging'
      BY <1>a, <2>1, SameLogging
    <2> QED BY <1>a, <2>2, <2>3 DEF LogInv
  <1>8. CASE SpeakRecv
    <2>1. /\ MqReceive(DEFS_TASK_SPEAK)
          /\ UNCHANGED <<main_rx, log_rx, wire, socket_msg, log_file, disk, unlogged>>
          /\ pc'["log"] = pc["log"] /\ pc'["main"] = pc["main"]
      BY <1>8, <1>b DEF SpeakRecv, Goto, Labels
    <2>2. taken'[DEFS_TASK_LOG] = taken[DEFS_TASK_LOG]
      BY <1>8, <1>b, <1>c DEF SpeakRecv, Received
    <2>3. Logging' /\ WithLog' = WithLog /\ Opened' = Opened
      BY <1>a, <2>1, <2>2, SameLogging
    <2>4. /\ queues' \in [Tasks -> Seq(LogKinds)]
          /\ queues'[DEFS_TASK_LOG] = queues[DEFS_TASK_LOG]
          /\ queues'[DEFS_TASK_BBG] = queues[DEFS_TASK_BBG]
      BY <1>c, <1>r, <2>1
    <2>5. /\ AtMain' = AtMain /\ AtLog' = AtLog /\ WithMain' = WithMain
          /\ Unsent' = Unsent
      BY <2>1, <2>4 DEF AtMain, AtLog, WithMain, Unsent
    <2>6. Alone'
      BY <1>a, <2>3, <2>5, Zenon DEF Alone
    <2>7. Kinds' /\ Singles'
      BY <1>a, <2>1, <2>4 DEF Kinds, Singles
    <2> QED BY <1>a, <2>3, <2>6, <2>7 DEF LogInv
  <1>9. CASE SpeakSend
    <2>1. /\ MqSend(DEFS_TASK_BBG, LogMsg(DEFS_TASK_SPEAK))
          /\ UNCHANGED <<main_rx, log_rx, wire, socket_msg, log_file, disk, unlogged,
                         taken>>
          /\ pc'["log"] = pc["log"] /\ pc'["main"] = pc["main"]
      BY <1>9, <1>b DEF SpeakSend, msg_send, Goto, Labels
    <2>2. Kinds' /\ Alone' /\ Singles'
      BY <1>c, <1>k, <2>1, SendStaysAlone DEF Unsent
    <2>3. Logging'
      BY <1>a, <2>1, SameLogging
    <2> QED BY <1>a, <2>2, <2>3 DEF LogInv
  <1>10. CASE SpeakPlayed \/ SockAccept
    <2>1. /\ UNCHANGED <<queues, main_rx, log_rx, wire, socket_msg, log_file, disk,
                         unlogged, taken>>
          /\ pc'["log"] = pc["log"] /\ pc'["main"] = pc["main"]
      BY <1>10, <1>b DEF SpeakPlayed, SockAccept, Goto, Labels
    <2> QED BY <1>s, <2>1
  <1>11. CASE SockRead
    <2>1. /\ wire # <<>> /\ socket_msg' = Head(wire) /\ wire' = Tail(wire)
          /\ UNCHANGED <<queues, main_rx, log_rx, log_file, disk, unlogged, taken>>
          /\ pc'["log"] = pc["log"] /\ pc'["main"] = pc["main"]
      BY <1>11, <1>a, <1>b DEF SockRead, StaysConnected, Goto, Labels
    <2>2. Logging' /\ WithLog' = WithLog /\ Opened' = Opened
      BY <1>a, <2>1, SameLogging
    <2>3. wire' \in Seq(PeerKinds) /\ socket_msg' \in PeerKinds
      BY <1>b, <2>1, TailFacts
    <2>4. /\ AtMain' = AtMain /\ AtLog' = AtLog /\ WithMain' = WithMain
          /\ Unsent' = Unsent
      BY <2>1 DEF AtMain, AtLog, WithMain, Unsent
    <2>5. Alone'
      BY <1>a, <2>2, <2>4, Zenon DEF Alone
    <2>6. Kinds' /\ Singles'
      BY <1>a, <2>1, <2>3 DEF Kinds, Singles
    <2> QED BY <1>a, <2>2, <2>5, <2>6 DEF LogInv
  <1>12. CASE SockSend
    <2>1. /\ MqSend(DEFS_TASK_BBG, socket_msg)
          /\ UNCHANGED <<main_rx, log_rx, wire, socket_msg, log_file, disk, unlogged,
                         taken>>
          /\ pc'["log"] = pc["log"] /\ pc'["main"] = pc["main"]
      BY <1>12, <1>b DEF SockSend, msg_send, Goto, Labels
    <2>2. Kinds' /\ Alone' /\ Singles'
      BY <1>b, <1>k, <2>1, SendStaysAlone DEF Unsent
    <2>3. Logging'
      BY <1>a, <2>1, SameLogging
    <2> QED BY <1>a, <2>2, <2>3 DEF LogInv
  <1>13. CASE PeerConnect
    <2>1. /\ UNCHANGED <<queues, main_rx, log_rx, wire, socket_msg, log_file, disk,
                         unlogged, taken, pc>>
      BY <1>13 DEF PeerConnect
    <2> QED BY <1>s, <2>1
  <1>14. CASE PeerSend
    <2>1. PICK m \in PeerMsgs : wire' = Append(wire, [m EXCEPT !.id = sent + 1])
      BY <1>14 DEF PeerSend
    <2>2. [m EXCEPT !.id = sent + 1] \in PeerKinds
      <3>1. sent + 1 \in Nat
        BY <1>b
      <3> QED BY <1>k, <3>1
    <2>3. wire' \in Seq(PeerKinds)
      BY <1>b, <2>1, <2>2, AppendFacts
    <2>4. UNCHANGED <<queues, main_rx, log_rx, socket_msg, log_file, disk, unlogged,
                      taken, pc>>
      BY <1>14 DEF PeerSend
    <2>5. Logging' /\ WithLog' = WithLog /\ Opened' = Opened
      BY <1>a, <2>4, SameLogging
    <2>6. /\ AtMain' = AtMain /\ AtLog' = AtLog /\ WithMain' = WithMain
          /\ Unsent' = Unsent
      BY <2>4 DEF AtMain, AtLog, WithMain, Unsent
    <2>7. Alone'
      BY <1>a, <2>5, <2>6, Zenon DEF Alone
    <2>8. Kinds' /\ Singles'
      BY <1>a, <2>3, <2>4 DEF Kinds, Singles
    <2> QED BY <1>a, <2>5, <2>7, <2>8 DEF LogInv
  <1>15. CASE UNCHANGED vars
    <2>1. UNCHANGED <<queues, main_rx, log_rx, wire, socket_msg, log_file, disk,
                      unlogged, taken, pc>>
      BY <1>15 DEF vars
    <2> QED BY <1>s, <2>1
  <1> QED BY <1>1, <1>2, <1>3, <1>4, <1>5, <1>6, <1>7, <1>8, <1>9, <1>10, <1>11,
             <1>12, <1>13, <1>14, <1>15, <1>e
          DEF Next, MainNext, LogNext, SpeakNext, SockNext, PeerNext

(* When the peer sends the logger nothing but lines, every line that was   *)
(* handed to it is in the file, was given up or is being written, and only *)
(* the first lines were given up: main's opening of the file, which may be *)
(* overtaken by lines of the peer, erases none.                            *)
THEOREM LogCorrect ==
  ASSUME PeerMayClose = FALSE, MaxRestarts = 0,
         \A m \in PeerMsgs : m.to = DEFS_TASK_LOG => m.cmd = LOG_LOG
  PROVE  Spec => []LogComplete
  <1>1. Init => LogInv
    <2> SUFFICES ASSUME Init PROVE LogInv
      OBVIOUS
    <2>1. OrderInv
      BY OrderInit
    <2>2. ZeroMsg \in PeerKinds /\ ~Opens(ZeroMsg) /\ PeerKinds \subseteq LogKinds
      BY KindFacts
    <2>3. Kinds
      BY <2>2 DEF Init, Kinds
    <2>4. ~AtMain /\ ~WithMain /\ ~AtLog /\ ~WithLog /\ ~Opened /\ Singles
      BY <2>2 DEF Init, AtMain, WithMain, AtLog, WithLog, Opened, Singles, Holds,
           Single, Tasks
    <2>5. Alone
      BY <2>4 DEF Alone
    <2>6. Logging
      BY PathAssumption
      DEF Init, Logging, LogComplete, Before, Fresh, ZeroMsg, Tasks
    <2> QED BY <2>1, <2>3, <2>4, <2>5, <2>6 DEF LogInv
  <1>2. LogInv /\ [Next]_vars => LogInv'
    BY LogInductive
  <1>3. LogInv => LogComplete
    BY DEF LogInv, Logging
  <1> QED BY <1>1, <1>2, <1>3, PTL DEF Spec
=============================================================================
