------------------------------- MODULE MsgBus -------------------------------
(***************************************************************************)
(* What the message system of the BeagleBone promises to the tasks behind  *)
(* it, without its queues and threads: messages are numbered in the order  *)
(* in which the other board sent them; each task is handed its own         *)
(* messages in that order, each at most once, and a message disappears     *)
(* without being handed over only when the process dies.                   *)
(***************************************************************************)
EXTENDS Naturals

CONSTANT Tasks          \* the tasks of the board

VARIABLES
  posted,               \* number of messages sent to the board so far
  pending,              \* per task, the numbers on their way to it
  handed,               \* per task, the numbers it was handed
  deaths                \* how often the process has died

busVars == <<posted, pending, handed, deaths>>

BusInit ==
  /\ posted = 0
  /\ pending = [t \in Tasks |-> {}]
  /\ handed = [t \in Tasks |-> {}]
  /\ deaths = 0

(* The other board sends the next message, for task t. *)
Post(t) ==
  /\ posted' = posted + 1
  /\ pending' = [pending EXCEPT ![t] = @ \cup {posted + 1}]
  /\ UNCHANGED <<handed, deaths>>

(* Task t is handed the oldest message that is on its way to it. *)
Hand(t, n) ==
  /\ n \in pending[t]
  /\ \A m \in pending[t] : n <= m
  /\ pending' = [pending EXCEPT ![t] = @ \ {n}]
  /\ handed' = [handed EXCEPT ![t] = @ \cup {n}]
  /\ UNCHANGED <<posted, deaths>>

(* The process dies: messages may be lost, none appears or changes hands. *)
Die ==
  /\ deaths' = deaths + 1
  /\ pending' \in [Tasks -> SUBSET (1..posted)]
  /\ \A t \in Tasks : pending'[t] \subseteq pending[t]
  /\ UNCHANGED <<posted, handed>>

BusNext ==
  \/ \E t \in Tasks : Post(t)
  \/ \E t \in Tasks : \E n \in pending[t] : Hand(t, n)
  \/ Die

BusSpec == BusInit /\ [][BusNext]_busVars
=============================================================================
