---------------------------- MODULE FrameQueue ----------------------------
(***************************************************************************)
(* What the receive side of the Ethernet driver promises to the IP task: a *)
(* queue of at most Capacity frames; they are taken in the order in which  *)
(* they arrived, one at a time, and each one taken is handed over at most  *)
(* once, before the next is taken.                                         *)
(***************************************************************************)
EXTENDS Naturals, Sequences

CONSTANT Capacity

VARIABLES
  came, took,           \* frames that arrived, frames taken, so far
  holding,              \* the last frame taken is not handed over yet
  given                 \* the numbers of the frames handed over

queueVars == <<came, took, holding, given>>

QueueInit == came = 0 /\ took = 0 /\ holding = FALSE /\ given = <<>>

Come ==
  /\ came - took < Capacity
  /\ came' = came + 1
  /\ UNCHANGED <<took, holding, given>>

Take ==
  /\ ~holding /\ took < came
  /\ took' = took + 1 /\ holding' = TRUE
  /\ UNCHANGED <<came, given>>

Give ==
  /\ holding
  /\ holding' = FALSE
  /\ given' \in {Append(given, took), given}
  /\ UNCHANGED <<came, took>>

QueueNext == Come \/ Take \/ Give

QueueSpec == QueueInit /\ [][QueueNext]_queueVars
=============================================================================
