------------------------------ MODULE MCTiva ------------------------------
(* Small instances of the TIVA board for TLC. *)
EXTENDS TivaProps

(* The first ends temp_task, the others stay in its queue until it is full. *)
Kill == {Message(0, DEFS_ID_TIVA, DEFS_TASK_TEMP, TEMP_KILL)}
=============================================================================
