------------------------------- MODULE MCBbg -------------------------------
(* Small instances of the BeagleBone process for TLC. *)
EXTENDS BbgProps

From(f, t, c, d, p) == [from |-> f, devt |-> DEFS_ID_BBG, to |-> t, cmd |-> c,
                        flag |-> d, path |-> p, id |-> 0]

(* What the TIVA's temperature task sends. *)
ALine == From(1, DEFS_TASK_LOG, LOG_LOG, 1, "log")
ASentence == From(1, DEFS_TASK_SPEAK, SPEAK_SPEAK, 84, "log")
TivaMsgs == {ALine, ASentence}

(* Messages that make their task send one itself. *)
Inits == {From(0, DEFS_TASK_LOG, LOG_INIT, 0, "log"),
          From(0, DEFS_TASK_SPEAK, SPEAK_INIT, 0, "log")}
(* A line, and what else the tasks obey. *)
Commands == {ALine,
  From(0, DEFS_TASK_LOG, LOG_SETPATH, 111, "other"),
  From(0, DEFS_TASK_LOG, LOG_KILL, 0, "log"),
  From(0, DEFS_TASK_SPEAK, LOG_KILL, 0, "log"),
  From(2, DEFS_TASK_BBG, BBG_HEARTBEAT, 0, "log")}
KillSpeak == {From(0, DEFS_TASK_SPEAK, SPEAK_KILL, 0, "log")}
Lines == {ALine}
=============================================================================
