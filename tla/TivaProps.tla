----------------------------- MODULE TivaProps -----------------------------
(***************************************************************************)
(* What is claimed of the TIVA board: see README.md, "Properties".         *)
(***************************************************************************)
EXTENDS Tiva

(* Nobody waits for room in the timer task's queue, which nobody reads     *)
(* while that task itself waits in temp_read for main_task to make room.   *)
NeverWaitsForTimer ==
  pc["main"] \in {"start_temp", "start_gas", "reset"} \/ pc["temp"] = "start"
    => CommandRoom

(* The assertions of the timer task hold: a timer that is late by a whole  *)
(* period finds room for its own restart; and it is never the one of       *)
(* temp_read, whose callback is not called in the middle of the commands.  *)
ReloadsFit ==
  /\ pc["timer"] = "select" /\ (\E t \in Timers : Expired(t) /\ due[t] + Period(t) <= 0)
       => CommandRoom
  /\ due["read"] + TEMP_PER > 0
  /\ \A i \in DOMAIN commands : commands[i].timer = "read" => commands[i].left > 0

(* A reading is given up only if main_task took no message at all for the  *)
(* whole time of a send: nobody gets the room it makes before temp_read.   *)
GivenUpOnlyWhenStuck ==
  [][(temp_read_line \/ temp_read_sentence) /\ ~HasRoom(main_queue)
       => since >= SendTimeout]_vars

(* The heartbeat timer of a live temperature task expires only if for      *)
(* nearly the whole period main_task was held up, again and again or at    *)
(* once: it never waited for work for longer than a heartbeat.             *)
NoFalseAlarm ==
  [][prvProcessExpiredTimer("temp_hb") /\ pc["temp"] # "dead"
       => stall >= TIVA_HEARTBEAT_PERIOD - TEMP_HEARTBEAT_MS]_vars

(* No task waits for ever, although they send to one another in a circle.  *)
TasksGoOn ==
  /\ pc["main"] \in {"hello", "write", "route", "reset"} ~> pc["main"] = "recv"
  /\ pc["temp"] = "beat" ~> pc["temp"] = "recv"
  /\ pc["timer"] \in {"line", "sentence"} ~> pc["timer"] = "select"
=============================================================================
