------------------------------ MODULE MCInputs ------------------------------
(* What comes in from outside a session, in parts that share no state      *)
(* while they run: who watches it, the browser's keys, the tracker's       *)
(* calibration, its buttons and the clutch.  A behaviour is one of them.   *)
EXTENDS Attendance, Watchdog, Calibration, TrackerInput, Clutch

VARIABLE part

Chosen == {[scale |-> 1, yaw |-> 1], [scale |-> 2, yaw |-> -1]}

vars == <<part, attVars, wdVars, calVars, trkVars, cluVars>>

Init ==
  /\ part \in {"watch", "keys", "calibration", "buttons", "clutch"}
  /\ AttInit /\ WdInit /\ CalInit /\ TrkInit
  /\ CluInit /\ (part # "clutch" => setting = CHOOSE s \in Settings : TRUE)

InWatch(A) == part = "watch" /\ A /\ UNCHANGED <<part, wdVars, calVars, trkVars, cluVars>>
InKeys(A) == part = "keys" /\ A /\ UNCHANGED <<part, attVars, calVars, trkVars, cluVars>>
InCal(A) == part = "calibration" /\ A /\ UNCHANGED <<part, attVars, wdVars, trkVars, cluVars>>
InButtons(A) == part = "buttons" /\ A /\ UNCHANGED <<part, attVars, wdVars, calVars, cluVars>>
InClutch(A) == part = "clutch" /\ A /\ UNCHANGED <<part, attVars, wdVars, calVars, trkVars>>

Next == InWatch(AttNext) \/ InKeys(WdNext) \/ InCal(CalNext) \/ InButtons(TrkNext) \/ InClutch(CluNext)

(* Each thread goes on, time passes, and the manager's calls end. *)
Fair == /\ WF_vars(InWatch(WatchThread)) /\ WF_vars(InWatch(GraceOver)) /\ WF_vars(InWatch(ManagerEnds))
        /\ SF_vars(InKeys(WdTick)) /\ WF_vars(InKeys(LoopStep)) /\ WF_vars(InKeys(ServerStep))

Spec == Init /\ [][Next]_vars /\ Fair
=============================================================================
