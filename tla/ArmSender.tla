----------------------------- MODULE ArmSender -----------------------------
(***************************************************************************)
(* One thread per arm forwards the newest target of its depth-1 slot to    *)
(* the driver (control/arm_sender.py); a fault pauses it.  wait_fresh      *)
(* hands each target out once, so a slot is None when its target was taken.*)
(***************************************************************************)
EXTENDS Naturals

CONSTANTS
  Watched,   \* the arms whose sender is modelled
  Grips,     \* gripper targets
  None       \* no value

VARIABLES
  slot,          \* the q_cmd slot
  sender,        \* "wait", "check", "send", "grip", "mark" or "gripsend"
  got,           \* the target wait_fresh returned
  paused,        \* _paused
  gripSlot, lastGrip,   \* _grip_slot, _last_grip
  gripRead,      \* the gripper target the thread read
  robot          \* where the arms are

slotVars == <<slot, sender, got>>
gripVars == <<gripSlot, lastGrip, gripRead>>
senderVars == <<slotVars, gripVars, paused, robot>>

SenderInit(f) ==
  /\ slot = [a \in Watched |-> None] /\ got = slot
  /\ sender = [a \in Watched |-> "wait"]
  /\ paused = [a \in Watched |-> FALSE]
  /\ gripSlot = slot /\ lastGrip = slot /\ gripRead = slot
  /\ robot = f

TakeUnlessPaused(a) ==      \* mutant: the pause is tested first, nothing drained
  /\ sender[a] = "wait"
  /\ got' = IF paused[a] THEN got ELSE [got EXCEPT ![a] = slot[a]]
  /\ slot' = IF paused[a] THEN slot ELSE [slot EXCEPT ![a] = None]
  /\ sender' = [sender EXCEPT ![a] = "check"]
  /\ UNCHANGED <<gripVars, paused, robot>>

(* wait_fresh: the newest target, or None after the timeout. *)
Take(a) ==
  /\ sender[a] = "wait"
  /\ got' = [got EXCEPT ![a] = slot[a]]
  /\ slot' = [slot EXCEPT ![a] = None]
  /\ sender' = [sender EXCEPT ![a] = "check"]
  /\ UNCHANGED <<gripVars, paused, robot>>

(* A paused thread drains and forwards nothing. *)
Check(a) ==
  /\ sender[a] = "check"
  /\ sender' = [sender EXCEPT ![a] = IF paused[a] THEN "wait"
                                     ELSE IF got[a] = None THEN "grip" ELSE "send"]
  /\ got' = IF paused[a] THEN [got EXCEPT ![a] = None] ELSE got
  /\ UNCHANGED <<slot, gripVars, paused, robot>>

(* command_joints: taken by the driver or refused (CommandError, logged). *)
Send(a, accepts) ==
  /\ sender[a] = "send"
  /\ robot' = IF accepts THEN [robot EXCEPT ![a] = got[a]] ELSE robot
  /\ sender' = [sender EXCEPT ![a] = "grip"]
  /\ got' = [got EXCEPT ![a] = None]
  /\ UNCHANGED <<slot, gripVars, paused>>

(* The newest gripper target, if it is not the one dispatched last; then   *)
(* it is marked and command_gripper called, whose outcome nobody reads.    *)
ReadGrip(a) ==
  /\ sender[a] = "grip"
  /\ LET new == gripSlot[a] # None /\ gripSlot[a] # lastGrip[a] /\ ~ paused[a]
     IN /\ sender' = [sender EXCEPT ![a] = IF new THEN "mark" ELSE "wait"]
        /\ gripRead' = [gripRead EXCEPT ![a] = IF new THEN gripSlot[a] ELSE None]
  /\ UNCHANGED <<slot, got, paused, gripSlot, lastGrip, robot>>

MarkGrip(a) ==
  /\ sender[a] = "mark"
  /\ sender' = [sender EXCEPT ![a] = "gripsend"]
  /\ lastGrip' = [lastGrip EXCEPT ![a] = gripRead[a]]
  /\ UNCHANGED <<slot, got, paused, gripSlot, gripRead, robot>>

SendGrip(a) ==
  /\ sender[a] = "gripsend"
  /\ sender' = [sender EXCEPT ![a] = "wait"]
  /\ gripRead' = [gripRead EXCEPT ![a] = None]
  /\ UNCHANGED <<slot, got, paused, gripSlot, lastGrip, robot>>

(* pause: nothing more goes out, and a pending gripper target counts as    *)
(* dispatched.                                                             *)
Pause(a) ==
  /\ paused' = [paused EXCEPT ![a] = TRUE]
  /\ lastGrip' = [lastGrip EXCEPT ![a] = IF gripSlot[a] # None THEN gripSlot[a] ELSE @]

Resume(a) == paused' = [paused EXCEPT ![a] = FALSE]

(* The loop's puts. *)
PutTarget(f, S) == slot' = [a \in Watched |-> IF a \in S THEN f[a] ELSE slot[a]]
=============================================================================
