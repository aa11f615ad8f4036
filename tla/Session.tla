------------------------------ MODULE Session ------------------------------
(***************************************************************************)
(* The session manager (session/manager.py): one session at a time is      *)
(* brought up, served and torn down under _lock, while threads that take   *)
(* no lock go on: the start_from worker, the profile-motion workers, the   *)
(* fault callback of the session's control loop, the loop's plan workers.  *)
(* They talk to the loop through one command bus for the whole process     *)
(* (bus.py).  A session is named by its number.                            *)
(***************************************************************************)
EXTENDS Naturals, Sequences

CONSTANTS
  Ids,         \* sessions, 1..n
  Motions,     \* profile motions: return home, go to profile, reset, playback
  Kinds,       \* of sessions: some of "sim", "hardware"
  Starts,      \* for each session, the start_from it may be asked with
  Legs,        \* arms a motion walks, one plan each
  MaxFaults,   \* bound: driver faults
  MaxGotos,    \* bound: planned joint_target requests
  MaxAsks,     \* bound: profile motions asked for
  MaxFailures, \* bound: steps of taking a rig down that raise
  None

Workers == Ids \union Motions      \* session s's start_from worker is s

ASSUME SessionAssumption ==
  /\ Legs \in Nat \ {0} /\ MaxFaults \in Nat /\ MaxGotos \in Nat /\ MaxAsks \in Nat
  /\ MaxFailures \in Nat
  /\ Ids \subseteq Nat \ {0} /\ Ids \intersect Motions = {} /\ 0 \notin Motions
  /\ Kinds \subseteq {"sim", "hardware"}
  /\ Starts \in [Ids -> SUBSET {"keep", "profile"}]
  /\ None \notin {"bringup", "start_from", "hardware"}

VARIABLES
  session,    \* 0, or the live session
  born,       \* the last session number given
  lock,       \* "free", or where the holder of _lock is
  bringup,    \* 0, or the session whose bring-up rows are shown (_bringup)
  kind, startFrom,    \* the sessions' specs
  state,      \* ActiveSession.state
  rig,        \* the workcell is connected
  loop,       \* "off", "on" or "stopped"
  left,       \* the sessions of whose taking down a step raised
  failures,   \* how many (a bound counts them)
  wired,      \* attach_fault_state was called
  arms,       \* fault_state, over the session's arms
  reported,   \* _fault_state_reported
  callback,   \* the state _on_arm_fault_state is about to write
  moving,     \* the command whose motion the executor runs
  cancelled,  \* plan_cancel_reason is set
  planning,   \* a goto is being planned (_plan_state)
  queue,      \* bus.commands
  planner,    \* the sessions whose plan worker has not answered
  claim,      \* _profile_motion
  pc, leg, of,    \* the workers: where each is, on which leg, of which session
  ack,        \* the answer to a worker's command
  faults, gotos, asks   \* what the bounds count

specVars == <<born, kind, startFrom>>
rigVars == <<rig, loop, left, failures>>
faultVars == <<wired, arms, reported, callback, faults>>
motionVars == <<moving, cancelled, planning>>
busVars == <<queue, planner, gotos>>
workerVars == <<claim, pc, leg, of, ack, asks>>
threads == <<faultVars, motionVars, workerVars>>
sessionVars == <<session, lock, bringup, specVars, state, rigVars, busVars, threads>>

Each(S, v) == [x \in S |-> v]

SessionInit ==
  /\ session = 0 /\ lock = "free" /\ bringup = 0
  /\ born = 0 /\ kind = Each(Ids, None) /\ startFrom = Each(Ids, None)
  /\ state = Each(Ids, None)
  /\ rig = Each(Ids, FALSE) /\ loop = Each(Ids, "off")
  /\ left = {} /\ failures = 0
  /\ wired = Each(Ids, FALSE) /\ arms = Each(Ids, "ok") /\ reported = Each(Ids, "ok")
  /\ callback = Each(Ids, None) /\ faults = 0
  /\ moving = Each(Ids, None) /\ cancelled = Each(Ids, FALSE) /\ planning = Each(Ids, FALSE)
  /\ queue = <<>> /\ planner = {} /\ gotos = 0
  /\ claim = None /\ pc = Each(Workers, "off") /\ leg = Each(Workers, 0)
  /\ of = [w \in Workers |-> IF w \in Ids THEN w ELSE 0] /\ ack = Each(Workers, None) /\ asks = 0

-----------------------------------------------------------------------------
(* create, under _lock from the first check to the published session.      *)
Create ==
  /\ lock = "free" /\ lock' = "validate"
  /\ UNCHANGED <<session, bringup, specVars, state, rigVars, busVars, threads>>

(* A second session is refused, and whatever the refusal matrix names.     *)
Refuse ==
  /\ lock = "validate" /\ lock' = "free"
  /\ UNCHANGED <<session, bringup, specVars, state, rigVars, busVars, threads>>

AdmitsAll == TRUE           \* mutant: no check for a live session
Admits == session = 0

(* From here on a hardware bring-up shows its rows. *)
BringUp(s, k, f) ==
  /\ lock = "validate" /\ Admits
  /\ s = born + 1
  /\ lock' = "connect" /\ born' = s
  /\ kind' = [kind EXCEPT ![s] = k] /\ startFrom' = [startFrom EXCEPT ![s] = f]
  /\ bringup' = IF k = "hardware" THEN s ELSE bringup
  /\ UNCHANGED <<session, state, rigVars, busVars, threads>>

(* The drivers connect, the loop starts, its fault callback is attached.   *)
Connect ==
  /\ lock = "connect" /\ lock' = "rigged"
  /\ rig' = [rig EXCEPT ![born] = TRUE]
  /\ UNCHANGED <<session, bringup, specVars, state, loop, left, failures, busVars, threads>>

StartLoop ==
  /\ lock = "rigged" /\ lock' = "looped"
  /\ loop' = [loop EXCEPT ![born] = "on"]
  /\ UNCHANGED <<session, bringup, specVars, state, rig, left, failures, busVars, threads>>

AttachFaultState ==
  /\ lock = "looped" /\ lock' = "built"
  /\ state' = [state EXCEPT ![born] = "bringup"]
  /\ wired' = [wired EXCEPT ![born] = TRUE]
  /\ UNCHANGED <<session, bringup, specVars, rigVars, arms, reported, callback, faults,
                 motionVars, busVars, workerVars>>

LoopStopped(s) == loop' = [loop EXCEPT ![s] = IF @ = "on" THEN "stopped" ELSE @]

AbortKeepsRig(s) ==         \* mutant: the drivers stay connected
  LoopStopped(s) /\ UNCHANGED <<rig, left, failures>>

StopRig(s) ==
  /\ LoopStopped(s)
  /\ rig' = [rig EXCEPT ![s] = FALSE]
  /\ UNCHANGED <<left, failures>>

(* A step of taking s down raises. *)
Fails(s) ==
  /\ failures < MaxFailures /\ failures' = failures + 1
  /\ left' = left \union {s}

(* Until then any step may fail: what came up is taken down again, while   *)
(* a hardware session is built to its last step, a simulated one until its *)
(* loop and its threads run.                                               *)
BringUpEnds ==
  /\ lock' = "free"
  /\ bringup' = IF kind[born] = "hardware" THEN 0 ELSE bringup
  /\ UNCHANGED <<session, specVars, state, busVars, threads>>

Unwound ==
  \/ lock \in {"connect", "rigged", "looped"}
  \/ lock = "built" /\ kind[born] = "hardware"

BringUpFails == Unwound /\ StopRig(born) /\ BringUpEnds

(* A workcell whose own stop raises, or that a simulated bring-up starts   *)
(* before its try, stays up; the loop's thread ends all the same.          *)
BringUpLeavesRig ==
  /\ Unwound /\ Fails(born)
  /\ LoopStopped(born) /\ rig' = [rig EXCEPT ![born] = TRUE]
  /\ BringUpEnds

(* A simulated session's streams are added outside any try. *)
BringUpLeavesAll ==
  /\ lock = "built" /\ kind[born] = "sim" /\ Fails(born)
  /\ UNCHANGED <<rig, loop>>
  /\ BringUpEnds

Publish ==
  /\ lock = "built" /\ lock' = "published"
  /\ session' = born
  /\ UNCHANGED <<bringup, specVars, state, rigVars, busVars, threads>>

(* _lock is released, then the start_from worker starts. *)
Created ==
  /\ lock = "published" /\ lock' = "free"
  /\ pc' = [pc EXCEPT ![born] = "begin"]
  /\ UNCHANGED <<session, bringup, specVars, state, rigVars, busVars, faultVars, motionVars,
                 claim, leg, of, ack, asks>>

CreateStep ==
  \/ Refuse \/ Connect \/ StartLoop \/ AttachFaultState \/ Publish \/ Created
  \/ BringUpFails \/ BringUpLeavesRig \/ BringUpLeavesAll

-----------------------------------------------------------------------------
(* teardown, under _lock: the state first, then the motion is cancelled    *)
(* through the loop, the loop stops, the drivers hand back.                *)
Teardown ==
  /\ lock = "free" /\ session # 0
  /\ lock' = "cancel"
  /\ state' = [state EXCEPT ![session] = "teardown"]
  /\ UNCHANGED <<session, bringup, specVars, rigVars, busVars, threads>>

CancelOf(w) == [op |-> "cancel", by |-> w]
Queued(c) == \E i \in DOMAIN queue : queue[i] = c

(* _cancel_plan_via_loop: of the live session, if anything of it moves; it *)
(* waits one second, so a loop that has stopped does not hold it up.       *)
CancelViaLoop(w) ==
  queue' = IF session # 0 /\ moving[session] # None THEN Append(queue, CancelOf(w)) ELSE queue

Answered(c) == ~ Queued(c) \/ \A s \in Ids : loop[s] # "on"

EndMotion ==
  /\ lock = "cancel" /\ lock' = "cancelling"
  /\ CancelViaLoop(0)
  /\ UNCHANGED <<session, bringup, specVars, state, rigVars, planner, gotos, threads>>

(* The loop's thread ends its tick, and its faults go with it. *)
LoopEnds(s) ==
  /\ callback[s] = None
  /\ loop' = [loop EXCEPT ![s] = "stopped"]
  /\ arms' = [arms EXCEPT ![s] = "ok"] /\ reported' = [reported EXCEPT ![s] = "ok"]

loopRest == <<session, bringup, specVars, state, rig, busVars, wired, callback, faults,
              motionVars, workerVars>>

EndLoop ==
  /\ lock = "cancelling" /\ Answered(CancelOf(0)) /\ lock' = "stop"
  /\ LoopEnds(session)
  /\ UNCHANGED <<loopRest, left, failures>>

(* The policy's or the recorder's stop raises, and the loop runs on; or    *)
(* the loop's own does when its thread has ended.  Either skips the rest.  *)
EndLoopFails ==
  /\ lock = "cancelling" /\ Answered(CancelOf(0)) /\ lock' = "stopped"
  /\ Fails(session)
  /\ LoopEnds(session) \/ UNCHANGED <<loop, arms, reported>>
  /\ UNCHANGED loopRest

EndRig ==
  /\ lock = "stop" /\ lock' = "stopped"
  /\ rig' = [rig EXCEPT ![session] = FALSE]
  /\ UNCHANGED <<session, bringup, specVars, state, loop, left, failures, busVars, threads>>

(* A stream, a source, the renderer or the workcell raises. *)
EndRigFails ==
  /\ lock = "stop" /\ lock' = "stopped"
  /\ Fails(session)
  /\ UNCHANGED <<session, bringup, specVars, state, rig, loop, busVars, threads>>

(* The finally: the session is forgotten, whatever it left up. *)
Ended ==
  /\ lock = "stopped" /\ lock' = "free"
  /\ session' = 0 /\ bringup' = 0
  /\ UNCHANGED <<specVars, state, rigVars, busVars, threads>>

EndStep == EndMotion \/ EndLoop \/ EndLoopFails \/ EndRig \/ EndRigFails \/ Ended

=============================================================================
