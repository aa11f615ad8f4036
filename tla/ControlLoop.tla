---------------------------- MODULE ControlLoop ----------------------------
(***************************************************************************)
(* The 100 Hz control loop of one session: the single chokepoint every     *)
(* motion command passes (control/loop.py, with PlanExecutor and JogState  *)
(* of control/joint_panel.py).                                             *)
(*                                                                         *)
(* The control thread is a cycle of phases, pc:                            *)
(*   "ops"     queued commands are drained, one action per _op_ handler    *)
(*   "events"  inputs are sampled; driver fault events are applied         *)
(*   "resolve" a held key may cancel the motion; every arm gets its step   *)
(*   "gate"    the safety gate answers; arrivals, gate watch, dispatch     *)
(* Between two phases the other threads see what the phase left behind.    *)
(* What they write is read in one phase only (ReadInputs, except the       *)
(* dropped browser), so their steps are taken while pc = "ops".            *)
(*                                                                         *)
(* A joint configuration is a point of 0..MaxPos on a line, one point per  *)
(* tick at full slew; MaxPos is the end of the rail travel and MaxPos + 1  *)
(* a goal a hair beyond it.  The measured posture of an arm that faulted   *)
(* is any point.  The gate holds any of the arms, at its own last safe     *)
(* posture (SafetyGate.tla says which).                                    *)
(***************************************************************************)
EXTENDS Naturals, Sequences, FiniteSets

CONSTANTS
  Arms,       \* session_arms, in the order of the numbers
  DefaultArm, \* default_active_arm
  Grippers,   \* gripper_arms
  MaxPos,     \* the last point of the travel
  Paths,      \* waypoint lists a planner may produce
  Recorded,   \* the sets of arms the recorded episodes drive
  HoldLimit,  \* ticks a gate-held motion survives (plan_gate_hold_s)
  MaxMotions, \* bound: motions the manager submits
  MaxInputs,  \* bound: operator commands (cancel, switch, jog)
  MaxEpisodes,\* bound: episodes recorded
  MaxGotos,   \* bound: joint-panel goto requests
  MaxFaults,  \* bound: driver faults
  Rows,       \* rows of a recorded action column
  None        \* no value: no goal, no status, no reason

Pos  == 0..MaxPos
Goal == 0..(MaxPos + 1)
Status == {"planning", "executing", "done", "failed", "cancelled"}
Reason == {"manager", "takeover", "arm switch", "jog", "driver fault",
           "movement key", "browser disconnected", "replay step failed", "gate hold"}

ASSUME LoopAssumption ==
  /\ Arms # {} /\ Arms \subseteq Nat
  /\ MaxPos \in Nat /\ HoldLimit \in Nat /\ Rows \in Nat
  /\ MaxMotions \in Nat /\ MaxInputs \in Nat
  /\ MaxEpisodes \in Nat /\ MaxGotos \in Nat /\ MaxFaults \in Nat
  /\ DefaultArm \in Arms /\ Grippers \subseteq Arms
  /\ Paths \subseteq Seq(Goal) \ {<<>>}
  /\ Recorded \subseteq (SUBSET Arms) \ {{}}
  /\ None \notin Goal /\ None \notin Status /\ None \notin Reason

VARIABLES
  pc,            \* phase of the control thread
  wd,            \* InputWatchdog state: "ok", "tripped" or "await"
  latchLogged,   \* _watchdog_logged: the latch edge was seen
  ws,            \* the browser's newest KeysMsg holds a movement key
  live,          \* this tick: a code is held by a source with scale > 0
  present,       \* this tick: a movement code is held by any source
  scaled,        \* this tick: the browser source has scale > 0
  dropped,       \* _controller_dropped: the browser's socket closed
  faulted, recovering,   \* _faulted, _recovering
  events,        \* driver events waiting in the workcell
  batch,         \* driver events drained this tick, still to apply
  reseeded,      \* arms re-seeded while applying this batch
  cmd,           \* _last_cmd: the last gated command of each arm
  safe,          \* the gate's _last_safe
  q,             \* this tick's resolved command of each arm
  wps,           \* PlanExecutor: waypoints still ahead, <<>> when idle
  arriving,      \* _plan_arriving: the goal returned this tick, or None
  planState,     \* _plan_state
  planStatus,    \* _plan_status (lingering values expire, see Expire)
  interruptible, \* _plan_interruptible
  cancelReason,  \* plan_cancel_reason
  deferred,      \* _plan_gripper_on_arrival: arms whose target waits
  gripSet,       \* arms whose gripper got a plan's target
  hold,          \* ticks since _plan_gate_hold_since, 0 when unset
  driven, rows,  \* _replay: the arms it drives, rows left
  playback,      \* the arms the running motion streams a recorded path on
  jog,           \* JogState: the pending target, or None
  activeArm,
  workers,       \* per arm, plan workers whose result has not been drained
  rec, recSeen,  \* the recorder records; episode_state as the loop knows it
  motions, inputs, episodes, gotos, faults    \* what the bounds count

inputVars  == <<wd, latchLogged, ws, live, present, scaled, dropped>>
faultVars  == <<faulted, recovering, events, batch, reseeded>>
planVars   == <<wps, arriving, planState, planStatus, interruptible,
                cancelReason, deferred, gripSet, hold, driven, rows, playback>>
otherVars  == <<jog, activeArm, workers, rec, recSeen>>
boundVars  == <<motions, inputs, episodes, gotos, faults>>
vars == <<pc, inputVars, faultVars, cmd, safe, q, planVars, otherVars, boundVars>>

-----------------------------------------------------------------------------
(* Predicates of the loop *)

ActiveArms   == {a \in Arms : wps[a] # <<>>}
motion_active == ActiveArms # {} \/ driven # {}
MotionArms   == ActiveArms \cup driven
Stopped(a)   == a \in faulted \cup recovering

busy == motion_active \/ \E a \in Arms : planState[a] = "planning"

AnyPlanInFlight(active, state) ==
  active # {} \/ \E a \in Arms : state[a] \in {"planning", "executing"}

(* _cancel_plans: every plan and the replay stop, the arms hold.  The arms *)
(* it finds in motion are S.                                               *)
Cleared(S, state) == [a \in Arms |-> IF a \in S THEN None ELSE state[a]]

CancelMotion(reason, S) ==
  /\ wps' = [a \in Arms |-> <<>>]
  /\ arriving' = [a \in Arms |-> None]
  /\ planState' = Cleared(S, planState)
  /\ planStatus' = "cancelled"
  /\ interruptible' = FALSE
  /\ cancelReason' = reason
  /\ deferred' = {} /\ hold' = 0
  /\ driven' = {} /\ rows' = 0 /\ playback' = {}
  /\ UNCHANGED gripSet

CancelPlans(reason) == CancelMotion(reason, MotionArms)

(* The bookkeeping every motion op resets when it is accepted. *)
StartMotion(inter) ==
  /\ cancelReason' = None /\ hold' = 0
  /\ interruptible' = inter

-----------------------------------------------------------------------------
Init ==
  /\ pc = "ops"
  /\ wd = "ok" /\ latchLogged = FALSE
  /\ ws = FALSE /\ live = FALSE /\ present = FALSE
  /\ scaled = TRUE /\ dropped = FALSE
  /\ faulted = {} /\ recovering = {} /\ events = <<>> /\ batch = <<>>
  /\ reseeded = {}
  /\ cmd = [a \in Arms |-> 0] /\ safe = cmd /\ q = cmd
  /\ wps = [a \in Arms |-> <<>>] /\ arriving = [a \in Arms |-> None]
  /\ planState = [a \in Arms |-> None] /\ planStatus = None
  /\ interruptible = FALSE /\ cancelReason = None
  /\ deferred = {} /\ gripSet = {} /\ hold = 0
  /\ driven = {} /\ rows = 0 /\ playback = {}
  /\ jog = [a \in Arms |-> None]
  /\ activeArm = DefaultArm
  /\ workers = [a \in Arms |-> 0] /\ rec = FALSE /\ recSeen = FALSE
  /\ motions = 0 /\ inputs = 0 /\ episodes = 0 /\ gotos = 0 /\ faults = 0

-----------------------------------------------------------------------------
(* Commands, drained at the start of a tick.  A refused command that       *)
(* changes nothing is no step.                                             *)

Submit ==
  /\ pc = "ops" /\ motions < MaxMotions
  /\ motions' = motions + 1 /\ UNCHANGED <<inputs, episodes>>

Request ==
  /\ pc = "ops" /\ inputs < MaxInputs
  /\ inputs' = inputs + 1 /\ UNCHANGED <<motions, episodes>>

LeaveAlone == UNCHANGED <<pc, inputVars, faultVars, cmd, safe, q, gotos, faults>>

(* execute_plan: at most one arm's waypoints; a gripper target of an       *)
(* interruptible, moving plan waits for the arrival.                       *)
ExecutePlan(a, path, inter, grips) ==
  /\ Submit
  /\ ~ Stopped(a) /\ ~ busy
  /\ StartMotion(inter)
  /\ wps' = [wps EXCEPT ![a] = path]
  /\ planState' = [planState EXCEPT ![a] = "executing"]
  /\ planStatus' = "executing"
  /\ deferred' = IF inter THEN grips ELSE {}
  /\ gripSet' = IF inter THEN gripSet ELSE gripSet \cup grips
  /\ playback' = {}
  /\ UNCHANGED <<arriving, driven, rows>>
  /\ UNCHANGED otherVars /\ LeaveAlone

(* The gripper-only execute_plan: nothing to arrive at, done at once. *)
ExecuteGripperOnly(grips) ==
  /\ Submit
  /\ ~ busy
  /\ StartMotion(FALSE)
  /\ planStatus' = "done"
  /\ deferred' = {} /\ gripSet' = gripSet \cup grips
  /\ UNCHANGED <<wps, arriving, planState, driven, rows, playback>>
  /\ UNCHANGED otherVars /\ LeaveAlone

(* playback_path: a recorded path on several arms at once, one waypoint    *)
(* list per arm, all of one length.                                        *)
PlaybackPath(paths) ==
  /\ Submit
  /\ \A a, b \in DOMAIN paths : Len(paths[a]) = Len(paths[b])
  /\ \A a \in DOMAIN paths : ~ Stopped(a)
  /\ ~ busy
  /\ StartMotion(TRUE)
  /\ wps' = [a \in Arms |-> IF a \in DOMAIN paths THEN paths[a] ELSE wps[a]]
  /\ planState' = [a \in Arms |-> IF a \in DOMAIN paths THEN "executing"
                                  ELSE planState[a]]
  /\ planStatus' = "executing"
  /\ deferred' = {} /\ playback' = DOMAIN paths
  /\ UNCHANGED <<arriving, gripSet, driven, rows>>
  /\ UNCHANGED otherVars /\ LeaveAlone

(* replay_actions: a recorded action column drives the arms it names. *)
ReplayActions(S) ==
  /\ Submit
  /\ \A a \in S : ~ Stopped(a)
  /\ ~ busy
  /\ StartMotion(TRUE)
  /\ driven' = S /\ rows' = Rows
  /\ planState' = [a \in Arms |-> IF a \in S THEN "executing" ELSE planState[a]]
  /\ planStatus' = "executing"
  /\ deferred' = {} /\ playback' = {}
  /\ UNCHANGED <<wps, arriving, gripSet>>
  /\ UNCHANGED otherVars /\ LeaveAlone

(* cancel_plan, and the takeover ops of a teleop session (which look only  *)
(* at the executor, not at a replay).                                      *)
CancelPlan ==
  /\ Request /\ motion_active
  /\ CancelPlans("manager")
  /\ UNCHANGED otherVars /\ LeaveAlone

Takeover ==
  /\ Request /\ ActiveArms # {}
  /\ CancelPlans("takeover")
  /\ UNCHANGED otherVars /\ LeaveAlone

(* switch_arm, switch_arm_prev: an interruptible motion yields. *)
SwitchArm(a) ==
  /\ Request
  /\ activeArm' = a
  /\ IF interruptible /\ motion_active
     THEN CancelPlans("arm switch") ELSE UNCHANGED planVars
  /\ UNCHANGED <<jog, workers, rec, recSeen>> /\ LeaveAlone

(* joint_target, mode jog: an interruptible motion yields first; then the  *)
(* target is taken unless this arm's own plan runs or is being planned.    *)
JointJog(a, target) ==
  LET cut  == interruptible /\ motion_active
      free == (cut \/ wps[a] = <<>>) /\ planState[a] # "planning"
  IN /\ Request
     /\ ~ recSeen
     /\ cut \/ free
     /\ IF cut THEN CancelPlans("jog") ELSE UNCHANGED planVars
     /\ jog' = IF free THEN [jog EXCEPT ![a] = target] ELSE jog
     /\ UNCHANGED <<activeArm, workers, rec, recSeen>> /\ LeaveAlone

(* joint_target, mode goto: the plan is made by a worker thread. *)
JointGoto(a) ==
  LET cut == interruptible /\ motion_active
      active == IF cut THEN {} ELSE ActiveArms
      state  == IF cut THEN Cleared(MotionArms, planState) ELSE planState
      free   == ~ AnyPlanInFlight(active, state)
  IN /\ Request /\ gotos < MaxGotos /\ gotos' = gotos + 1
     /\ ~ recSeen
     /\ cut \/ free
     /\ wps' = [b \in Arms |-> IF cut THEN <<>> ELSE wps[b]]
     /\ planState' = IF free THEN [state EXCEPT ![a] = "planning"] ELSE state
     /\ planStatus' = IF free THEN "planning" ELSE "cancelled"
     /\ interruptible' = (interruptible /\ ~ cut)
     /\ cancelReason' = IF cut THEN "jog" ELSE cancelReason
     /\ arriving' = [b \in Arms |-> IF cut THEN None ELSE arriving[b]]
     /\ deferred' = IF cut THEN {} ELSE deferred
     /\ hold' = IF cut THEN 0 ELSE hold
     /\ driven' = IF cut THEN {} ELSE driven
     /\ rows' = IF cut THEN 0 ELSE rows
     /\ playback' = IF cut THEN {} ELSE playback
     /\ workers' = IF free THEN [workers EXCEPT ![a] = @ + 1] ELSE workers
     /\ UNCHANGED <<gripSet, jog, activeArm, rec, recSeen>>
     /\ UNCHANGED <<pc, inputVars, faultVars, cmd, safe, q, faults>>

(* _plan_ready: the worker's result is drained. *)
PlanFailed(a) ==
  /\ pc = "ops" /\ workers[a] > 0
  /\ workers' = [workers EXCEPT ![a] = @ - 1]
  /\ planState' = [planState EXCEPT ![a] = "failed"]
  /\ planStatus' = "failed"
  /\ UNCHANGED <<wps, arriving, interruptible, cancelReason, deferred, gripSet,
                 hold, driven, rows, playback>>
  /\ UNCHANGED <<jog, activeArm, rec, recSeen, motions, inputs, episodes>> /\ LeaveAlone

PlanReadyLoads(a, path) ==            \* mutant: nobody asks who executes
  /\ pc = "ops" /\ workers[a] > 0
  /\ workers' = [workers EXCEPT ![a] = @ - 1]
  /\ wps' = [wps EXCEPT ![a] = path]
  /\ planState' = [planState EXCEPT ![a] = "executing"]
  /\ planStatus' = "executing" /\ playback' = {}
  /\ UNCHANGED <<arriving, interruptible, cancelReason, deferred, gripSet,
                 hold, driven, rows>>
  /\ UNCHANGED <<jog, activeArm, rec, recSeen, motions, inputs, episodes>> /\ LeaveAlone

PlanReady(a, path) ==
  /\ pc = "ops" /\ workers[a] > 0
  /\ workers' = [workers EXCEPT ![a] = @ - 1]
  /\ \/ /\ ActiveArms # {}      \* dropped: another plan is executing
        /\ planState' = [planState EXCEPT ![a] = "failed"]
        /\ UNCHANGED <<wps, planStatus, playback>>
     \/ /\ ActiveArms = {}
        /\ wps' = [wps EXCEPT ![a] = path]
        /\ planState' = [planState EXCEPT ![a] = "executing"]
        /\ planStatus' = "executing" /\ playback' = {}
  /\ UNCHANGED <<arriving, interruptible, cancelReason, deferred, gripSet,
                 hold, driven, rows>>
  /\ UNCHANGED <<jog, activeArm, rec, recSeen, motions, inputs, episodes>> /\ LeaveAlone

(* episode_new is validated and takes effect inside the drain. *)
EpisodeNew ==
  /\ pc = "ops" /\ episodes < MaxEpisodes
  /\ episodes' = episodes + 1 /\ UNCHANGED <<motions, inputs>>
  /\ ~ rec /\ rec' = TRUE
  /\ UNCHANGED <<planVars, jog, activeArm, workers, recSeen>> /\ LeaveAlone

-----------------------------------------------------------------------------
(* Step 2: the held codes of both sources.  The watchdog may trip or       *)
(* latch; the edge of the latch drops every jog target.                    *)

ScaleOutcome == [ok |-> {"ok", "tripped", "await"},
                 tripped |-> {"tripped", "await"},
                 await |-> {"await"}]

ReadInputs ==
  /\ pc = "ops" /\ pc' = "events"
  /\ wd' \in ScaleOutcome[wd]
  /\ scaled' = (wd' # "await")
  /\ \E device \in BOOLEAN :     \* the tracker controller's codes, if fresh
        /\ present' = (ws \/ device)
        /\ live' = ((ws /\ scaled') \/ device)
  /\ latchLogged' = (wd' # "ok")
  /\ jog' = IF wd' # "ok" /\ ~ latchLogged THEN [a \in Arms |-> None] ELSE jog
  /\ recovering' = IF live' THEN recovering ELSE {}    \* _update_recovering
  /\ batch' = events /\ events' = <<>>
  /\ UNCHANGED <<ws, dropped, faulted, reseeded, cmd, safe, q, planVars,
                 activeArm, workers, rec, recSeen, boundVars>>

(* Step 3b: the drained driver events, in order. *)
OnFaultEvent(a) ==
  /\ pc = "events" /\ batch # <<>> /\ Head(batch) = [kind |-> "fault", arm |-> a]
  /\ batch' = Tail(batch)
  /\ faulted' = faulted \cup {a} /\ recovering' = recovering \ {a}
  /\ jog' = [jog EXCEPT ![a] = None]
  /\ \/ /\ interruptible /\ motion_active
        /\ CancelPlans("driver fault")
     \/ /\ ~ (interruptible /\ motion_active)
        /\ wps[a] # <<>> \/ planState[a] # None
        /\ wps' = [wps EXCEPT ![a] = <<>>]
        /\ planState' = [planState EXCEPT ![a] = None]
        /\ cancelReason' = "driver fault"
        /\ planStatus' = IF ActiveArms \subseteq {a} THEN "cancelled" ELSE planStatus
        /\ UNCHANGED <<arriving, interruptible, deferred, gripSet, hold, driven,
                       rows, playback>>
     \/ /\ ~ (interruptible /\ motion_active)
        /\ wps[a] = <<>> /\ planState[a] = None
        /\ UNCHANGED planVars
  /\ UNCHANGED <<pc, inputVars, events, reseeded, cmd, safe, q, activeArm,
                 workers, rec, recSeen, boundVars>>

ReseedLoopOnly(a, p) == cmd' = [cmd EXCEPT ![a] = p] /\ UNCHANGED safe   \* mutant

Reseed(a, p) == cmd' = [cmd EXCEPT ![a] = p] /\ safe' = [safe EXCEPT ![a] = p]

(* Reseed / Recovered: targets from the measured posture, the watchdog     *)
(* back to all-keys-up, the arm held until every live input is released.   *)
OnRecoveredEvent(a) ==
  /\ pc = "events" /\ batch # <<>> /\ Head(batch) = [kind |-> "recovered", arm |-> a]
  /\ batch' = Tail(batch)
  /\ IF a \in reseeded THEN UNCHANGED <<cmd, safe, wd, reseeded>>
     ELSE /\ \E p \in Pos : Reseed(a, p)
          /\ wd' = "await" /\ reseeded' = reseeded \cup {a}
  /\ faulted' = faulted \ {a} /\ recovering' = recovering \cup {a}
  /\ UNCHANGED <<pc, latchLogged, ws, live, present, scaled, dropped, events, q,
                 planVars, otherVars, boundVars>>

(* What makes a motion yield: a live code, and for an interruptible one    *)
(* any held movement code, deadman or not.                                 *)
YieldsToLive == live                  \* mutant
Interrupted  == live \/ (interruptible /\ present)

(* The batch is applied: a held key or a lost browser cancels the motion   *)
(* before anything is resolved.                                            *)
InterruptMotion ==
  /\ pc = "events" /\ batch = <<>> /\ pc' = "resolve"
  /\ dropped' = FALSE /\ reseeded' = {}
  /\ \/ /\ motion_active /\ Interrupted
        /\ CancelPlans("movement key")
     \/ /\ motion_active /\ ~ Interrupted /\ dropped /\ interruptible
        /\ CancelPlans("browser disconnected")
     \/ /\ motion_active => ~ Interrupted /\ ~ (dropped /\ interruptible)
        /\ UNCHANGED planVars
  /\ UNCHANGED <<wd, latchLogged, ws, live, present, scaled, faulted,
                 recovering, events, batch, cmd, safe, q, otherVars, boundVars>>

-----------------------------------------------------------------------------
(* Steps 5-7: one step per arm; the plan, the replay, the jog and the      *)
(* teleoperation of the active arm, in that order.                         *)

Toward(from, to) == IF to > from THEN from + 1 ELSE IF to < from THEN from - 1 ELSE from
Clamp(p)         == IF p > MaxPos THEN MaxPos ELSE p        \* the rail end stop
Near(p)          == {r \in Pos : r \in {p, p + 1} \/ r + 1 = p}

Plans(a)   == ~ Stopped(a) /\ wps[a] # <<>>
Replays(a) == ~ Stopped(a) /\ wps[a] = <<>> /\ a \in driven
Jogs(a)    == ~ Stopped(a) /\ wps[a] = <<>> /\ a \notin driven /\ jog[a] # None
Teleops(a) == ~ Stopped(a) /\ wps[a] = <<>> /\ a \notin driven /\ jog[a] = None
              /\ a = activeArm

(* A jog holds under a latched watchdog, and is over at its target.        *)
JogPoint(a) == IF scaled /\ jog[a] # None THEN Toward(cmd[a], jog[a]) ELSE cmd[a]
JogAfter(a) == IF scaled /\ JogPoint(a) = jog[a] THEN None ELSE jog[a]

(* The points an arm's step may resolve to.  PlanExecutor.step moves       *)
(* toward the waypoint.                                                    *)

Resolved(a) ==
  IF Plans(a) THEN {Clamp(Toward(cmd[a], Head(wps[a])))}
  ELSE IF Replays(a) THEN Near(cmd[a])
  ELSE IF Jogs(a) THEN {JogPoint(a)}
  ELSE IF Teleops(a) /\ live THEN Near(cmd[a])
  ELSE {cmd[a]}

Retires(a) == Plans(a) /\ Toward(cmd[a], Head(wps[a])) = Head(wps[a])
ArrivesEarly(a) == Retires(a)         \* mutant: at any waypoint
Arrives(a) == Retires(a) /\ Len(wps[a]) = 1

Resolve ==
  /\ pc = "resolve" /\ pc' = "gate"
  /\ q' \in {f \in [Arms -> Pos] : \A a \in Arms : f[a] \in Resolved(a)}
  /\ wps' = [a \in Arms |-> IF Retires(a) THEN Tail(wps[a]) ELSE wps[a]]
  /\ arriving' = [a \in Arms |-> IF Arrives(a) THEN Head(wps[a]) ELSE arriving[a]]
  /\ jog' = [a \in Arms |-> IF Jogs(a) THEN JogAfter(a) ELSE jog[a]]
  /\ rows' = IF rows > 0 THEN rows - 1 ELSE rows
  /\ UNCHANGED <<inputVars, faultVars, cmd, safe, planState, planStatus, interruptible,
                 cancelReason, deferred, gripSet, hold, driven, playback,
                 activeArm, workers, rec, recSeen, boundVars>>

(* A frozen process: every arm holds this tick (no catch-up step), the     *)
(* recording's clock goes on.                                              *)
ResolveStalled ==
  /\ pc = "resolve" /\ pc' = "gate"
  /\ q' = cmd
  /\ rows' = IF rows > 0 THEN rows - 1 ELSE rows
  /\ UNCHANGED <<inputVars, faultVars, cmd, safe, wps, arriving, planState,
                 planStatus, interruptible, cancelReason, deferred, gripSet,
                 hold, driven, playback, otherVars, boundVars>>

(* A replay step that raises cancels the motion mid-tick: the arms before  *)
(* a have stepped, and a plan of theirs that just reached its goal is no   *)
(* longer in the executor; the arms after a have no motion left.           *)
ReplayStepFails(a) ==
  LET early == {b \in Arms : b < a}
      popped == {b \in early : Arrives(b)}
  IN /\ pc = "resolve" /\ pc' = "gate"
     /\ Replays(a)
     /\ q' \in {f \in [Arms -> Pos] : \A b \in Arms :
                   f[b] \in IF b \in early THEN Resolved(b)
                           ELSE IF b = a \/ Stopped(b) THEN {cmd[b]} ELSE {JogPoint(b)}}
     /\ CancelMotion("replay step failed", MotionArms \ popped)
     /\ jog' = [b \in Arms |->
          IF (b < a /\ Jogs(b)) \/ (b > a /\ ~ Stopped(b)) THEN JogAfter(b) ELSE jog[b]]
     /\ UNCHANGED <<inputVars, faultVars, cmd, safe, activeArm, workers, rec,
                    recSeen, boundVars>>

-----------------------------------------------------------------------------
(* Steps 8-10: the gate's answer, out; then the arrivals, the gate watch,  *)
(* the end of a replay, and the dispatch.                                  *)

(* _confirm_plan_arrivals: an arm that reached its goal is done only if    *)
(* the goal passed the gate, or the travel end keeps it out of reach.      *)
ConfirmsHeld(a, out, blocked) ==      \* mutant: a held arm has arrived
  /\ arriving[a] # None /\ planState[a] = "executing"
  /\ out[a] \in {arriving[a], cmd[a]}

Confirms(a, out, blocked) ==
  /\ arriving[a] # None /\ planState[a] = "executing"
  /\ \/ out[a] = arriving[a]
     \/ ~ blocked /\ out[a] = cmd[a] /\ out[a] = MaxPos /\ arriving[a] > MaxPos

Reloads(a, out, blocked) ==
  arriving[a] # None /\ planState[a] = "executing" /\ ~ Confirms(a, out, blocked)

(* _finish_plan looks at the executor when arm a is confirmed: an arm that *)
(* will be re-loaded after a is not there yet, and the plan is "done".     *)
LastArrival(out, blocked) ==
  /\ ActiveArms = {}
  /\ \E a \in Arms : /\ Confirms(a, out, blocked)
                     /\ \A b \in Arms : Reloads(b, out, blocked) => a < b

(* The gate holds the motion: every arm of it repeats its last command. *)
HoldsResolved(motion, out, blocked) ==     \* mutant: what was asked of the gate
  blocked /\ motion # {} /\ \A a \in motion : q[a] = cmd[a]

GateHolds(motion, out, blocked) ==
  blocked /\ motion # {} /\ \A a \in motion : out[a] = cmd[a]

GateAndDispatch(out, blocked, expired, lapsed) ==
  LET done   == {a \in Arms : Confirms(a, out, blocked)}
      over   == LastArrival(out, blocked)
      wps1   == [a \in Arms |-> IF Reloads(a, out, blocked) THEN <<arriving[a]>> ELSE wps[a]]
      motion == {a \in Arms : wps1[a] # <<>>} \cup driven
      held   == GateHolds(motion, out, blocked)
      since  == IF over THEN 0 ELSE hold
      hold1  == IF motion = {} THEN since ELSE IF held THEN since + 1 ELSE 0
      abort  == held /\ hold1 > HoldLimit                \* _plan_gate_watch
      spent  == driven # {} /\ rows = 0 /\ ~ abort       \* _finish_replay
  IN
  /\ pc = "gate" /\ pc' = "ops"
  /\ cmd' = out /\ q' = out
  /\ arriving' = [a \in Arms |-> None]
  /\ gripSet' = gripSet \cup (deferred \cap done) \cup (IF over THEN deferred ELSE {})
  /\ wps' = IF abort THEN [a \in Arms |-> <<>>] ELSE wps1
  /\ planState' = Cleared(done \cup expired \cup (IF abort THEN motion ELSE {})
                               \cup (IF spent THEN driven ELSE {}), planState)
  /\ planStatus' = IF abort THEN "cancelled"
                   ELSE IF over \/ spent THEN "done"
                   ELSE IF lapsed THEN None ELSE planStatus
  /\ cancelReason' = IF abort THEN "gate hold" ELSE cancelReason
  /\ interruptible' = (interruptible /\ ~ over /\ ~ abort /\ ~ spent)
  /\ deferred' = IF over \/ abort THEN {} ELSE deferred \ done
  /\ hold' = IF abort \/ spent THEN 0 ELSE hold1
  /\ driven' = IF abort \/ spent THEN {} ELSE driven
  /\ rows' = IF abort THEN 0 ELSE rows
  /\ playback' = IF abort \/ motion = {} THEN {} ELSE playback
  /\ recSeen' = rec
  /\ live' = FALSE /\ present' = FALSE /\ scaled' = TRUE      \* tick-local
  /\ UNCHANGED <<wd, latchLogged, ws, dropped, faultVars, jog, activeArm,
                 workers, rec, boundVars>>

(* SafetyGate.filter: clear, every command passes and is the new safe      *)
(* posture; blocked, an arm is held at its own, passes as a bystander      *)
(* (its safe posture stays) or escapes (it follows).                       *)
Gate ==
  \E out, kept \in [Arms -> Pos], blocked \in BOOLEAN, lapsed \in BOOLEAN :
  \E expired \in SUBSET {a \in Arms : planState[a] = "failed"} :
    /\ IF blocked
       THEN /\ \A a \in Arms : /\ out[a] \in {q[a], safe[a]}
                               /\ kept[a] \in {safe[a], out[a]}
            /\ \E a \in Arms : kept[a] = out[a]
       ELSE out = q /\ kept = q
    /\ lapsed => planStatus \in {"done", "failed", "cancelled"}
    /\ safe' = kept
    /\ GateAndDispatch(out, blocked, expired, lapsed)

-----------------------------------------------------------------------------
(* The other threads. *)

Alone == UNCHANGED <<pc, latchLogged, live, present, scaled, cmd, safe, q, planVars>>

(* A fresh KeysMsg; an empty one is the only way back to "ok". *)
KeysMsg(held) ==
  /\ pc = "ops"
  /\ ws' = held
  /\ wd' = IF ~ held THEN "ok" ELSE wd
  /\ UNCHANGED <<dropped, faultVars, otherVars, boundVars>> /\ Alone

BrowserDrops ==
  /\ pc \in {"ops", "events"}
  /\ wd' = "await" /\ dropped' = TRUE
  /\ UNCHANGED <<ws, faultVars, otherVars, boundVars>> /\ Alone

(* The driver stops an arm, and later streams from its measured posture. *)
Silent(a) == \A i \in 1..Len(events) : events[i].arm # a

DriverFault(a) ==
  /\ pc = "ops" /\ faults < MaxFaults /\ faults' = faults + 1
  /\ a \notin faulted /\ Silent(a)
  /\ events' = Append(events, [kind |-> "fault", arm |-> a])
  /\ UNCHANGED <<wd, ws, dropped, faulted, recovering, batch, reseeded,
                 otherVars, motions, inputs, episodes, gotos>> /\ Alone

DriverRecovers(a) ==
  /\ pc = "ops"
  /\ \/ a \in faulted /\ Silent(a)
     \/ \E i \in 1..Len(events) :      \* fault and recovery within one tick
          /\ events[i] = [kind |-> "fault", arm |-> a]
          /\ \A j \in 1..Len(events) : events[j].arm = a => j <= i
  /\ events' = Append(events, [kind |-> "recovered", arm |-> a])
  /\ UNCHANGED <<wd, ws, dropped, faulted, recovering, batch, reseeded,
                 otherVars, boundVars>> /\ Alone

(* The recorder thread finishes a save or a discard. *)
EpisodeEnds ==
  /\ pc = "ops" /\ rec /\ rec' = FALSE
  /\ UNCHANGED <<wd, ws, dropped, faultVars, jog, activeArm, workers,
                 recSeen, boundVars>> /\ Alone

-----------------------------------------------------------------------------
Ops ==
  \/ \E a \in Arms, path \in Paths, inter \in BOOLEAN, grips \in SUBSET Grippers :
        ExecutePlan(a, path, inter, grips)
  \/ \E grips \in SUBSET Grippers : ExecuteGripperOnly(grips)
  \/ \E S \in Recorded : \E paths \in [S -> Paths] : PlaybackPath(paths)
  \/ \E S \in Recorded : ReplayActions(S)
  \/ CancelPlan
  \/ Takeover
  \/ \E a \in Arms : SwitchArm(a)
  \/ \E a \in Arms, p \in Pos : JointJog(a, p)
  \/ \E a \in Arms : JointGoto(a)
  \/ \E a \in Arms : PlanFailed(a)
  \/ \E a \in Arms, path \in Paths : PlanReady(a, path)
  \/ EpisodeNew

Events ==
  \/ \E a \in Arms : OnFaultEvent(a)
  \/ \E a \in Arms : OnRecoveredEvent(a)

Environment ==
  \/ \E held \in BOOLEAN : KeysMsg(held)
  \/ BrowserDrops
  \/ \E a \in Arms : DriverFault(a)
  \/ \E a \in Arms : DriverRecovers(a)
  \/ EpisodeEnds

Tick ==
  \/ ReadInputs
  \/ Events
  \/ InterruptMotion
  \/ Resolve
  \/ ResolveStalled
  \/ \E a \in Arms : ReplayStepFails(a)
  \/ Gate

Next == Ops \/ Tick \/ Environment

Spec == Init /\ [][Next]_vars

(* The control thread runs at its rate, and process stalls (an encoder     *)
(* opening or flushing at an episode's ends) stop some day: a stalled tick *)
(* restarts the gate-hold clock.  Nothing is assumed of the browser, the   *)
(* driver or the gate.                                                     *)
Fairness == WF_vars(Tick) /\ <>[][~ ResolveStalled]_vars

FairSpec == Spec /\ Fairness

-----------------------------------------------------------------------------
(* Properties *)

InMotion(a) == wps[a] # <<>> \/ a \in driven \/ arriving[a] # None

Event == [kind : {"fault", "recovered"}, arm : Arms]

(* The state the loop can be in. *)
FlagTypeOK ==
  /\ latchLogged \in BOOLEAN /\ ws \in BOOLEAN /\ live \in BOOLEAN
  /\ present \in BOOLEAN /\ scaled \in BOOLEAN /\ dropped \in BOOLEAN
  /\ interruptible \in BOOLEAN /\ rec \in BOOLEAN /\ recSeen \in BOOLEAN

MotionTypeOK ==
  /\ cmd \in [Arms -> Pos] /\ safe \in [Arms -> Pos] /\ q \in [Arms -> Pos]
  /\ wps \in [Arms -> Seq(Goal)]
  /\ arriving \in [Arms -> Goal \cup {None}]
  /\ planState \in [Arms -> {None, "planning", "executing", "failed"}]
  /\ planStatus \in Status \cup {None}
  /\ cancelReason \in Reason \cup {None}
  /\ deferred \subseteq Arms /\ gripSet \subseteq Arms /\ hold \in Nat
  /\ driven \subseteq Arms /\ rows \in Nat /\ playback \subseteq Arms

RestTypeOK ==
  /\ pc \in {"ops", "events", "resolve", "gate"}
  /\ wd \in {"ok", "tripped", "await"}
  /\ faulted \subseteq Arms /\ recovering \subseteq Arms /\ reseeded \subseteq Arms
  /\ events \in Seq(Event) /\ batch \in Seq(Event)
  /\ jog \in [Arms -> Pos \cup {None}] /\ activeArm \in Arms
  /\ workers \in [Arms -> Nat]
  /\ motions \in Nat /\ inputs \in Nat /\ episodes \in Nat
  /\ gotos \in Nat /\ faults \in Nat

TypeOK == FlagTypeOK /\ MotionTypeOK /\ RestTypeOK

(* The executor, the replay and _plan_state never disagree on which arms   *)
(* execute: a plan nobody reports, or a report nobody clears, would refuse *)
(* every later goto (_any_plan_in_flight) or let a second motion start.    *)
ExecutorMatchesState == \A a \in Arms : planState[a] = "executing" <=> InMotion(a)

(* The executor holds two arms only along a path recorded that way: "the   *)
(* loop is the last line" (_op_execute_plan), also against the result of a *)
(* goto whose planning a fault forgot and whose place another motion took  *)
(* (_op__plan_ready).  A replay is no part of the executor, and such a     *)
(* result is loaded beside it.                                             *)
InExecutor(a) == wps[a] # <<>> \/ arriving[a] # None

OneArmPerPlan ==
  \A a, b \in Arms : InExecutor(a) /\ InExecutor(b) /\ a # b => {a, b} \subseteq playback

(* On a tick that sampled a held movement code no interruptible motion     *)
(* takes a step, whatever the deadman says; on a live code, no motion at   *)
(* all does (run_tick, the cancel before step 5).                          *)
InputWins ==
  pc = "gate" /\ (live \/ (interruptible /\ present)) => \A a \in Arms : ~ InMotion(a)

(* While an arm waits for the operator's release after a recovery, its     *)
(* command and the gate's hold point are the re-seeded posture; a hold     *)
(* cannot take it anywhere (reseed_arm, supervisor.reseed).                *)
RecoveringHolds == \A a \in recovering : safe[a] = cmd[a] /\ (pc = "gate" => q[a] = cmd[a])

(* A motion of an arm ends at its goal, or at the end of the travel the    *)
(* goal lies beyond, or at the end of the recording; any other end leaves  *)
(* a reason for the manager's worker to report (plan_cancel_reason).       *)
EndsAtGoalOrSaysWhy ==
  [][\A a \in Arms :
       planState[a] = "executing" /\ planState'[a] # "executing" =>
         \/ arriving[a] # None /\ cmd'[a] = Clamp(arriving[a])
         \/ a \in driven /\ rows = 0
         \/ cancelReason' # None]_vars

(* Every motion ends: it arrives, or the gate watch, an input or a fault   *)
(* ends it.  Two cases are left out because the code leaves them open: an  *)
(* arm a fault stopped keeps a late goto until it runs again, and while    *)
(* another arm is blocked the gate may set an arm back to an old hold      *)
(* point time and again, which the gate watch takes for progress.          *)
SetBack == pc = "gate" /\ \E a \in Arms : cmd'[a] \notin {q[a], cmd[a]}

PlanTerminates ==
  \/ []<><<SetBack>>_vars
  \/ \A a \in Arms : InMotion(a) ~> ~ InMotion(a) \/ Stopped(a)
=============================================================================
