# A verified model of apollo-mavis-v2-runtime

The runtime drives a two-arm robot cell: a browser, a recording or a policy says what to
do, a 100 Hz control loop turns it into joint targets, a gate holds what would collide, one
thread per arm sends the targets, a recorder writes what happened as episodes, a trainer
learns from them, and an external bus carries the cell's state to other machines. This
directory models the parts of it where threads, processes, requests, faults and files meet,
checks them with TLC on small instances and proves results about the control loop, its
dispatch, sessions, episodes, their columns and their replay, policies, training, the boxes, the
homing of a rail, the tracker's calibration, its presses, the clutch and the external bus for
every instance. Paths below are relative to `src/apollo_mavis_v2_runtime/`.

Run a check with `tlc -workers 2 -config <cfg> <module>` and a proof with
`tlapm <module>.tla`. `PROJECT.json` lists the runs, the source lines behind every
definition, the hazards the properties are about and, for each checked property, a change
to the model that a bug in the code would amount to and that breaks it.

## 1. The system

| Part | State it keeps | Operations | Talks to |
|---|---|---|---|
| Control loop (`control/loop.py`, `joint_panel.py`) | commanded posture, motion of each arm, jog targets, plan status, recovery marks | one handler per command; per tick: drain, sample inputs, apply fault events, step, gate, dispatch | bus in; gate, senders, recorder out; fault callback to the manager |
| Safety gate (`safety/gate.py`, `supervisor.py`) | last safe posture, blocked flag, pairs | `filter`, `reseed` | called by the loop |
| Arm senders (`control/arm_sender.py`) | depth-1 slots, pause flag, last gripper target | `put`, `pause`, `resume`, the thread's loop | loop in; driver out |
| Session manager (`session/manager.py`, `hardware.py`) | the live session, bring-up rows, the profile-motion claim | `create`, `teardown`, start_from, profile motions, playback | server in; loop through the bus |
| Playback (`recorder/playback.py`, `dagger/replay_source.py`) | the episode read, its resampled path | read, resample, verify, replay | manager, loop |
| Recorder (`recorder/thread.py`, `episode_recorder.py`) | idle/recording/saving, open episode, in-memory manifest | `request`, the thread's iteration, save, discard, finalize | loop in; disk; manager's hook |
| Datasets (`recorder/manifest.py`, `datasets.py`, `export_lerobot.py`) | episode directories, `manifest.json`, the export job | list and sweep, delete, export | server in; same disk as the recorder |
| DAgger session (`dagger/loop.py`, `gate.py`, `policy_runner.py`, `reloader.py`) | gate mode per arm, runner's slot, staged and running version, strikes | takeover, handback, boundaries, hot swap, rollback | subclass of the loop and the recorder |
| Trainer and client (`dagger/trainer/`, `client.py`) | checkpoints on disk, requests, the child process | train, checkpoint, restart, stop | own process; disk; recorder |
| Online DAgger (`dagger/online_dagger.py`) | phase, rollouts, `session.json` | statuses, rollout hooks, resume | bus; recorder |
| dora bridge (`dora_bridge/`) | slots, FIFO, attachment, joins, child processes | publish, attach, detach, rescan, join | every producer; remote policy |
| Boxes (`devices/hardware_monitor.py`, `rail_homing.py`, `rail_sweep.py`) | who holds a control box, the homing job, the cached plan | pause, resume, maintenance, dry run, confirm | manager, server |
| Who watches (`session/orphan.py`, `server/ws_control.py`) | controller role, countdown | poll, connect, leave | server, manager |
| Inputs (`safety/watchdog.py`, `devices/tracker.py`, `tracker_calibration.py`, `control/tracker_teleop.py`) | freshness, button edges, poses, calibration flow, clutch anchors | feed, scale; publish, read; start, install, abort | server, device threads; loop |
| Server, streams, profiles, configuration, tools | no control state of their own | | |

The hard behaviours lie between two of these: a key pressed on the tick a motion arrives; a
fault and its recovery between two steps of a thread that holds a target; a session ending
under a worker that waits for its loop; a save still running when the next session opens the
same dataset; a trainer that dies between two files of a checkpoint; a bus that detaches
while a producer publishes; a monitor that decides on a predicate read before it took the
lock. `PROJECT.json` lists them at their lines under "hazards".

What makes each part correct, and where it is stated:

* Control loop: the operator wins (`InputWins`); a recovered arm holds until its keys are
  released (`RecoveringHolds`); a motion ends, at its goal or with a reason
  (`EndsAtGoalOrSaysWhy`, `PlanTerminates`); books agree with what moves
  (`ExecutorMatchesState`); the executor holds two arms only along a path recorded for both
  (`OneArmPerPlan`).
* Gate and senders: what goes out is the command or a posture that was safe
  (`SafeIsCommand`); a recovered arm stays (`RecoveredArmStays`); a paused sender forgets
  (`DrainedIsClean`); a standing command arrives (`Delivered`).
* Session: drivers and loop are up for the session that is live or coming up, or were left
  by a step of taking theirs down that raised, and no loop runs without its drivers
  (`RigOwned`); no session stuck in its start (`StartSettled`); every worker ends
  (`WorkersEnd`).
* Recorder and datasets: an episode is on disk whole or not at all (`SavedIsWhole`); a
  temporary directory has an owner (`TempHasOwner`); each episode is announced once, and
  what was announced is there (`ToldOnce`); saving ends (`SavingEnds`).
* Playback: a replay gives the arms what was recorded (`ReplayIsTheRecording`).
* DAgger: one boundary per episode seen (`OneBoundaryEach`), no load while the policy acts
  (`WeightsStandDuringAct`), versions as promised (`VersionsKept`).
* Trainer: `LATEST` names a whole checkpoint (`LatestIsWhole`), none is written twice
  (`NeverRewritten`), no process is left behind (`NoneLeftBehind`).
* Online DAgger: the phase is the newest status' (`PhaseIsNewest`); a session closed in
  order has told each of its rollouts and named it in its file (`NothingUntold`).
* Bridge: what arrives keeps its order (`FeedKept`); the bus thread always gets back
  (`BusRecovers`); the boxes are free when a session takes them (`BoxesAreFree`); the
  reference node's status settles (`StatusSettles`).
* Boxes: one owner per box (`OneOwner`); the monitor follows the hand-over
  (`MonitorFollows`); a path verdict means what it says (`VerdictIsSafe`); a rail homes only
  from a posture whose sweep was checked (`HomesSafely`).
* Inputs: no session during a calibration and no calibration during a session
  (`GuardsExclude`); one receiver (`OneContext`); a press fires once (`EdgesFireOnce`); a
  still hand moves nothing (`StillHandStays`); silence stops the arm (`SilenceStops`); a
  session whose controller is gone ends (`AbandonedEnds`).

## 2. Modules

| Module | Models | Composition |
|---|---|---|
| `ControlLoop` | the loop with `PlanExecutor` and `JogState` | `MCControlLoop` |
| `SafetyGate`, `ArmSender` | `filter`/`reseed`; one sender thread, its slots | extended by `Dispatch` |
| `Dispatch` | the end of a tick: events, gate, slots, senders, drivers | `MCDispatch` |
| `Session` | `create`, bring-up, `teardown` | extended by `SessionMotions` |
| `SessionMotions` | the loop as the manager sees it, workers, the command bus | `MCSession`, `MCEnds` |
| `EpisodeStore` | one dataset directory and what clients ask of it | extended by `Recorder` |
| `Recorder` | recorder thread, episode directory, create/teardown of them, restart | `MCEnds` |
| `PolicyRunner`, `Reloader` | the act thread and its slot; staging, swap, rollback | extended by `Dagger` |
| `Dagger` | who drives an arm, the tick, the boundary step by step, the recorder's part in it | `MCDagger`; implements `PolicyVersions` |
| `PolicyVersions` | abstract: how the driving version may change | instantiated by `Dagger` |
| `Checkpoints` | the store on disk, file by file | extended by `Trainer` |
| `Trainer` | the trainer process, the client's thread, restart and stop | `MCLearning` |
| `Online` | coordinator, worker, statuses, `session.json`, crash and resume | `MCLearning` |
| `DoraBridge` | coordinator, daemon and the start barrier; the bus thread, producers, joins, stop | `MCBridge`; implements `EventFeed` |
| `EventFeed` | abstract: a lossy channel that keeps order and repeats nothing | instantiated by `DoraBridge` |
| `PolicySource`, `IdleArms`, `TrainerNode` | observations and answers; the idle reader around sessions; the reference node | `MCBridge` |
| `Boxes` | monitor, supervisor, maintenance, homing job, create/teardown, three locks | `MCBoxes` |
| `HomePlan` | the position-agnostic path check; dry run, confirmation, execution | `MCBoxes` |
| `Playback`, `Columns` | the replay of an episode; whose value is in which column | `MCBoxes` |
| `Attendance`, `Watchdog`, `Calibration`, `TrackerInput`, `Clutch` | role and orphan watch; two threads without a lock; flows, worker and reader; presses and poses; anchors | `MCInputs` |
| `*_proofs` | theorems about the modules they extend (part 4) | |

An MC module gives constants their values. Where it EXTENDS several components that share
no state while they run, a variable `part` says which of them a behaviour is about: the
union of the parts' behaviours is checked and nothing is assumed about one part by another.
Components that do interact are composed by EXTENDS in the modules themselves.

**ControlLoop.** `pc` is the phase of `run_tick`: `ops` (one action per `_op_*` handler),
`events` (inputs sampled, driver events applied), `resolve` (a held key may cancel; each arm
takes its step), `gate` (the answer, arrivals, gate watch, dispatch). Threads that only
write what one phase reads take their steps in `ops`; a dropped browser can happen anywhere.
A plan worker is a separate action that delivers later, or too late. A posture is a point on
a line, one point per tick at full slew. Kinematics, the velocity cap and controller error
codes without an event are left out. Which arms the gate holds, what the device codes say
and whether an arrival's linger has expired are nondeterministic.

**Dispatch.** A tick is two steps: step 3 with its events, then gate and slots. The sender
is six: wait, pause test, `command_joints`, and the gripper's compare, mark and send. The
driver refuses while it is stopped. The clearance of a pair is a constant `Dist` of the
configuration, so the proofs hold for every geometry. One sender is watched; the other arm
only takes part in the geometry.

**Session, SessionMotions.** `lock` is where the holder of the manager's `_lock` stands; every
other thread runs beside it, walked by `pc[w]`. A wait with a deadline may end either way; the
test for a running plan and the submission are one step; a replay is taken as a plan; a wait for
a command's result times out only when no loop will answer. Up to `MaxFailures` steps of taking
a rig down raise: a step of `teardown`, whose `try` has a `finally` and no `except`, skips the
rest of it and the session is forgotten all the same (`EndLoopFails`, `EndRigFails`); one of
unwinding a bring-up leaves drivers, or loop and drivers, behind (`BringUpLeavesRig`,
`BringUpLeavesAll`).

**EpisodeStore, Recorder.** `life[s]` is what the manager has done with the recorder of
session `s`, `pc[s]` where its thread is. The 30 s of `stop()` may end while the thread is at
an episode; the session is then over and the thread goes on. Directories are sets of parts
(`video`, `frames`, `json`); ids are numbers in the order they were minted. One dataset, one
client request at a time, episodes of equal length; what a capture becomes is
nondeterministic. The in-memory manifest is kept only while a write of it is under way.

**Playback, Columns.** A request reads the episode, compares the joints with frame 0,
resamples, claims, verifies and submits, in steps between which keys may move an arm or
another motion may come and go. A tick moves every arm of the path; the executor goes on to
its next waypoint before the gate may hold any of them, and only a held goal is loaded again.
Postures are a joint and a carriage in whole units. An action replay commands the row that is
due or holds. `Columns` builds every name list up to a length and asks the parsers and
`ReplayActionSource` what they make of it; a column's value is its own name.

**Dagger.** A tick is `ops`, boundary, `drive`, motion; a boundary waits for the policy lock,
so it is several steps (`load`, `loaded`, `resume`). The runner's act is two steps under the
policy lock, its flags have no lock. **Trainer, Checkpoints.** One action per file of a
checkpoint, a death anywhere, a client that sends one request at a time, waits two seconds,
and restarts a dead process once; a request outlives its client. **Online.** Statuses carry
the time they were received; the cache's replay races the newest. The process may die
between two steps and a session of the same name resumes.

**DoraBridge and the external interface.** One action per step of the bus thread; producers
only fill a slot or the FIFO; a fault makes a child, the dataflow or a command fail.
`PolicySource` numbers observations and lets the answer be stored after the check.

**Boxes.** Monitor, supervisor, create/teardown and the homing job step by step, with what
each read before it took its lock. `HomePlan` builds every walk of configurations up to a
length and compares the verdict with its definition.

**Inputs.** `Watchdog` reads and writes field by field, times are ages. `Calibration` has one
action per command and per step of its worker, and the reader it restarts; an install that
finds no temporary file, since a yaw flow began after the abort, fails that flow. `TrackerInput` is
the depth-1 slot with its edge history. `Clutch` is one axis of one arm, one setting of scale
and yaw out of two; the hand moves or stands still.

## 3. Runs

| Run | Module / cfg | Instance | Properties |
|---|---|---|---|
| `motions` | `MCControlLoop`, `ControlLoop_motions.cfg` | 2 arms, 2 motions and 1 command, or a goto, an episode and 1 command | `ExecutorMatchesState` `InputWins` `EndsAtGoalOrSaysWhy` |
| `faults` | `MCControlLoop`, `ControlLoop_faults.cfg` | 2 arms, 1 fault and recovery, 1 motion, and 1 command or a goto | `RecoveringHolds` `OneArmPerPlan` `PlanTerminates` |
| `dispatch` | `MCDispatch` | 2 arms and a wall, 1 sender, 1 fault, 1 gripper target | `SafeIsCommand` `RecoveredArmStays` `DrainedIsClean` `Delivered` |
| `session` | `MCSession` | 2 sessions; 1 profile motion and 1 fault, or a goto, or a step of taking down that raises | `RigOwned` `StartSettled` |
| `ends` | `MCEnds`, `Ends.cfg` | 1 session, 2 motions or 1 and a goto, a step of taking down that raises; or a recorder, 2 failures, 1 request or a second session | `WorkersEnd` `SavingEnds` |
| `recording` | `Recorder` | 2 sessions, 2 episodes, 1 client request, 2 failures | `SavedIsWhole` `TempHasOwner` `ToldOnce` |
| `dagger` | `MCDagger` | 2 arms, 2 episodes or a change of arms, 1 takeover, 1 bad row, 2 versions | `OneBoundaryEach` `WeightsStandDuringAct` `VersionsKept` |
| `learning` | `MCLearning` | 2 versions, 2 requests; or 2 sessions of a name, 3 statuses, 2 rollouts | `LatestIsWhole` `NeverRewritten` `NoneLeftBehind` `NothingUntold` `PhaseIsNewest` |
| `bridge` | `MCBridge` | 1 fault, 2 joins, a FIFO of 1; 3 observations; idle reader; reference node | `FeedKept` `BusRecovers` `BoxesAreFree` `StatusSettles` |
| `boxes` | `MCBoxes` | 2 arms, 1 session, 3 requests; walks of 3; 2 candidates; replays of 3 frames; 6 columns | `OneOwner` `MonitorFollows` `VerdictIsSafe` `HomesSafely` `ReplayIsTheRecording` |
| `inputs` | `MCInputs` | 2 browsers and sessions; 3 key messages; 2 flows; 3 presses; two clutch settings | `GuardsExclude` `OneContext` `EdgesFireOnce` `StillHandStays` `AbandonedEnds` `SilenceStops` |
| `claim_prefault_never_sent` | `MCDispatch` | as `dispatch` | `PrefaultNeverSent`, violated |

**Bounds.** Two arms are needed where one arm's arrival can end another's motion and one
where a fault meets a motion; two motions let the second meet what the first left behind; a
travel of two or three points has a step under way, an arrival and a goal past the end. In
`motions` a behaviour (`scope`) has either the manager's motions or the panel's gotos with an
episode. In `faults` it has either the keys, the browser and a command, with arm 1 at rest and
a fault of arm 2 (`keys`), or a goto whose result may come late, a fault of arm 1 and one plan,
path or replay of either arm, with no key held (`late`): the second is where a fault forgets a
planning, another motion begins and the old result arrives. In `session` it has a profile
motion asked of the first session and a fault, a goto, or a failing step of a simulated or
hardware rig's end; in `dagger` either episodes with one active arm or arms changed with no
episode (the gate refuses to change arms while one is engaged). Two sessions are what it
takes for one to meet the other's leftovers, two failures to degrade a recorder (two failed
saves) or to crash after one. In `recording` only the first session ends (`Ending`), as the
end of the second meets nobody; `ends` lets both end. `FewAsked` and `AskedOrTwo` in `MCEnds`
keep the two widest dimensions apart: two motions or a goto beside one, a client's request or
a second session. Two versions are what a rollback and a half-written successor need, a FIFO
of one is at its limit with the second payload, and one fault at any step reaches every error
path of the bus thread. A walk of three configurations is in, out and back in, or two steps
each within the tolerance of the one before; three frames are two segments with different
numbers of ticks, one hold and one stray arm desynchronise either. Six columns hold two whole
blocks with their carriages. An edge history of two overflows with the third press, which the
run assumes the loop prevents by reading once in between, as it does at 100 Hz.

**Deadlock** is checked in `motions`, `faults` and `dispatch`. The other systems do stop when
sessions are over and nobody asks for anything, and their configurations say so.

**Fairness.** `ControlLoop`: the thread's phases go on, and stalls of the process stop some
day (the loop catches whatever a tick raises). `Dispatch`: the tick and the sender; the
driver owes nothing, not even a recovery. `ends`: each thread's next step, as every wait in a
worker has a deadline; the recorder's thread and the manager's current call. `learning`: the
trainer's process, the client's thread and the caller of stop. `bridge`: the bus thread.
`boxes`: the supervisor, which polls. `inputs`: the watch and what it asks of the manager; the
loop's and the server's threads, the tick strongly, since the server's writes may disable it
between its steps for ever. Requests, faults, planners, policies, hands and clients are never
fair.

**Refinement.** `FeedKept` says that `DoraBridge` implements `EventFeed`: every step that
hands a payload to a consumer is a delivery in the order of publication, the others stutter
or lose; TLC finds an order broken or a payload repeated. `VersionsKept` says that `Dagger`
implements `PolicyVersions`, with the running weights and an episode's being open as its
state: changes between episodes and forwards, and inside one only back to the last good one.

## 4. What is proved

Each theorem holds for every value of the constants that satisfies the named assumptions of the
modules it is about (`LoopAssumption`, `GateAssumption`, `DispatchAssumption`,
`SessionAssumption`, the `StoreAssumption` of `EpisodeStore` and that of `Checkpoints`,
`RecorderAssumption`, `RunnerAssumption`, `DaggerAssumption`, `TrainerAssumption`,
`OnlineAssumption`, `BridgeAssumption`, `IdleAssumption`, `NodeAssumption`, `ClutchAssumption`,
`SweepAssumption`, `PlanAssumption`, `TrackerAssumption`, `ColumnsAssumption`,
`PlaybackAssumption`): they say that bounds are numbers, that sets of arms or paths are not
empty where the code needs one, that the arms of a cell are finitely many, that an episode that
can be read has a frame and a posture in each frame of every arm it names, and that a value that
stands for "nothing" is none of the others. TLC evaluates them in every run. Each proof is an
inductive invariant: the property with what it needs to be preserved by every action alone. The
invariants were checked with TLC on the instances of the runs before they were proved. A theorem
is about its component's own specification (`TrainerSpec`, `CluSpec`, ...); a run that puts
several components side by side (`MCLearning`, `MCInputs`, `MCBridge`) lets one of them step at
a time and leaves the others as they are.

| Module | Theorems | Inductive invariant |
|---|---|---|
| `ControlLoop_proofs` | `TypeCorrect`, `RecoveredArmHolds`, `OperatorWins`, `MotionReported`, `MotionAlone`, `MotionEndsOpenly` | the types, in three parts with a lemma per phase; `ReseedHolds`, `ArrivalsWithinTick`, `InputObeyed`, `MotionInv`; `EndsOpenly` per step |
| `Dispatch_proofs` | `DispatchTypeCorrect`, `HoldPointIsCommand`, `RecoveredStays`, `DrainedForgets` | `CommandAligns`, `ReseedStands`, `HandHolds`, `TakenIsLast` |
| `Session_proofs` | `SessionTypes`, `RigsAreOwned`, `StartsSettle` | `SessionInv` |
| `Recorder_proofs` | `RecorderTypes`, `SavedEpisodesAreWhole`, `TempsHaveOwners`, `EpisodesToldOnce`, `ReplayInStep`, `ReplaysAreTheRecording` | `RecInv`, `EpisodeInv` |
| `Dagger_proofs` | `DaggerTypes`, `OneBoundary`, `WeightsStand`, `SessionKeepsVersions` | `DaggerInv` |
| `Learning_proofs` | `TrainerTypes`, `LatestStaysWhole`, `VersionsStand`, `OnlineTypesHold`, `PhaseFollowsNewest`, `NothingLeftUntold` | `TrainerInv`, `OnlineInv` |
| `Bridge_proofs` | `BridgeTypes`, `BridgeKeepsFeed`, `IdleLeavesBoxes`, `NodeStatusSettles` | `BridgeInv`, `IdleInv`, `NodeInv` |
| `Devices_proofs` | `BoxTypes`, `OneOwnerOfTheBoxes`, `SessionsAndFlowsExclude`, `PathVerdict`, `SweepVerdict`, `RailHomesSafely`, `OneReaderContext`, `PressesFireOnce`, `StillHandHoldsTarget` | `BoxInv`, `HomeInv`, `CalInv`, `TrkInv`, `CluInv` |

**Control loop.** `RecoveringHolds` is not inductive alone, as the re-seed writes the gate's
hold point before the tick has finished; `ReseedHolds` says what holds in between. `InputWins`
speaks of the step just taken; `ArrivalsWithinTick` and `InputObeyed` carry from the resolve
phase to the gate phase what was cancelled. `OneArmPerPlan` (`MotionAlone`) holds with gotos,
faults and late results in any order and needs no other invariant: a plan is put into the
executor when it is empty (`LoadedAlone`, which covers the late result of `_op__plan_ready`), an
arrival reloads the arm it was of, everything else only takes out (`ExecutorShrinks`).
`ExecutorMatchesState` and `EndsAtGoalOrSaysWhy` follow from `MotionInv` when no goto is asked
for or no driver fault happens (`Sheltered`, an assumption of the two statements): a fault
clears the planning of a goto and leaves its worker, whose result is loaded beside a running
replay, and then the books disagree (part 5). `EndsAtGoalOrSaysWhy` speaks of a step: an arm
whose motion ends in it has come to the end of its path, of the travel or of the recording, or a
reason is there (`EndsOpenly`). The arrival is judged where the gate let the arm go, which
`ArrivalsWithinTick` relates to the goal that was retired a phase before.

**Dispatch.** `HoldPointIsCommand` rests on `CommandAligns` and `ReseedAligns` per tick,
`RecoveredStays` on `ReseedStands`, `DrainedForgets` on `HandHolds` (what a thread holds
between its steps) and `TakenIsLast`.

**Session.** `RigOwned` speaks of drivers and loops, for any number of steps that raise. Whose
they are is kept because of where the holder of the manager's lock stands (`RigInv`): before the
publication a rig is that of the session being born or of one that failed, from the stop on the
live one's loop is down unless it failed; what a failing step leaves is noted in `left` as it
happens, and a loop that is left running keeps its drivers, since each way down ends the loop
before it disconnects them. For `StartSettled`, `SettleInv` says that only the worker makes
START_FROM of a session, that it is then still at one of its steps, and that no callback on its
way takes a session back there.

**Recorder.** A directory is whole when it is published because of how far its writing was
at each step of the thread (`Progress`), unless somebody swept it, which is recorded; ids are
one recorder's (`Ids`); a client removes only what its owner gave up (`Clients`); and the hooks
have heard of an episode still open only when recording is degraded (`Book`), which is what
makes `ToldOnce` hold over stops, crashes and restarts.

**Columns.** The parsers and `ReplayActionSource` are loops over a list of names, here
recursive functions of how far the loop has come. What such a function computes for a list of
any length goes by induction on that number; the library's induction theorems take a predicate,
which the provers cannot instantiate, so induction is stated for a set (`NatSetInduction`,
proved from the well-foundedness of the naturals) and a loop's run is constructed with it
(`LoopRuns`). An accepted column is whole layouts because the blocks of `Runs` tile it
(`RunsChain`); whole layouts are accepted because `Runs` of them makes one block per arm
(`LaidRuns`). A row is a function of the names, and the slice of an arm is that function of
the arm's layout (`SliceIs`), wherever it lies. For a measured state, `ColumnOf` is a place of
the name and `Named` is one-to-one onto the arms with a joint, a gripper or a carriage in it.

**Replay.** `LockstepIsVerified` needs that the plan is *good* (`EpisodeInv`): as many waypoints
for every arm, each within a tick of the one before. `ResampledIsGood` is that lemma about
`resample`, by induction over the frames: the ticks of a segment suffice for every joint and
carriage (`StepsSuffice`), and equal parts of a way differ by at most one of as many caps
(`PartSteps`). Then each tick brings every arm of the path to its next waypoint exactly
(`TowardPosture`, `TickFollows`), until the gate holds one. `ReplayInStep` is this result for
the replay alone; `ReplaysAreTheRecording` has the columns beside it.

**DAgger.** `OneBoundaryEach` needs what the loop knows of the recorder's episode while the
boundary is between its halves (`EpisodeInv`): a boundary may read a state that the recorder
has left already. `VersionsKept` is the refinement of `PolicyVersions`: `WeightsInv` says what
is loaded between the load and the note of it, so that each step of the session is a step of
the abstract specification or none. `StrikeInv` only serves the types: a strike was paid for by
a row that was not finite.

**Trainer.** `LatestIsWhole` is inductive with `WritingInv`: the versions on disk are those
from 0 on without a gap, the last is the one in writing once its directory is made, and where
the process stands says which of its files are there, so that LATEST advances only to a version
that has just had its last one. `NeverRewritten` follows from the step lemma of the same
invariant (`StoreKept`): a new process begins behind the last directory, whole or not
(`NewestIsOnDisk`). `Flags`, `Standing` and `Asking` only serve the types.

**Online DAgger.** `PhaseIsNewest` needs that the newest status delivered is the one the
coordinator has taken (`ViewInv`). `NothingUntold` needs three things: the count equals the
rollouts in memory, in the file and in every document on its way there (`DocInv`); a session
that closes has its last document in the file or last in the worker's line (`LifeInv`); and the
announcements in line continue those on the wire, one number each, up to the count (`ToldInv`),
which is what a worker that drops, doubles or reorders its line would break. An orderly close
leaves the line empty, so nothing is left to tell.

**Bridge.** `FeedKept` is the refinement of `EventFeed`. `FeedInv` says that the payloads on
their way - drained, in the slot or in the FIFO - are newer than the last heard and not newer
than the last said, in this order; a full FIFO keeps it (`QueueTakes`, `TailOfQueue`), a
detach drops all of them. A producer that has looked still has room (`SideInv`) and may put its
payload after any detach. Then a put is a `Say`, a send is a `Hear` and every other step
stutters. `BridgeTypes` needs that a restart knows its machine.

**Boxes.** `OneOwner` is preserved because of the reservation: one call or one job holds it
(`HomingInv`), and whoever looked at the cell while it was reserved has seen no carriage move;
and because of the lock, whose holder alone raises the flag of a hardware bring-up (`LockInv`).

**Rail homing.** The running reference of `check_path` and the definition of a safe path agree
for every path (`PathVerdict`), by induction over its configurations: after each of them the
reference of a pair that has been in violation since the start is the largest distance it had
(`Tracks`), and a pair that was clear once has none. `SweepVerdict` is the checked property,
whatever walk is built. `HomeInv` carries the verdict from the second plan, made when the
confirmation comes, to the motion and to the carriage's step at the end of it.

**Calibration.** `GuardsExclude` is kept by the second look: while a session is up beside a flow
there is a call that has yet to look again (`SessionInv`), since a flow only begins when there
is no session. `OneContext` follows from `ReaderInv`: the handle is kept exactly as long as its
context is open, a close that times out included.

**Tracker input.** `TrkInv` says what a sample in the slot carries: every press up to its
counter that the history still has, in the order of their numbers (`Covers`, `Rising`), and that
the counter the loop saw last is behind every sample and ahead of every press it fired or passed
over. The comprehension that selects the actions is a loop over the history (`Those`), so that
what it keeps, and in which order, goes by the induction of the columns.

**Clutch.** `StillHandStays` needs that the anchors make just the present target of where the
hand is, under the settings applied last (`StillInv`), so that a change of the settings, which
takes the anchors again at the intent, moves nothing; and that anchors and seed are of the arm
the clutch was held on at the last tick (`PressInv`), so that a press begins where the arm is
(`EngagingHolds`, `StillFollowed`).

Only model-checked, and why:

* liveness (`PlanTerminates`, `Delivered`, `WorkersEnd`, `SavingEnds`, `BusRecovers`,
  `MonitorFollows`, `NoneLeftBehind`, `AbandonedEnds`, `SilenceStops`), which is beyond the
  prover;
* the type invariant of `TrainerNode`, which counts jobs with `SelectSeq`; the theorem about
  the node has the types it needs in `NodeInv`.

## 5. Where the code and its words differ

`claim_prefault_never_sent` is a run: a fault and a recovery between two steps of a sender
let it send the target from before the fault (`arm_sender.py:87`).

The following were seen in the model, each with a trace, and have no run of their own. Where
a formula is named, its module keeps it, with a comment that the code does not.

* Control loop: a playback of two arms goes on with its interruptible flag cleared when the
  first arm is confirmed while the gate holds the second at its last step (`loop.py:1676`
  against `:1975`). A goto's late result is tested against `plans.active_arms` alone, so it is
  loaded beside a running replay (`loop.py:1932` against `:897`, "one motion at a time on the
  whole loop, plans and replays alike"), and on an arm a fault stopped, where it stays until the
  arm runs again; loaded in the tick in which a replay step raises, it leaves `planState` at
  executing with nothing moving. `PlanTerminates` leaves out arms that are stopped. A goto
  planned in one session is loaded by the loop of the next, as the command bus belongs to the
  process (`loop.py:1916`, `manager.py:4159`). A late plan after a fault is loaded on the
  stopped arm, or marks the next plan failed (`loop.py:1041`, `1938`); `active_arms` empties one
  slew step before the arm is there (`263`); a jog accepted while latched survives the latch,
  and one from before a cancelled motion goes on after it (`joint_panel.py:44`, `loop.py:1703`);
  loading a goto keeps an old cancel reason (`241`); a process stall resets the gate-hold clock
  (`434`); a gripper target equal to the one before a fault is never sent again; a re-seed that
  raises drops the recovered event, and the arm stays faulted until the driver reports another
  (`loop.py:1091`); `episode_state` is a tick old when a `joint_target` is checked.
* Gate: while one arm is blocked the others' hold points stay behind, so that a later hold
  throws such an arm back further than one tick's cap (`gate.py:167`). Being thrown back is a
  movement to `_plan_gate_watch` (`loop.py:1176`), so that a gate which does it again and again
  keeps the hold clock at zero and the motion alive against "no waypoint progress" of `:1164`;
  `PlanTerminates` leaves this case out (`SetBack`). What goes out while
  only one arm is held is a joint posture nobody checked.
* Playback: `_op_playback_path` says the arms stay in lockstep. They do when every arm, with
  its carriage, is within a tick of its first waypoint and the gate holds none; the start
  check covers the joints only, within a degree, and comes before the claim and the long
  verification. An arm that stands further off needs more ticks to its first waypoint and is
  behind for the whole replay; an arm the gate held for a tick skips the waypoint it was held
  before, and the arms pass through combinations the twin has not judged (the gate still
  judges each tick).
* Session: `teardown` clears the session when any of its steps raises
  (`manager.py:4589`-`4651`), with the drivers connected and, if it was the policy's or the
  recorder's stop, the loop driving them. Nobody holds a reference to stop it again, and the next
  session comes up beside it on the same command bus, against "one session at a time" (`:1`).
  `stop_rig` only logs a `workcell.stop` that raises (`:1728`), and a simulated bring-up starts its
  workcell before its `try` (`:1127`) and adds its streams after it (`:1223`), against "nothing
  stays half-connected" (`:1744`). `RigOwned` says what holds all the same. The check of a
  session's state and the write of it are two steps, so TEARDOWN can
  be overwritten; a worker of an ended session cancels the live session's motion; teardown's
  cancel can be followed by a plan that only `loop.stop` cuts; when `workcell.stop()` raises,
  the monitor's resume, the previews and the bridge's `after_teardown` are skipped
  (`manager.py:4595` on).
* Recorder: the recorder of the next session sweeps the directory of a save left to itself,
  which is then made anew and published with `episode.json` alone (`episode_recorder.py:644`,
  `thread.py:253`). The manifest is read, rebuilt and written outside its lock in `__init__`,
  and `_counters` swaps it between rebuild and write. A save accepted and not yet taken when
  the session ends is discarded. The hook of a recorder left behind marks the next session as
  returning. A thread that crashes while an episode is started between its discard and its
  finalize leaves a recording nobody ends; `SavingEnds` leaves this case out and says so.
* DAgger: `poll` may stage the version again that a rollback came from; the first capture of
  an episode may carry the previous tick's takeover mode; strikes between episodes pause the
  runner for the whole next one; an inference session has no boundary, so a pause for bad rows
  never ends; the row of an old version applied after a swap is recorded under the new one; an
  act that was running when its observation was dropped is published afterwards.
* Trainer: a restart undoes a rollback; a crash within a checkpoint makes the half-written
  version the next one's parent; a throttled checkpoint consumes labels; the label index is
  lost at a restart; a burst longer than the orphan timeout ends the trainer; an orphan holds
  the port the next session's trainer needs. Online: a process that dies after an event was
  published and before the file was written announces the number again after the resume.
* Bridge: a payload put after the detach is sent at the next attach; slots are drained before
  the FIFO; the FIFO drops its oldest without a count; `stop()` joins for 30 s and a join may
  take longer; `on_action` checks its watermark without the lock (`policy_source.py:669`,
  `FreshAfterRequery`); `joined` is shown while the barrier is closed (`bridge.py:852` against
  the comment at `:872`, `NeverBlocked`); a failed attach after an open barrier is reported as
  a join that timed out. The reference node counts a later untrained rollout as trained when
  one that was already trained is discarded.
* Boxes: a supervisor's stale read can connect the monitor again in the middle of a bring-up
  (`NoSecondClient`); a rail can be homed by the monitor while a session's drivers are
  connected; a stale TRUE after a teardown clears the requested sensitivity. The candidate's
  own sweep is not repeated at the confirmation (`rail_sweep.py:55`, `GoalIsClear`).
* Inputs: `NeverReplayed` (`runtime.py:337` against the watchdog's module docstring);
  `ScaleInRange` (the freshness read between the comparison and the ramp gives a scale above
  one; a field cleared between two steps of a tick raises); `UnheldEnds` (`ws_control.py:42`
  against `orphan.py:90`); `OnlyDrivenEnd` (a session that never had a controller inherits the
  flag of the one before when the gap is shorter than a poll); `NoRestartInSession`
  (`tracker_calibration.py:602` against the docstring at `:366`): an install that was aborted
  still writes, and its result can be taken for the next flow's. A controller's first event in
  a session is adopted silently; a press is consumed while the stream is stale; leash, IK
  residual and divergence end what the clutch promises of a still hand by design.

## 6. Not modelled

* Arithmetic: kinematics, poses, the per-tick clamp, the rescaling of action rows, statistics,
  the idle-frame filter, the yaw fit, training and sampling, codecs. The properties are about
  order and ownership; where a count of ticks or a layout matters it is modelled.
* Images and views: streams, the twin overlay, telemetry, what REST returns.
* Profiles (a file per profile, one request at a time), configuration and tools.
* Of modelled parts: a step that raises in the `finally` of `teardown`, or before its `try`;
  `delete_dataset` and the export's content; the DAgger spool and labels;
  `operator recovery` as the manager's own worker and the collision sensitivity; the
  microphone; the backfill of `action.abs_ee`; validation of a session's spec; the hardware
  rig's own bring-up steps.

What would come next: an operator's recovery beside a running motion; `delete_dataset` and the
export's staging beside a recorder.
