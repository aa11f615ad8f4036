------------------------------ MODULE Playback ------------------------------
(***************************************************************************)
(* Replaying a recorded episode: reading it, walking to its first frame,   *)
(* resampling it onto the loop's tick, verifying it in the twin and        *)
(* streaming it through the gated executor, or replaying its action column *)
(* row by row (session/manager.py, recorder/playback.py, control/loop.py,  *)
(* control/joint_panel.py, dagger/replay_source.py).  A posture is a joint *)
(* and a carriage in whole units; the joint stands for the one whose bound *)
(* binds (slew or lever-weighted step), and the per-tick clamp, which no   *)
(* configuration sets below the executor's own bounds, is left out.        *)
(***************************************************************************)
EXTENDS Columns, FiniteSetsExt

CONSTANTS Players,      \* the arms of the session
          Tapes,        \* episodes: [legible, named, tracked, sources, frames]
          Drifts,       \* postures an arm may be left in
          JointCap, RailCap,   \* the executor's bounds per tick
          PerFrame,     \* ticks per recorded frame at real time
          ActionsAdmitted,   \* the session is one that replays action columns
          StartTol,     \* PLAYBACK_START_TOL_RAD
          MaxHolds, MaxDrifts, MaxPlays   \* bounds

Posture == Int \X Int

(* An episode that can be read has a frame at least, and a posture in it of every arm it names. *)
ASSUME PlaybackAssumption ==
  /\ JointCap \in Nat \ {0} /\ RailCap \in Nat \ {0} /\ PerFrame \in Nat \ {0}
  /\ Drifts \subseteq Posture
  /\ \A t \in Tapes : /\ IsFiniteSet(t.named)
                      /\ t.legible => t.frames # <<>> /\ t.frames \in Seq([t.named -> Posture])

Sources == {"state", "delta_ee", "abs_ee"}

VARIABLES
  tape,       \* the episode on disk
  posn,       \* _last_cmd of each arm, where it also stands
  play,       \* episode_playback_play: [at, source, hold, plan]
  motionClaim,   \* _profile_motion: whose it is
  ahead,      \* PlanExecutor: the waypoints each arm has still to reach
  reel,       \* the row the running action replay has come to, 0 when none
  cancelled,  \* plan_cancel_reason
  said,       \* the status play last answered with
  lockstep,   \* history: the running path began aligned, and no arm was held
  plays, drifts, holds   \* what the bounds count

episodeVars == <<tape, posn, play, motionClaim, ahead, reel, cancelled, said, lockstep,
                 plays, drifts, holds>>

Unplanned == [a \in {} |-> <<>>]
Unasked == [at |-> "idle", source |-> "state", hold |-> Unplanned, plan |-> Unplanned]
moving == reel # 0 \/ \E a \in Players : ahead[a] # <<>>

PlaybackInit ==
  /\ tape \in Tapes
  /\ posn = [a \in Players |-> <<0, 0>>]
  /\ play = Unasked /\ motionClaim = "none"
  /\ ahead = [a \in Players |-> <<>>] /\ reel = 0
  /\ cancelled = FALSE /\ said = "none" /\ lockstep = FALSE
  /\ plays = 0 /\ drifts = 0 /\ holds = 0

-----------------------------------------------------------------------------
(* Resampling *)

AbsVal(d) == IF d < 0 THEN -d ELSE d
TicksAt(cap, d) == (AbsVal(d) + cap - 1) \div cap

TicksOfJoints(p, q) == Max({1, TicksAt(JointCap, q[1] - p[1])})     \* mutant
(* ExecutorCaps.ticks_for: the ticks the executor will spend between two postures. *)
ticks_for(p, q) == Max({1, TicksAt(JointCap, q[1] - p[1]), TicksAt(RailCap, q[2] - p[2])})

(* A frame of one arm; a carriage that was not recorded stays where it is held. *)
Full(t, hold, a, k) ==
  IF a \in t.tracked THEN t.frames[k][a] ELSE <<t.frames[k][a][1], hold[a]>>

(* i of n equal parts of the way. *)
Part(from, to, i, n) == from + ((to - from) * i) \div n
Between(p, q, i, n) == <<Part(p[1], q[1], i, n), Part(p[2], q[2], i, n)>>

(* resample: one number of ticks per recorded frame for all arms together. *)
StepsTo(t, hold, k) ==
  Max({PerFrame} \cup {ticks_for(Full(t, hold, a, k), Full(t, hold, a, k + 1)) : a \in t.named})

Segment(t, hold, a, k) ==
  [i \in 1..StepsTo(t, hold, k) |->
     Between(Full(t, hold, a, k), Full(t, hold, a, k + 1), i, StepsTo(t, hold, k))]

Waypoints(t, hold, a) ==
  LET upto[k \in 0..(Len(t.frames) - 1)] == IF k = 0 THEN <<Full(t, hold, a, 1)>>
                                            ELSE upto[k - 1] \o Segment(t, hold, a, k)
  IN  upto[Len(t.frames) - 1]

resample(t, hold) == [a \in t.named |-> Waypoints(t, hold, a)]

-----------------------------------------------------------------------------
(* Asking *)

(* load_trajectory, _playback_refusal, _reset_blockers: what refuses both  *)
(* requests.  An open episode, a session that is not RUNNING and a stopped *)
(* arm also refuse; they look like a request that was not made.            *)
Blocked ==
  \/ ~tape.legible
  \/ ~(tape.named \subseteq Players)
  \/ moving \/ motionClaim # "none"

(* _action_replay_refusal; a column that could not be read is no source of the episode. *)
_action_replay_refusal(source) ==
  source # "state" /\ (source \notin tape.sources \/ ~ActionsAdmitted)

(* Only the joints are compared with frame 0, and only now. *)
AtFirstFrame ==
  \A a \in tape.named : AbsVal(posn[a][1] - tape.frames[1][a][1]) <= StartTol

Answer(status) == play' = Unasked /\ said' = status

episode_playback_play(source) ==
  /\ play.at = "idle" /\ plays < MaxPlays
  /\ plays' = plays + 1
  /\ IF Blocked \/ _action_replay_refusal(source) \/ ~AtFirstFrame
     THEN Answer("refused")
     ELSE LET hold == [a \in tape.named |-> posn[a][2]] IN
          /\ play' = [at |-> "claim", source |-> source, hold |-> hold,
                      plan |-> IF source = "state" THEN resample(tape, hold) ELSE Unplanned]
          /\ UNCHANGED said
  /\ UNCHANGED <<tape, posn, motionClaim, ahead, reel, cancelled, lockstep, drifts, holds>>

_claim_profile_motion ==
  /\ play.at = "claim"
  /\ IF motionClaim = "none"
     THEN /\ motionClaim' = "play"
          /\ play' = [play EXCEPT !.at = IF play.source = "state" THEN "verify" ELSE "submit"]
          /\ UNCHANGED said
     ELSE Answer("refused") /\ UNCHANGED motionClaim
  /\ UNCHANGED <<tape, posn, ahead, reel, cancelled, lockstep, plays, drifts, holds>>

Loop == <<ahead, reel, cancelled, lockstep>>
Counts == <<plays, drifts, holds>>

Finish(status) == Answer(status) /\ motionClaim' = "none"

(* _verify_playback: every posture, all arms together, on a private copy   *)
(* of the twin, while the loop goes on.                                    *)
_verify_playback ==
  /\ play.at = "verify"
  /\ \/ play' = [play EXCEPT !.at = "submit"] /\ UNCHANGED <<said, motionClaim>>
     \/ Finish("refused")
  /\ UNCHANGED <<tape, posn, Loop, Counts>>

(* playback_path and replay_actions, drained by the loop. *)
EqualLengths(plan) == \A a, b \in DOMAIN plan : Len(plan[a]) = Len(plan[b])

Aligned(plan) == \A a \in DOMAIN plan :
  /\ TicksAt(JointCap, plan[a][1][1] - posn[a][1]) <= 1
  /\ TicksAt(RailCap, plan[a][1][2] - posn[a][2]) <= 1

_op_playback_path ==
  /\ play.at = "submit" /\ play.source = "state"
  /\ IF moving \/ ~EqualLengths(play.plan)
     THEN Finish("refused") /\ UNCHANGED Loop
     ELSE /\ play' = [play EXCEPT !.at = "wait"]
          /\ ahead' = [a \in Players |-> IF a \in DOMAIN play.plan THEN play.plan[a] ELSE <<>>]
          /\ cancelled' = FALSE /\ lockstep' = Aligned(play.plan)
          /\ UNCHANGED <<said, motionClaim, reel>>
  /\ UNCHANGED <<tape, posn, Counts>>

_op_replay_actions ==
  /\ play.at = "submit" /\ play.source # "state"
  /\ IF moving
     THEN Finish("refused") /\ UNCHANGED Loop
     ELSE /\ play' = [play EXCEPT !.at = "wait"]
          /\ reel' = 1 /\ cancelled' = FALSE /\ lockstep' = FALSE
          /\ UNCHANGED <<said, motionClaim, ahead>>
  /\ UNCHANGED <<tape, posn, Counts>>

(* The loop refuses a stopped arm and another motion of its own. *)
RefusedByLoop ==
  /\ play.at = "submit" /\ Finish("refused")
  /\ UNCHANGED <<tape, posn, Loop, Counts>>

-----------------------------------------------------------------------------
(* The loop's ticks *)

(* PlanExecutor.step: equal steps along the segment to the next waypoint. *)
Toward(p, q) ==
  LET n == Max({1, TicksAt(JointCap, q[1] - p[1]), TicksAt(RailCap, q[2] - p[2])})
  IN Between(p, q, 1, n)

(* One tick: each arm's step, then the gate, which may hold some of them.  *)
(* The executor has gone on to its next waypoint before the gate decides;  *)
(* only a goal that did not pass is loaded again.                          *)
PlanTick(held) ==
  LET active == {a \in Players : ahead[a] # <<>>}
      next == [a \in active |-> Toward(posn[a], Head(ahead[a]))]
  IN /\ active # {} /\ held \subseteq active
     /\ held # {} => holds < MaxHolds
     /\ holds' = IF held = {} THEN holds ELSE holds + 1
     /\ posn' = [a \in Players |-> IF a \in active \ held THEN next[a] ELSE posn[a]]
     /\ ahead' = [a \in Players |->
          IF a \notin active \/ next[a] # Head(ahead[a]) THEN ahead[a]
          ELSE IF a \in held /\ Len(ahead[a]) = 1 THEN ahead[a] ELSE Tail(ahead[a])]
     /\ lockstep' = (lockstep /\ held = {})
     /\ UNCHANGED <<tape, play, motionClaim, reel, cancelled, said, plays, drifts>>

(* One tick of an action replay: each arm follows the row that is due, or  *)
(* holds; a late tick finds a later row.  It ends once the last row has    *)
(* been current for its period.                                            *)
_replay_step ==
  /\ reel # 0
  /\ \E k \in reel..(Len(tape.frames) + 1) :
       IF k > Len(tape.frames) THEN reel' = 0 /\ UNCHANGED posn
       ELSE /\ reel' = k
            /\ \E follow \in SUBSET tape.named :
                 posn' = [a \in Players |-> IF a \in follow
                                            THEN Full(tape, play.hold, a, k) ELSE posn[a]]
  /\ UNCHANGED <<tape, play, motionClaim, ahead, cancelled, said, lockstep, Counts>>

(* _cancel_plans: a key, a fault, an arm switch, a browser that left, the  *)
(* gate's hold limit, episode_playback_stop.                               *)
Cancelled ==
  /\ ahead' = [a \in Players |-> <<>>] /\ reel' = 0
  /\ cancelled' = TRUE /\ lockstep' = FALSE

_cancel_plans ==
  /\ moving /\ Cancelled
  /\ UNCHANGED <<tape, posn, play, motionClaim, said, Counts>>

-----------------------------------------------------------------------------
(* The wait of _playback_motion and _replay_motion *)

(* The budget has passed or the session has left RUNNING. *)
GiveUp ==
  /\ play.at = "wait" /\ moving
  /\ Cancelled
  /\ \E status \in {"timeout", "cancelled"} : Finish(status)
  /\ UNCHANGED <<tape, posn, Counts>>

Over ==
  /\ play.at = "wait" /\ ~moving
  /\ IF cancelled
     THEN \E status \in {"held", "cancelled"} : Finish(status)
     ELSE play' = [play EXCEPT !.at = "settle"] /\ UNCHANGED <<said, motionClaim>>
  /\ UNCHANGED <<tape, posn, Loop, Counts>>

(* _await_arrival, or _await_settle and the residuals against the last recorded frame. *)
LastFrame(a) == IF play.source = "state" THEN Last(play.plan[a])
                ELSE Full(tape, play.hold, a, Len(tape.frames))
Settle ==
  /\ play.at = "settle"
  /\ \/ (\A a \in tape.named : posn[a] = LastFrame(a)) /\ Finish("done")
     \/ \E status \in {"stalled", "cancelled"} : Finish(status)
  /\ UNCHANGED <<tape, posn, Loop, Counts>>

-----------------------------------------------------------------------------
(* episode_playback_goto_initial: joints first, then the carriages, and it *)
(* may stop anywhere between.                                              *)
episode_playback_goto_initial ==
  /\ ~Blocked
  /\ motionClaim' = "goto"
  /\ UNCHANGED <<tape, posn, play, said, Loop, Counts>>

Walked(a, joint, rail) ==
  <<IF joint THEN tape.frames[1][a][1] ELSE posn[a][1],
    IF rail /\ a \in tape.tracked THEN tape.frames[1][a][2] ELSE posn[a][2]>>

GotoEnds ==
  /\ motionClaim = "goto"
  /\ \E joints, rails \in SUBSET tape.named :
       /\ rails # {} => joints = tape.named
       /\ posn' = [a \in Players |-> IF a \in tape.named
                                     THEN Walked(a, a \in joints, a \in rails) ELSE posn[a]]
  /\ motionClaim' = "none"
  /\ UNCHANGED <<tape, play, said, Loop, Counts>>

(* Another motion of the session, and an arm moved by keys while nothing of this runs. *)
OtherMotion ==
  /\ \/ motionClaim = "none" /\ ~moving /\ motionClaim' = "other"
     \/ motionClaim = "other" /\ motionClaim' = "none"
  /\ UNCHANGED <<tape, posn, play, said, Loop, Counts>>

Drift(a) ==
  /\ ~moving /\ motionClaim # "goto" /\ drifts < MaxDrifts
  /\ \E p \in Drifts : posn' = [posn EXCEPT ![a] = p]
  /\ drifts' = drifts + 1 /\ lockstep' = FALSE
  /\ UNCHANGED <<tape, play, motionClaim, ahead, reel, cancelled, said, plays, holds>>

PlaybackNext ==
  \/ \E source \in Sources : episode_playback_play(source)
  \/ _claim_profile_motion \/ _verify_playback
  \/ _op_playback_path \/ _op_replay_actions \/ RefusedByLoop
  \/ \E held \in SUBSET Players : PlanTick(held)
  \/ _replay_step \/ _cancel_plans \/ GiveUp \/ Over \/ Settle
  \/ episode_playback_goto_initial \/ GotoEnds \/ OtherMotion
  \/ \E a \in Players : Drift(a)

-----------------------------------------------------------------------------
(* Once a path that began with every arm within a tick of its first        *)
(* waypoint is under way, and as long as the gate holds no arm, all arms   *)
(* are commanded the postures of one and the same waypoint, which the twin *)
(* has judged together, and the executor has exactly the rest still ahead. *)
LockstepIsVerified ==
  (lockstep /\ play.at = "wait" /\ \E a \in DOMAIN play.plan : ahead[a] # play.plan[a]) =>
    \E k \in 1..Len(play.plan[CHOOSE a \in DOMAIN play.plan : TRUE]) :
      \A a \in DOMAIN play.plan :
        /\ posn[a] = play.plan[a][k]
        /\ ahead[a] = SubSeq(play.plan[a], k + 1, Len(play.plan[a]))

(* A replay gives the arms what was recorded: the columns of the episode   *)
(* are told apart by their names alone and reach the arms they were        *)
(* recorded from, and a state replay commands only postures of the whole   *)
(* cell that were verified.                                                *)
ReplayIsTheRecording == LockstepIsVerified /\ RowsReachTheirArms /\ StatesAreNamed
=============================================================================
