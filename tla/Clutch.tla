------------------------------- MODULE Clutch -------------------------------
(***************************************************************************)
(* The clutch: while it is held, the hand's displacement moves the arm's   *)
(* target (control/tracker_teleop.py and the teleop step of                *)
(* control/loop.py), along one axis, for one arm; the operator may switch  *)
(* to another arm and back.  Anchors, filter, seed and press edge are kept *)
(* in different places and cleared by different events.                    *)
(***************************************************************************)
EXTENDS Integers

CONSTANTS Settings,      \* what the operator may choose: [scale, yaw], yaw 1 or -1
          Leash, Rate,   \* target to measured; target per tick
          Reach          \* bound: the positions

ASSUME ClutchAssumption ==
  /\ Settings \subseteq [scale: Int, yaw: {1, -1}]
  /\ Leash \in Nat /\ Rate \in Nat /\ Reach \in Nat

Places == -Reach..Reach

VARIABLES
  hand, live, clutchHeld, setting, onThis,   \* the operator's: where, is the stream fresh, ...
  applied, engagedArm, filt, aTrk, aEe, intent,   \* of TrackerTeleop
  tgt, seeded, clutchArm,                    \* of the loop: the integrator's target, ...
  cmd, meas,                                 \* the arm: commanded and measured
  was, since    \* history: held on this arm at the last tick; where the arm was to stay

handVars == <<hand, live, clutchHeld, setting, onThis>>
anchorVars == <<engagedArm, filt, aTrk, aEe, intent>>
seedVars == <<tgt, seeded, clutchArm>>
cluVars == <<handVars, applied, anchorVars, seedVars, cmd, meas, was, since>>

CluInit ==
  /\ hand = 0 /\ live = TRUE /\ clutchHeld = FALSE /\ setting \in Settings /\ onThis = TRUE
  /\ applied = setting /\ engagedArm = "none" /\ filt = 0 /\ aTrk = 0 /\ aEe = 0 /\ intent = 0
  /\ tgt = 0 /\ seeded = FALSE /\ clutchArm = "none" /\ cmd = 0 /\ meas = 0
  /\ was = FALSE /\ since = {}

ClampTo(x, lo, hi) == IF x < lo THEN lo ELSE IF x > hi THEN hi ELSE x
Near(x, centre, d) == ClampTo(x, centre - d, centre + d)
Between(a, b) == {x \in Places : (a <= x /\ x <= b) \/ (b <= x /\ x <= a)}

------------------------------------------------------------------------------
(* The operator, the stream and the arm.  A hand that moves while it is followed moves the arm. *)
MoveHand == /\ \E d \in {-1, 1} : hand + d \in Places /\ hand' = hand + d
            /\ since' = IF engagedArm = "this" THEN {} ELSE since
            /\ UNCHANGED <<live, clutchHeld, setting, onThis, applied, anchorVars, seedVars, cmd, meas, was>>

StreamTurns == /\ live' = ~live
               /\ UNCHANGED <<hand, clutchHeld, setting, onThis, applied, anchorVars, seedVars, cmd, meas,
                              was, since>>

ClutchTurns == /\ clutchHeld' = ~clutchHeld
               /\ since' = {}
               /\ UNCHANGED <<hand, live, setting, onThis, applied, anchorVars, seedVars, cmd, meas, was>>

_op_tracker_settings == /\ setting' \in Settings \ {setting}
                        /\ UNCHANGED <<hand, live, clutchHeld, onThis, applied, anchorVars, seedVars, cmd,
                                       meas, was, since>>

release == engagedArm' = "none" /\ filt' = 0 /\ aTrk' = 0 /\ aEe' = 0 /\ intent' = 0

_activate_arm == /\ onThis' = ~onThis /\ release
                 /\ seeded' = IF onThis' THEN FALSE ELSE seeded
                 /\ since' = {}
                 /\ UNCHANGED <<hand, live, clutchHeld, setting, applied, tgt, clutchArm, cmd, meas, was>>

ArmFollows == /\ meas # cmd /\ meas' \in Between(meas, cmd) \ {meas}
              /\ UNCHANGED <<handVars, applied, anchorVars, seedVars, cmd, was, since>>

(* Something else moves the arm: a nudge while the clutch is up, or a plan or a jog, which
   discards the seed. *)
ArmDrifts == /\ ~clutchHeld /\ meas' \in Places \ {meas}
             /\ UNCHANGED <<handVars, applied, anchorVars, seedVars, cmd, was, since>>

OtherMotion == /\ cmd' \in Places /\ meas' = cmd' /\ release /\ seeded' = FALSE
               /\ since' = {} /\ was' = (clutchHeld /\ onThis)
               /\ clutchArm' = IF clutchHeld THEN clutchArm ELSE "none"
               /\ UNCHANGED <<handVars, applied, tgt>>

------------------------------------------------------------------------------
(* The provider: the target the anchors make of the hand. *)
Aligned == setting.yaw * hand
changed == setting # applied
Engaging(arm) == engagedArm # arm

Filtered(arm) == IF Engaging(arm) \/ setting.yaw # applied.yaw THEN {Aligned}
                                                              ELSE Between(filt, Aligned)

(* mutant: a new scale is applied to the displacement there is. *)
Reinterpret(arm, f) == [trk |-> IF Engaging(arm) THEN f ELSE aTrk, ee |-> aEe]

(* The anchors: taken at the press; on a change of the settings taken again where a still hand
   would have the arm. *)
Anchors(arm, f) ==
  [trk |-> IF Engaging(arm) \/ changed THEN f ELSE aTrk,
   ee |-> IF changed THEN intent ELSE aEe]

(* With from the target before: the clamped target and the anchors after the slip. *)
Target(arm, f, from, d) ==
  LET a == Anchors(arm, f)
      ee == IF Engaging(arm) THEN from ELSE a.ee + d
      raw == ee + setting.scale * (f - a.trk)
      clamped == Near(raw, meas, Leash)
  IN  [trk |-> a.trk, ee |-> ee + clamped - raw, to |-> clamped]

(* The loop's side: a press starts from where the arm is. *)
Pressed == clutchArm # "this"
SeededAt == IF Pressed \/ ~seeded THEN meas ELSE tgt

Held(p) == {p} \cap Places

(* One tick with the clutch held on this arm and the stream fresh; d is the rail's step, which
   carries target, anchors and arm along. *)
Follow(d) ==
  /\ clutchHeld /\ onThis /\ live
  /\ clutchArm' = "this" /\ seeded' = TRUE /\ applied' = setting /\ engagedArm' = "this"
  /\ filt' \in Filtered("this")
  /\ LET from == SeededAt + d
         t == Target("this", filt', from, d)
         to == Near(t.to, from, Rate)
         stay == IF ~was THEN {meas + d}
                 ELSE IF Engaging("this") THEN {from} ELSE {p + d : p \in since}
     IN  /\ aTrk' = t.trk
         /\ \/ /\ cmd' = to /\ tgt' = to /\ aEe' = t.ee /\ intent' = t.to
               /\ since' = IF Near(from, meas, Leash) # from THEN {} ELSE stay
            \/ /\ to # cmd + d                     \* the IK falls short: the anchor slips
               /\ tgt' \in Between(cmd + d, to) \ {to} /\ cmd' = tgt'
               /\ aEe' = t.ee + tgt' - to /\ intent' = t.to + tgt' - to
               /\ since' = {}
            \/ /\ d = 0 /\ tgt' = meas             \* it diverges: the tick is held
               /\ cmd' = IF Pressed THEN meas ELSE cmd
               /\ aEe' = t.ee + meas - to /\ intent' = t.to + meas - to
               /\ since' = {}
  /\ {cmd', tgt', aEe', intent'} \subseteq Places
  /\ was' = TRUE
  /\ UNCHANGED <<handVars, meas>>

(* The same while the stream is not fresh: the anchors go, a press is still a press.  The rail
   alone moves the arm under its target, so the seed goes too. *)
Gap(d) ==
  /\ clutchHeld /\ onThis /\ ~live
  /\ release /\ applied' = applied
  /\ clutchArm' = "this" /\ seeded' = (d = 0)
  /\ tgt' = SeededAt + d
  /\ cmd' = (IF Pressed THEN meas ELSE cmd) + d
  /\ {tgt', cmd'} \subseteq Places
  /\ since' = IF d # 0 THEN {} ELSE IF was THEN since ELSE {meas}
  /\ was' = TRUE /\ UNCHANGED <<handVars, meas>>

TickOnOther == /\ ~onThis
               /\ clutchArm' = (IF clutchHeld THEN "other" ELSE "none")
               /\ IF clutchHeld /\ live
                  THEN engagedArm' = "other" /\ filt' = 0 /\ aTrk' = 0 /\ aEe' = 0 /\ intent' = 0
                  ELSE release
               /\ applied' = setting /\ was' = FALSE /\ since' = {}
               /\ UNCHANGED <<handVars, tgt, seeded, cmd, meas>>

(* The clutch is up: the keys, or nothing. *)
Unclutched(key) ==
  /\ ~clutchHeld /\ onThis
  /\ clutchArm' = "none" /\ release /\ applied' = setting /\ was' = FALSE /\ since' = {}
  /\ IF key = 0 THEN UNCHANGED <<tgt, seeded, cmd>>
     ELSE /\ tgt' = Near((IF seeded THEN tgt ELSE meas) + key, meas, Leash) /\ tgt' \in Places
          /\ seeded' = TRUE /\ cmd' = tgt'
  /\ UNCHANGED <<handVars, meas>>

CluNext == \/ MoveHand \/ StreamTurns \/ ClutchTurns \/ _op_tracker_settings \/ _activate_arm
           \/ ArmFollows \/ ArmDrifts \/ OtherMotion \/ TickOnOther
           \/ \E d \in {-1, 0, 1} : Follow(d) \/ Gap(d) \/ Unclutched(d)

CluSpec == CluInit /\ [][CluNext]_cluVars

------------------------------------------------------------------------------
(* While the clutch is held and the followed hand is still, the arm's target stays where the
   arm was at the press, carried along by the rail alone: whatever the settings, the gaps of
   the stream, the other arm and everything that moved the arm before. *)
StillHandStays == \A p \in since : tgt = p
=============================================================================
