------------------------------ MODULE HomePlan ------------------------------
(***************************************************************************)
(* The check of a joint path that must hold wherever the carriage is       *)
(* (devices/rail_sweep.py): every configuration at every rail position,    *)
(* under a tolerance for the pairs the start posture already violates.     *)
(* A configuration is what the twin says of it: how far apart each         *)
(* monitored pair is at each rail position.                                *)
(*                                                                         *)
(* And the decision to home a rail (devices/rail_homing.py) that rests on  *)
(* it: a posture whose travel is clear homes at once; otherwise a plan to  *)
(* a candidate posture is shown, confirmed later against fresh samples and *)
(* executed, and only then the carriage moves.  Between the two requests   *)
(* the arms may move.                                                      *)
(***************************************************************************)
EXTENDS Integers, Sequences, SequencesExt

CONSTANTS Rails,        \* the rail positions of the sweep
          Pairs,        \* the monitored pairs of geometries
          Distances, Inflation, Tol, NoRef,
          MaxWalk       \* bound: configurations of a path

(* The distances are compared, the tolerance is not negative, and no distance is no reference. *)
ASSUME SweepAssumption == /\ Distances \subseteq Int /\ Inflation \in Int /\ Tol \in Nat
                          /\ NoRef \notin Distances

Configs == [Rails -> [Pairs -> Distances]]

VARIABLE walk         \* the configurations of a path, the start posture first

Violated(d) == d < Inflation

(* The sweep of one posture: clear when no pair is violated at any position. *)
SweepClear(c) == \A s \in Rails, k \in Pairs : ~Violated(c[s][k])

(* The distance a violated pair is held to; a pair that is clear has none. *)
Reference(d) == IF Violated(d) THEN d ELSE NoRef

Blocks(ref, d) == Violated(d) /\ (ref = NoRef \/ d <= 0 \/ d < ref - Tol)

(* mutant: the reference follows the pair back in. *)
Follows(ref, d) == Reference(d)
Raised(ref, d) == IF Violated(d) /\ ref # NoRef /\ ref > d THEN ref ELSE Reference(d)

Whitelist(start) == [s \in Rails |-> [k \in Pairs |-> Reference(start[s][k])]]

CheckConfig(acc, c) ==
  IF ~acc.clear THEN acc
  ELSE [clear |-> \A s \in Rails, k \in Pairs : ~Blocks(acc.wl[s][k], c[s][k]),
        wl |-> [s \in Rails |-> [k \in Pairs |-> Raised(acc.wl[s][k], c[s][k])]]]

check_path(path) ==
  LET upto[n \in 0..Len(path)] == IF n = 0 THEN [clear |-> TRUE, wl |-> Whitelist(path[1])]
                                  ELSE CheckConfig(upto[n - 1], path[n])
  IN  upto[Len(path)].clear

------------------------------------------------------------------------------
WalkInit == \E c \in Configs : walk = <<c>>

Extend == /\ Len(walk) < MaxWalk
          /\ \E c \in Configs : walk' = Append(walk, c)

(* What the path promises at any position of the carriage: a pair in violation has been there
   since the start, never touches, and is never closer than the tolerance below any distance it
   had before. *)
SafePath(path) ==
  \A s \in Rails, k \in Pairs, j \in 1..Len(path) :
    Violated(path[j][s][k]) =>
      /\ path[j][s][k] > 0
      /\ \A i \in 1..j : /\ Violated(path[i][s][k])
                         /\ path[j][s][k] >= path[i][s][k] - Tol

(* The walk with its running reference accepts exactly the safe paths. *)
VerdictIsSafe == check_path(walk) <=> SafePath(walk)

------------------------------------------------------------------------------
CONSTANTS Candidates,      \* the candidate postures, in trial order
          NoCand,
          Postures         \* bound: the configurations the arms may be in

ASSUME PlanAssumption == NoCand \notin Range(Candidates) /\ Postures \subseteq Configs

VARIABLES here,       \* the current posture, as the twin sees it
          target,     \* the candidates', with the other arm where it is now
          cached,     \* the dry run's plan: its candidate, if any
          phase, plan, \* of the job
          route       \* the configurations it executes, as validated

planVars == <<here, target, cached, phase, plan, route>>
Cands == Range(Candidates)

PlanInit == /\ here \in Postures /\ target \in [Cands -> Postures]
            /\ cached = NoCand /\ phase = "idle" /\ plan = NoCand /\ route = <<>>

(* Somebody moves an arm while nothing is homing: a session, or the operator. *)
MoveArm == /\ phase = "idle"
           /\ \/ here' \in Postures /\ UNCHANGED target
              \/ \E c \in Cands, d \in Postures : target' = [target EXCEPT ![c] = d] /\ UNCHANGED here
           /\ UNCHANGED <<cached, phase, plan, route>>

PathTo(c) == <<here, target[c]>>

Suits(c) == SweepClear(target[c]) /\ check_path(PathTo(c))

(* The planner may fail for any of them, so any that suits can be the first. *)
evaluate == {c \in Cands : Suits(c)} \cup {NoCand}

(* mutant: the confirmed plan is executed as it was shown. *)
AsShown(c) == c = cached \/ (c \in evaluate /\ cached = NoCand)

(* The plan shown, if its path still validates; or a new one, which must be the one shown. *)
revalidate(c) == check_path(PathTo(c))
_plan_for(c) == \/ c = cached /\ revalidate(c)
                \/ c \in evaluate /\ cached \in {NoCand, c}

DryRun ==
  /\ phase = "idle"
  /\ IF SweepClear(here) THEN cached' = NoCand
     ELSE \E c \in evaluate : cached' = IF c = NoCand THEN cached ELSE c
  /\ UNCHANGED <<here, target, phase, plan, route>>

(* A clear posture homes in the monitor's thread, which refuses if the arm has moved. *)
HomeNow == /\ phase = "idle" /\ SweepClear(here)
           /\ cached' = NoCand /\ phase' = "homing" /\ route' = <<here>>
           /\ UNCHANGED <<here, target, plan>>

Confirm ==
  /\ phase = "idle" /\ ~SweepClear(here)
  /\ \E c \in Cands : /\ _plan_for(c)
                      /\ plan' = c /\ cached' = NoCand /\ route' = PathTo(c)
  /\ phase' = "connecting"
  /\ UNCHANGED <<here, target>>

Fail == phase' = "idle" /\ plan' = NoCand /\ route' = <<>>

(* The measured posture must still be the one the path starts from. *)
_verify_start_posture == /\ phase = "connecting"
                         /\ \/ phase' = "positioning" /\ UNCHANGED <<plan, route>>
                            \/ Fail
                         /\ UNCHANGED <<here, target, cached>>

(* The executor finishes and the joints reach the target; or a fault, a time-out or a cancel
   leaves the arm where it was on the path. *)
ExecutePath == /\ phase = "positioning"
               /\ \/ here' = target[plan] /\ phase' = "homing" /\ UNCHANGED <<plan, route>>
                  \/ here' \in {here, target[plan]} /\ Fail
               /\ UNCHANGED <<target, cached>>

HomeRail == /\ phase = "homing" /\ Fail
            /\ UNCHANGED <<here, target, cached>>

PlanNext == \/ MoveArm \/ DryRun \/ HomeNow \/ Confirm \/ _verify_start_posture
            \/ ExecutePath \/ HomeRail

------------------------------------------------------------------------------
(* Whatever the arms did since the dry run, what is executed is safe at every rail position
   among the arms as they are now, and the carriage moves only at the end of it. *)
HomesSafely == /\ phase # "idle" => SafePath(route)
               /\ phase = "homing" => here = Last(route)

(* What the module comment of rail_sweep.py says: the posture the rail homes in is clear over
   the whole travel, so every whitelist is empty by the last waypoint. The
   code does not keep it (README, part 5). *)
GoalIsClear == phase = "homing" => SweepClear(here)
==========================================================================
