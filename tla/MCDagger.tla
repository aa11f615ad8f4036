------------------------------ MODULE MCDagger ------------------------------
(* One session with a trainer that writes a version.  A behaviour is about *)
(* episodes, with the first arm active throughout, or about the gate: the  *)
(* operator changes arms and records nothing.                              *)
EXTENDS Dagger

MCVersions == 0..1

VARIABLE scope

scopedVars == <<vars, scope>>

InScope ==
  \/ scope = "episodes" /\ active' = 1
  \/ scope = "gate" /\ ep' = 0

ScopedInit == Init /\ scope \in {"episodes", "gate"} /\ (scope = "episodes" => active = 1)

Scoped(A) == A /\ InScope /\ UNCHANGED scope

ScopedSpec == ScopedInit /\ [][Scoped(Next)]_scopedVars
=============================================================================
