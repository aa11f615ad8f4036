--------------------------- MODULE MCControlLoop ---------------------------
(* Small instances of the control loop for TLC. *)
EXTENDS ControlLoop

MCShortPaths == {<<1>>, <<0, 1>>}
MCRailPaths  == {<<1>>, <<2>>}
MCRecorded   == {{1, 2}, {2}}
MCOneArm     == {{2}}

(* With both arms and no fault a behaviour is about the manager's motions, *)
(* or about the joint panel's gotos and the recording of an episode.  With *)
(* a fault it is about arm 2, the operator and the browser, while arm 1    *)
(* rests; or about a goto of arm 1, its fault, and one motion of any kind. *)
VARIABLE scope

scopedVars == <<vars, scope>>

InScope ==
  \/ scope = "motions" /\ episodes' = 0 /\ gotos' = 0
  \/ scope = "panel" /\ motions' = 0
  \/ /\ scope = "keys" /\ gotos' = 0
     /\ cmd'[1] = 0 /\ wps'[1] = <<>> /\ jog'[1] = None /\ Silent(1)'
  \/ /\ scope = "late" /\ ~ ws' /\ ~ dropped' /\ inputs' = gotos'
     /\ Silent(2)' /\ \A a \in Arms : wps'[a] # <<2>>

ScopedInit == Init /\ scope \in {"motions", "panel"}
FaultsInit == Init /\ scope \in {"keys", "late"}

Scoped(A) == A /\ InScope /\ UNCHANGED scope

ScopedSpec == ScopedInit /\ [][Scoped(Next)]_scopedVars

FaultsSpec == FaultsInit /\ [][Scoped(Next)]_scopedVars /\ Fairness
=============================================================================
