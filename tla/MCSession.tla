----------------------------- MODULE MCSession -----------------------------
(* Two sessions one after the other, and what is asked for meanwhile: a    *)
(* profile motion, while an arm may fault, or a goto; or what their taking *)
(* down leaves up when a step of it raises.                                *)
EXTENDS SessionMotions

MCIds == 1..2
MCStarts == [s \in MCIds |-> IF s = 1 THEN {"keep", "profile"} ELSE {"keep"}]
MCKinds == {"sim", "hardware"}

VARIABLE scope

scopedVars == <<sessionVars, scope>>

AllReal == failures' = 0 /\ \A s \in Ids : kind'[s] # "sim"

InScope ==
  \/ scope = "motion" /\ gotos' = 0 /\ AllReal /\ (asks' # asks => born = 1)
  \/ scope = "goto" /\ asks' = 0 /\ faults' = 0 /\ AllReal
  \/ scope = "failing" /\ asks' = 0 /\ faults' = 0 /\ gotos' = 0

Scoped(A) == A /\ InScope /\ UNCHANGED scope

ScopedInit == SessionInit /\ scope \in {"motion", "goto", "failing"}

ScopedSpec == ScopedInit /\ [][Scoped(SessionNext)]_scopedVars
=============================================================================
