---------------------------- MODULE PolicyRunner ----------------------------
(***************************************************************************)
(* The thread that asks the policy for rows (dagger/policy_runner.py) and  *)
(* the slot the control loop reads.  act runs under the policy lock, which *)
(* the reloader's loads take too; the slot has a lock of its own, and the  *)
(* flags paused and requery have none.                                     *)
(*                                                                         *)
(* A row is what act returned: which weights computed it, whether it is    *)
(* finite, and whether the loop had dropped its observation by then.       *)
(***************************************************************************)
EXTENDS Naturals, FiniteSets

CONSTANTS
  Versions,     \* of the weights, 0..n
  MaxNans,      \* bound: rows that are not finite
  None

ASSUME RunnerAssumption ==
  Versions \subseteq Nat /\ 0 \in Versions /\ MaxNans \in Nat /\ None \notin Nat

VARIABLES
  weights,      \* the version load_weights put in last
  locked,       \* who holds the policy lock: None, "runner" or "loop"
  thread,       \* where the thread is: "look", "lock", "clear", "act", "publish"
  dropped,      \* history: a drop was asked for since the observation in hand
  row,          \* the row act returned and nobody sees yet
  out,          \* the slot
  looked,       \* the loop has looked at the row in the slot
  requery,      \* reset the policy before the next act
  paused,
  nans          \* what the bound counts

runnerVars == <<weights, locked, thread, dropped, row, out, looked, requery, paused, nans>>
slotVars == <<out, looked, requery, paused, dropped>>
threadVars == <<locked, thread, row, nans>>

Rows == [version: Versions, finite: BOOLEAN, old: BOOLEAN]

RunnerTypeOK ==
  /\ weights \in Versions /\ locked \in {None, "runner", "loop"}
  /\ thread \in {"look", "lock", "clear", "act", "publish"}
  /\ dropped \in BOOLEAN /\ nans \in 0..MaxNans
  /\ row \in Rows \cup {None} /\ out \in Rows \cup {None}
  /\ looked \in BOOLEAN /\ requery \in BOOLEAN /\ paused \in BOOLEAN

RunnerInit ==
  /\ weights = 0 /\ locked = None /\ thread = "look" /\ dropped = FALSE
  /\ row = None /\ out = None /\ looked = FALSE
  /\ requery = FALSE /\ paused = FALSE /\ nans = 0

(* step_once, in the steps other threads can come between. *)
Look ==
  /\ thread = "look" /\ ~paused
  /\ dropped' = FALSE /\ thread' = "lock"
  /\ UNCHANGED <<weights, locked, row, out, looked, requery, paused, nans>>

Lock ==
  /\ thread = "lock" /\ locked = None
  /\ locked' = "runner"
  /\ thread' = IF requery THEN "clear" ELSE "act"    \* policy.reset() is part of this
  /\ UNCHANGED <<weights, row, slotVars, nans>>

Clear ==
  /\ thread = "clear"
  /\ requery' = FALSE /\ thread' = "act"
  /\ UNCHANGED <<weights, locked, row, out, looked, paused, dropped, nans>>

Act ==
  /\ thread = "act"
  /\ \E finite \in IF nans < MaxNans THEN BOOLEAN ELSE {TRUE} :
       /\ row' = [version |-> weights, finite |-> finite, old |-> FALSE]
       /\ nans' = IF finite THEN nans ELSE nans + 1
  /\ locked' = None /\ thread' = "publish"
  /\ UNCHANGED <<weights, slotVars>>

Publish ==
  /\ thread = "publish"
  /\ out' = [row EXCEPT !.old = dropped] /\ looked' = FALSE /\ row' = None
  /\ thread' = "look"
  /\ UNCHANGED <<weights, locked, requery, paused, dropped, nans>>

RunnerStep == Look \/ Lock \/ Clear \/ Act \/ Publish

(* What the control loop asks for. *)
DropAndRequery == out' = None /\ requery' = TRUE /\ dropped' = (thread # "look")
=============================================================================
