----------------------------- MODULE MCDispatch -----------------------------
(* Two arms on a line, facing each other and a wall beside the second:     *)
(* their clearance shrinks with the sum of their postures, and arm 2's     *)
(* last posture touches the wall.  The hysteresis band spans several       *)
(* steps: one tick does not clear it.                                      *)
EXTENDS Dispatch

MCPairs == {{1, 2}, {2}}
MCDist == [p \in MCPairs |-> [f \in Postures |->
             IF p # {2} THEN 2 * MaxPos - f[1] - f[2]
             ELSE IF f[2] = MaxPos THEN 0 ELSE 2 * MaxPos]]

(* What the repository says and the model refutes: a target put before a   *)
(* fault is never sent after the recovery re-seed (arm_sender.py,          *)
(* ArmSender).                                                             *)
PrefaultNeverSent ==
  [][\A a \in Watched : sender[a] = "send" /\ sender'[a] = "grip" /\ "got" \in old[a] =>
        paused[a]]_vars
=============================================================================
