------------------------------ MODULE MCBridge ------------------------------
(* The parts of the external interface that share no state while they run: *)
(* a behaviour is one of the bridge, of a policy's source, of the idle arm  *)
(* reader or of the reference node's trainer role.                          *)
EXTENDS DoraBridge, PolicySource, IdleArms, TrainerNode

VARIABLE part

vars == <<part, bridgeVars, sourceVars, idleVars, trainerVars>>

TypeOK == BridgeTypeOK /\ SourceTypeOK /\ IdleTypeOK /\ TrainerTypeOK

Init == /\ part \in {"bridge", "source", "idle", "trainer"}
        /\ BridgeInit /\ SourceInit /\ IdleInit /\ TrainerInit
        /\ part # "bridge" => others

InBridge(A) == part = "bridge" /\ A /\ UNCHANGED <<part, sourceVars, idleVars, trainerVars>>
InSource(A) == part = "source" /\ A /\ UNCHANGED <<part, bridgeVars, idleVars, trainerVars>>
InIdle(A) == part = "idle" /\ A /\ UNCHANGED <<part, bridgeVars, sourceVars, trainerVars>>
InTrainer(A) == part = "trainer" /\ A /\ UNCHANGED <<part, bridgeVars, sourceVars, idleVars>>

Next == InBridge(BridgeNext) \/ InSource(SourceNext) \/ InIdle(IdleNext) \/ InTrainer(TrainerNext)

Spec == Init /\ [][Next]_vars /\ WF_vars(InBridge(Bus))
=============================================================================
