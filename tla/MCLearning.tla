----------------------------- MODULE MCLearning -----------------------------
(* The trainer of a plain DAgger session and the coordinator of an Online  *)
(* DAgger session are never part of the same session: a behaviour is one   *)
(* of either.                                                              *)
EXTENDS Trainer, Online

VARIABLE kind    \* of session: "dagger" or "online"

vars == <<kind, trainerVars, onlineVars>>

TypeOK == TrainerTypeOK /\ OnlineTypeOK

Init == kind \in {"dagger", "online"} /\ TrainerInit /\ OnlineInit

InDagger(A) == kind = "dagger" /\ A /\ UNCHANGED <<kind, onlineVars>>
InOnline(A) == kind = "online" /\ A /\ UNCHANGED <<kind, trainerVars>>

Next == InDagger(TrainerNext) \/ InOnline(OnlineNext)

Spec ==
  /\ Init /\ [][Next]_vars
  /\ WF_vars(InDagger(ProcessStep)) /\ WF_vars(InDagger(ClientStep)) /\ WF_vars(InDagger(StopStep))
=============================================================================
