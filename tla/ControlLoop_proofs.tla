------------------------ MODULE ControlLoop_proofs ------------------------
(***************************************************************************)
(* Type correctness and safety of the control loop, for every value of its *)
(* constants.  TypeOK is inductive by itself; it is proved in its three    *)
(* parts, since flags, motion data and the rest need different provers.    *)
(* Each safety property gets its inductive strengthening, one step per     *)
(* action.                                                                 *)
(***************************************************************************)
EXTENDS ControlLoop, SequenceTheorems, TLAPS

(* Something counted is not nothing. *)
LEMMA Counted == \A n \in Nat : n > 0 => n # 0
OBVIOUS

USE LoopAssumption DEF LoopAssumption

(* One slew step, clamped to the travel, stays on the travel. *)
LEMMA StepType ==
  ASSUME NEW p \in Pos, NEW g \in Goal
  PROVE  Clamp(Toward(p, g)) \in Pos /\ (g \in Pos => Toward(p, g) \in Pos)
BY DEF Toward, Clamp, Pos, Goal

(* So does one step of a jog, and its target stays a target. *)
LEMMA JogType ==
  ASSUME MotionTypeOK, RestTypeOK, NEW a \in Arms
  PROVE  JogPoint(a) \in Pos /\ JogAfter(a) \in Pos \cup {None}
<1>1. Pos \subseteq Goal
  BY DEF Pos, Goal
<1>2. cmd[a] \in Pos /\ jog[a] \in Pos \cup {None}
  BY DEF MotionTypeOK, RestTypeOK
<1> QED
  BY <1>1, <1>2, StepType DEF JogPoint, JogAfter

(* A cancel, for whichever reason, keeps the motion variables typed. *)
LEMMA CancelType ==
  ASSUME MotionTypeOK, NEW reason \in Reason, NEW STATE S,
         CancelMotion(reason, S), UNCHANGED <<cmd, safe>>, q' \in [Arms -> Pos]
  PROVE  MotionTypeOK'
BY DEF MotionTypeOK, CancelMotion, Cleared, Status

(* So does leaving them alone. *)
LEMMA SameMotion ==
  ASSUME MotionTypeOK, UNCHANGED <<cmd, safe, q, planVars>>
  PROVE  MotionTypeOK'
BY DEF MotionTypeOK, planVars

(* The resolved commands that nothing touches stay typed. *)
LEMMA Still == MotionTypeOK /\ UNCHANGED q => q' \in [Arms -> Pos]
BY DEF MotionTypeOK

(* The end of a tick keeps the motion variables typed. *)
LEMMA GateType ==
  ASSUME MotionTypeOK, NEW out \in [Arms -> Pos], safe' \in [Arms -> Pos],
         NEW blocked \in BOOLEAN, NEW lapsed \in BOOLEAN, NEW STATE expired,
         GateAndDispatch(out, blocked, expired, lapsed)
  PROVE  MotionTypeOK'
<1> DEFINE reloaded == [a \in Arms |-> IF Reloads(a, out, blocked) THEN <<arriving[a]>> ELSE wps[a]]
<1>1. reloaded \in [Arms -> Seq(Goal)]
  BY DEF Reloads, MotionTypeOK
<1>2. wps' = reloaded \/ wps' = [a \in Arms |-> <<>>]
  BY Zenon DEF GateAndDispatch
<1>3. wps' \in [Arms -> Seq(Goal)]
  <2>1. [a \in Arms |-> <<>>] \in [Arms -> Seq(Goal)]
    OBVIOUS
  <2> QED
    BY <1>1, <1>2, <2>1, Zenon
<1>4. \E S : planState' = Cleared(S, planState)
  BY Zenon DEF GateAndDispatch
<1>5. planState' \in [Arms -> {None, "planning", "executing", "failed"}]
  BY <1>4 DEF Cleared, MotionTypeOK
<1>6. /\ planStatus' \in {"cancelled", "done", None, planStatus}
      /\ cancelReason' \in {"gate hold", cancelReason}
  BY Zenon DEF GateAndDispatch
<1>7. gripSet' \subseteq gripSet \cup deferred /\ deferred' \subseteq deferred
  BY Zenon DEF GateAndDispatch
<1>8. /\ hold' = 0 \/ hold' = 0 + 1 \/ hold' = hold \/ hold' = hold + 1
      /\ rows' = 0 \/ rows' = rows
  BY Zenon DEF GateAndDispatch
<1>9. driven' \subseteq driven /\ playback' \subseteq playback
  BY Zenon DEF GateAndDispatch
<1>10. cmd' = out /\ q' = out /\ arriving' = [a \in Arms |-> None]
  BY Zenon DEF GateAndDispatch
<1>11. hold' \in Nat /\ rows' \in Nat
  BY <1>8 DEF MotionTypeOK
<1>12. planStatus' \in Status \cup {None} /\ cancelReason' \in Reason \cup {None}
  BY <1>6 DEF MotionTypeOK, Status, Reason
<1>13. /\ gripSet' \subseteq Arms /\ deferred' \subseteq Arms
       /\ driven' \subseteq Arms /\ playback' \subseteq Arms
  BY <1>7, <1>9 DEF MotionTypeOK
<1> QED
  BY <1>3, <1>5, <1>10, <1>11, <1>12, <1>13 DEF MotionTypeOK


(* The flags stay flags. *)
LEMMA FlagsStep ==
  ASSUME FlagTypeOK, Next
  PROVE  FlagTypeOK'
<1>1. ASSUME NEW a \in Arms, NEW path \in Paths, NEW inter \in BOOLEAN,
             NEW grips \in SUBSET Grippers, ExecutePlan(a, path, inter, grips)
      PROVE  FlagTypeOK'
  BY <1>1 DEF FlagTypeOK, ExecutePlan, Submit, StartMotion, LeaveAlone,
    planVars, inputVars, faultVars, otherVars, boundVars
<1>2. ASSUME NEW grips \in SUBSET Grippers, ExecuteGripperOnly(grips)
      PROVE  FlagTypeOK'
  BY <1>2 DEF FlagTypeOK, ExecuteGripperOnly, Submit, StartMotion,
    LeaveAlone, planVars, inputVars, faultVars, otherVars, boundVars
<1>3. ASSUME NEW S \in Recorded, NEW paths \in [S -> Paths], PlaybackPath(paths)
      PROVE  FlagTypeOK'
  BY <1>3 DEF FlagTypeOK, PlaybackPath, Submit, StartMotion, LeaveAlone,
    planVars, inputVars, faultVars, otherVars, boundVars
<1>4. ASSUME NEW S \in Recorded, ReplayActions(S)
      PROVE  FlagTypeOK'
  BY <1>4 DEF FlagTypeOK, ReplayActions, Submit, StartMotion, LeaveAlone,
    planVars, inputVars, faultVars, otherVars, boundVars
<1>5. CASE CancelPlan
  BY <1>5 DEF FlagTypeOK, CancelPlan, Request, LeaveAlone, CancelPlans,
    CancelMotion, Cleared, planVars, inputVars, faultVars, otherVars,
    boundVars
<1>6. CASE Takeover
  BY <1>6 DEF FlagTypeOK, Takeover, Request, LeaveAlone, CancelPlans,
    CancelMotion, Cleared, planVars, inputVars, faultVars, otherVars,
    boundVars
<1>7. ASSUME NEW a \in Arms, SwitchArm(a)
      PROVE  FlagTypeOK'
  BY <1>7 DEF FlagTypeOK, SwitchArm, Request, LeaveAlone, CancelPlans,
    CancelMotion, Cleared, planVars, inputVars, faultVars, otherVars,
    boundVars
<1>8. ASSUME NEW a \in Arms, NEW p \in Pos, JointJog(a, p)
      PROVE  FlagTypeOK'
  BY <1>8 DEF FlagTypeOK, JointJog, Request, LeaveAlone, CancelPlans,
    CancelMotion, Cleared, planVars, inputVars, faultVars, otherVars,
    boundVars
<1>9. ASSUME NEW a \in Arms, JointGoto(a)
      PROVE  FlagTypeOK'
  BY <1>9 DEF FlagTypeOK, JointGoto, Request, Cleared, planVars, inputVars,
    faultVars, otherVars, boundVars
<1>10. ASSUME NEW a \in Arms, PlanFailed(a)
      PROVE  FlagTypeOK'
  BY <1>10 DEF FlagTypeOK, PlanFailed, LeaveAlone, planVars, inputVars,
    faultVars, otherVars, boundVars
<1>11. ASSUME NEW a \in Arms, NEW path \in Paths, PlanReady(a, path)
      PROVE  FlagTypeOK'
  BY <1>11 DEF FlagTypeOK, PlanReady, LeaveAlone, planVars, inputVars,
    faultVars, otherVars, boundVars
<1>12. CASE EpisodeNew
  BY <1>12 DEF FlagTypeOK, EpisodeNew, LeaveAlone, planVars, inputVars,
    faultVars, otherVars, boundVars
<1>13. CASE ReadInputs
  BY <1>13 DEF FlagTypeOK, ReadInputs, ScaleOutcome, planVars, inputVars,
    faultVars, otherVars, boundVars
<1>14. ASSUME NEW a \in Arms, OnFaultEvent(a)
      PROVE  FlagTypeOK'
  BY <1>14 DEF FlagTypeOK, OnFaultEvent, CancelPlans, CancelMotion, Cleared,
    planVars, inputVars, faultVars, otherVars, boundVars
<1>15. ASSUME NEW a \in Arms, OnRecoveredEvent(a)
      PROVE  FlagTypeOK'
  BY <1>15 DEF FlagTypeOK, OnRecoveredEvent, Reseed, planVars, inputVars,
    faultVars, otherVars, boundVars
<1>16. CASE InterruptMotion
  BY <1>16 DEF FlagTypeOK, InterruptMotion, Interrupted, CancelPlans,
    CancelMotion, Cleared, planVars, inputVars, faultVars, otherVars,
    boundVars
<1>17. CASE Resolve
  BY <1>17 DEF FlagTypeOK, Resolve, planVars, inputVars, faultVars,
    otherVars, boundVars
<1>18. CASE ResolveStalled
  BY <1>18 DEF FlagTypeOK, ResolveStalled, planVars, inputVars, faultVars,
    otherVars, boundVars
<1>19. ASSUME NEW a \in Arms, ReplayStepFails(a)
      PROVE  FlagTypeOK'
  BY <1>19 DEF FlagTypeOK, ReplayStepFails, CancelMotion, Cleared, planVars,
    inputVars, faultVars, otherVars, boundVars
<1>20. CASE Gate
  <2>1. PICK out \in [Arms -> Pos], blocked \in BOOLEAN, lapsed \in BOOLEAN,
             expired \in SUBSET {a \in Arms : planState[a] = "failed"} :
          GateAndDispatch(out, blocked, expired, lapsed)
    BY <1>20 DEF Gate
  <2>2. /\ interruptible' \in BOOLEAN
        /\ recSeen' = rec /\ UNCHANGED <<latchLogged, ws, dropped, rec>>
        /\ live' = FALSE /\ present' = FALSE /\ scaled' = TRUE
    BY <2>1, Zenon DEF GateAndDispatch
  <2> QED
    BY <2>2 DEF FlagTypeOK
<1>21. ASSUME NEW held \in BOOLEAN, KeysMsg(held)
      PROVE  FlagTypeOK'
  BY <1>21 DEF FlagTypeOK, KeysMsg, Alone, planVars, inputVars, faultVars,
    otherVars, boundVars
<1>22. CASE BrowserDrops
  BY <1>22 DEF FlagTypeOK, BrowserDrops, Alone, planVars, inputVars,
    faultVars, otherVars, boundVars
<1>23. ASSUME NEW a \in Arms, DriverFault(a)
      PROVE  FlagTypeOK'
  BY <1>23 DEF FlagTypeOK, DriverFault, Alone, planVars, inputVars,
    faultVars, otherVars, boundVars
<1>24. ASSUME NEW a \in Arms, DriverRecovers(a)
      PROVE  FlagTypeOK'
  BY <1>24 DEF FlagTypeOK, DriverRecovers, Alone, planVars, inputVars,
    faultVars, otherVars, boundVars
<1>25. CASE EpisodeEnds
  BY <1>25 DEF FlagTypeOK, EpisodeEnds, Alone, planVars, inputVars,
    faultVars, otherVars, boundVars
<1> QED
  BY <1>1, <1>2, <1>3, <1>4, <1>5, <1>6, <1>7, <1>8, <1>9, <1>10, <1>11,
    <1>12, <1>13, <1>14, <1>15, <1>16, <1>17, <1>18, <1>19, <1>20, <1>21,
    <1>22, <1>23, <1>24, <1>25
  DEF Next, Ops, Tick, Events, Environment

(* Phase, watchdog, events, jogs, workers and counters stay typed. *)
LEMMA RestStep ==
  ASSUME MotionTypeOK, RestTypeOK, Next
  PROVE  RestTypeOK'
<1>1. ASSUME NEW a \in Arms, NEW path \in Paths, NEW inter \in BOOLEAN,
             NEW grips \in SUBSET Grippers, ExecutePlan(a, path, inter, grips)
      PROVE  RestTypeOK'
  BY <1>1 DEF RestTypeOK, ExecutePlan, Submit, StartMotion, LeaveAlone,
    planVars, inputVars, faultVars, otherVars, boundVars
<1>2. ASSUME NEW grips \in SUBSET Grippers, ExecuteGripperOnly(grips)
      PROVE  RestTypeOK'
  BY <1>2 DEF RestTypeOK, ExecuteGripperOnly, Submit, StartMotion,
    LeaveAlone, planVars, inputVars, faultVars, otherVars, boundVars
<1>3. ASSUME NEW S \in Recorded, NEW paths \in [S -> Paths], PlaybackPath(paths)
      PROVE  RestTypeOK'
  BY <1>3 DEF RestTypeOK, PlaybackPath, Submit, StartMotion, LeaveAlone,
    planVars, inputVars, faultVars, otherVars, boundVars
<1>4. ASSUME NEW S \in Recorded, ReplayActions(S)
      PROVE  RestTypeOK'
  BY <1>4 DEF RestTypeOK, ReplayActions, Submit, StartMotion, LeaveAlone,
    planVars, inputVars, faultVars, otherVars, boundVars
<1>5. CASE CancelPlan
  BY <1>5 DEF RestTypeOK, CancelPlan, Request, LeaveAlone, planVars,
    inputVars, faultVars, otherVars, boundVars
<1>6. CASE Takeover
  BY <1>6 DEF RestTypeOK, Takeover, Request, LeaveAlone, planVars,
    inputVars, faultVars, otherVars, boundVars
<1>7. ASSUME NEW a \in Arms, SwitchArm(a)
      PROVE  RestTypeOK'
  <2>1. /\ activeArm' = a /\ inputs' = inputs + 1
        /\ UNCHANGED <<pc, wd, jog, workers, motions, episodes, gotos, faults>>
        /\ UNCHANGED <<faulted, recovering, reseeded, events, batch>>
    BY <1>7, Zenon DEF SwitchArm, Request, LeaveAlone, inputVars, faultVars
  <2> QED
    BY <2>1 DEF RestTypeOK
<1>8. ASSUME NEW a \in Arms, NEW p \in Pos, JointJog(a, p)
      PROVE  RestTypeOK'
  BY <1>8, SMTT(20) DEF RestTypeOK, JointJog, Request, LeaveAlone, planVars,
    inputVars, faultVars, otherVars, boundVars
<1>9. ASSUME NEW a \in Arms, JointGoto(a)
      PROVE  RestTypeOK'
  <2>1. /\ inputs' = inputs + 1 /\ gotos' = gotos + 1
        /\ UNCHANGED <<pc, wd, jog, activeArm, motions, episodes, faults>>
        /\ UNCHANGED <<faulted, recovering, reseeded, events, batch>>
    BY <1>9, Zenon DEF JointGoto, Request, inputVars, faultVars
  <2>2. workers' \in [Arms -> Nat]
    BY <1>9 DEF JointGoto, RestTypeOK
  <2> QED
    BY <2>1, <2>2 DEF RestTypeOK
<1>10. ASSUME NEW a \in Arms, PlanFailed(a)
      PROVE  RestTypeOK'
  BY <1>10, SMTT(20) DEF RestTypeOK, PlanFailed, LeaveAlone, planVars, inputVars,
    faultVars, otherVars, boundVars
<1>11. ASSUME NEW a \in Arms, NEW path \in Paths, PlanReady(a, path)
      PROVE  RestTypeOK'
  BY <1>11, SMTT(20) DEF RestTypeOK, PlanReady, LeaveAlone, planVars, inputVars,
    faultVars, otherVars, boundVars
<1>12. CASE EpisodeNew
  BY <1>12 DEF RestTypeOK, EpisodeNew, LeaveAlone, planVars, inputVars,
    faultVars, otherVars, boundVars
<1>13. CASE ReadInputs
  BY <1>13 DEF RestTypeOK, ReadInputs, ScaleOutcome, planVars, inputVars,
    faultVars, otherVars, boundVars
<1>14. ASSUME NEW a \in Arms, OnFaultEvent(a)
      PROVE  RestTypeOK'
  <2>1. batch # <<>> /\ batch' = Tail(batch) /\ jog' = [jog EXCEPT ![a] = None]
        /\ faulted' = faulted \cup {a} /\ recovering' = recovering \ {a}
        /\ UNCHANGED <<pc, wd, events, reseeded, activeArm, workers, boundVars>>
    BY <1>14 DEF OnFaultEvent, inputVars
  <2> QED
    BY <2>1 DEF RestTypeOK, boundVars
<1>15. ASSUME NEW a \in Arms, OnRecoveredEvent(a)
      PROVE  RestTypeOK'
  <2>1. batch # <<>> /\ batch' = Tail(batch)
        /\ faulted' = faulted \ {a} /\ recovering' = recovering \cup {a}
        /\ UNCHANGED <<pc, events, jog, activeArm, workers, boundVars>>
    BY <1>15 DEF OnRecoveredEvent, Reseed, otherVars
  <2>2. wd' \in {"ok", "tripped", "await"} /\ reseeded' \subseteq Arms
    BY <1>15, ZenonT(40) DEF OnRecoveredEvent, Reseed, RestTypeOK
  <2> QED
    BY <2>1, <2>2 DEF RestTypeOK, boundVars
<1>16. CASE InterruptMotion
  BY <1>16 DEF RestTypeOK, InterruptMotion, Interrupted, planVars,
    inputVars, faultVars, otherVars, boundVars
<1>17. CASE Resolve
  <2>1. \A a \in Arms : JogAfter(a) \in Pos \cup {None}
    BY JogType
  <2>2. jog' \in [Arms -> Pos \cup {None}]
    BY <1>17, <2>1 DEF Resolve, RestTypeOK
  <2>3. /\ pc' = "gate"
        /\ UNCHANGED <<wd, faultVars, activeArm, workers, boundVars>>
    BY <1>17, Zenon DEF Resolve, inputVars
  <2> QED
    BY <2>2, <2>3 DEF RestTypeOK, faultVars, boundVars
<1>18. CASE ResolveStalled
  BY <1>18 DEF RestTypeOK, ResolveStalled, planVars, inputVars, faultVars,
    otherVars, boundVars
<1>19. ASSUME NEW a \in Arms, ReplayStepFails(a)
      PROVE  RestTypeOK'
  <2>1. \A b \in Arms : JogAfter(b) \in Pos \cup {None}
    BY JogType
  <2>2. jog' \in [Arms -> Pos \cup {None}]
    BY <1>19, <2>1 DEF ReplayStepFails, RestTypeOK
  <2>3. /\ pc' = "gate"
        /\ UNCHANGED <<wd, faultVars, activeArm, workers, boundVars>>
    BY <1>19, Zenon DEF ReplayStepFails, inputVars
  <2> QED
    BY <2>2, <2>3 DEF RestTypeOK, faultVars, boundVars
<1>20. CASE Gate
  <2>1. PICK out, kept \in [Arms -> Pos], blocked \in BOOLEAN, lapsed \in BOOLEAN,
             expired \in SUBSET {a \in Arms : planState[a] = "failed"} :
          GateAndDispatch(out, blocked, expired, lapsed)
    BY <1>20 DEF Gate
  <2>2. /\ pc' = "ops"
        /\ UNCHANGED <<wd, faultVars, jog, activeArm, workers, boundVars>>
    BY <2>1, Zenon DEF GateAndDispatch
  <2> QED
    BY <2>2 DEF RestTypeOK, faultVars, boundVars
<1>21. ASSUME NEW held \in BOOLEAN, KeysMsg(held)
      PROVE  RestTypeOK'
  BY <1>21 DEF RestTypeOK, KeysMsg, Alone, planVars, inputVars, faultVars,
    otherVars, boundVars
<1>22. CASE BrowserDrops
  BY <1>22 DEF RestTypeOK, BrowserDrops, Alone, planVars, inputVars,
    faultVars, otherVars, boundVars
<1>23. ASSUME NEW a \in Arms, DriverFault(a)
      PROVE  RestTypeOK'
  <2>1. [kind |-> "fault", arm |-> a] \in Event
    BY DEF Event
  <2> QED
    BY <1>23, <2>1 DEF RestTypeOK, DriverFault, Alone, otherVars, boundVars
<1>24. ASSUME NEW a \in Arms, DriverRecovers(a)
      PROVE  RestTypeOK'
  <2>1. [kind |-> "recovered", arm |-> a] \in Event
    BY DEF Event
  <2> QED
    BY <1>24, <2>1 DEF RestTypeOK, DriverRecovers, Alone, otherVars, boundVars
<1>25. CASE EpisodeEnds
  BY <1>25 DEF RestTypeOK, EpisodeEnds, Alone, planVars, inputVars,
    faultVars, otherVars, boundVars
<1> QED
  BY <1>1, <1>2, <1>3, <1>4, <1>5, <1>6, <1>7, <1>8, <1>9, <1>10, <1>11,
    <1>12, <1>13, <1>14, <1>15, <1>16, <1>17, <1>18, <1>19, <1>20, <1>21,
    <1>22, <1>23, <1>24, <1>25
  DEF Next, Ops, Tick, Events, Environment

(* Commands, waypoints and what is known of the motion stay typed. *)
LEMMA MotionStep ==
  ASSUME MotionTypeOK, RestTypeOK, Next
  PROVE  MotionTypeOK'
<1>1. ASSUME NEW a \in Arms, NEW path \in Paths, NEW inter \in BOOLEAN,
             NEW grips \in SUBSET Grippers, ExecutePlan(a, path, inter, grips)
      PROVE  MotionTypeOK'
  BY <1>1 DEF MotionTypeOK, ExecutePlan, Submit, StartMotion, LeaveAlone,
    planVars, inputVars, faultVars, otherVars, boundVars, Status, Reason
<1>2. ASSUME NEW grips \in SUBSET Grippers, ExecuteGripperOnly(grips)
      PROVE  MotionTypeOK'
  BY <1>2 DEF MotionTypeOK, ExecuteGripperOnly, Submit, StartMotion,
    LeaveAlone, planVars, inputVars, faultVars, otherVars, boundVars,
    Status, Reason
<1>3. ASSUME NEW S \in Recorded, NEW paths \in [S -> Paths], PlaybackPath(paths)
      PROVE  MotionTypeOK'
  BY <1>3 DEF MotionTypeOK, PlaybackPath, Submit, StartMotion, LeaveAlone,
    planVars, inputVars, faultVars, otherVars, boundVars, Status, Reason
<1>4. ASSUME NEW S \in Recorded, ReplayActions(S)
      PROVE  MotionTypeOK'
  BY <1>4 DEF MotionTypeOK, ReplayActions, Submit, StartMotion, LeaveAlone,
    planVars, inputVars, faultVars, otherVars, boundVars, Status, Reason
<1>5. CASE CancelPlan
  <2>1. CancelPlans("manager") /\ UNCHANGED <<cmd, safe, q>>
    BY <1>5, Zenon DEF CancelPlan, Request, LeaveAlone
  <2> QED
    BY <2>1, CancelType, Still DEF CancelPlans, Reason
<1>6. CASE Takeover
  <2>1. CancelPlans("takeover") /\ UNCHANGED <<cmd, safe, q>>
    BY <1>6, Zenon DEF Takeover, Request, LeaveAlone
  <2> QED
    BY <2>1, CancelType, Still DEF CancelPlans, Reason
<1>7. ASSUME NEW a \in Arms, SwitchArm(a)
      PROVE  MotionTypeOK'
  <2>1. UNCHANGED <<cmd, safe, q>> /\ (CancelPlans("arm switch") \/ UNCHANGED planVars)
    BY <1>7, Zenon DEF SwitchArm, Request, LeaveAlone
  <2> QED
    BY <2>1, CancelType, SameMotion, Still DEF CancelPlans, Reason
<1>8. ASSUME NEW a \in Arms, NEW p \in Pos, JointJog(a, p)
      PROVE  MotionTypeOK'
  <2>1. UNCHANGED <<cmd, safe, q>> /\ (CancelPlans("jog") \/ UNCHANGED planVars)
    BY <1>8, Zenon DEF JointJog, Request, LeaveAlone
  <2> QED
    BY <2>1, CancelType, SameMotion, Still DEF CancelPlans, Reason
<1>9. ASSUME NEW a \in Arms, JointGoto(a)
      PROVE  MotionTypeOK'
  <2>1. planState' \in [Arms -> {None, "planning", "executing", "failed"}]
    BY <1>9 DEF JointGoto, MotionTypeOK, Cleared
  <2>2. wps' \in [Arms -> Seq(Goal)]
    BY <1>9 DEF JointGoto, MotionTypeOK
  <2>3. arriving' \in [Arms -> Goal \cup {None}]
    BY <1>9 DEF JointGoto, MotionTypeOK
  <2>4. /\ planStatus' \in Status /\ cancelReason' \in Reason \cup {None}
        /\ deferred' \subseteq Arms /\ driven' \subseteq Arms /\ playback' \subseteq Arms
        /\ hold' \in Nat /\ rows' \in Nat
    BY <1>9 DEF JointGoto, MotionTypeOK, Status, Reason
  <2>5. UNCHANGED <<cmd, safe, q, gripSet>>
    BY <1>9, Zenon DEF JointGoto
  <2> QED
    BY <2>1, <2>2, <2>3, <2>4, <2>5 DEF MotionTypeOK
<1>10. ASSUME NEW a \in Arms, PlanFailed(a)
      PROVE  MotionTypeOK'
  BY <1>10 DEF MotionTypeOK, PlanFailed, LeaveAlone, planVars, inputVars,
    faultVars, otherVars, boundVars, Status, Reason
<1>11. ASSUME NEW a \in Arms, NEW path \in Paths, PlanReady(a, path)
      PROVE  MotionTypeOK'
  <2>1. /\ UNCHANGED <<arriving, cancelReason, deferred, gripSet, hold, driven, rows>>
        /\ UNCHANGED <<cmd, safe, q>>
    BY <1>11, Zenon DEF PlanReady, LeaveAlone
  <2>2. wps' \in [Arms -> Seq(Goal)]
    <3>1. path \in Seq(Goal)
      OBVIOUS
    <3>2. CASE UNCHANGED wps
      BY <3>2 DEF MotionTypeOK
    <3>3. CASE wps' = [wps EXCEPT ![a] = path]
      BY <3>1, <3>3 DEF MotionTypeOK
    <3> QED
      BY <1>11, <3>2, <3>3, Zenon DEF PlanReady
  <2>4. planState' \in [Arms -> {None, "planning", "executing", "failed"}]
    BY <1>11 DEF PlanReady, MotionTypeOK
  <2>3. planStatus' \in Status \cup {None} /\ playback' \subseteq Arms
    BY <1>11 DEF PlanReady, MotionTypeOK, Status
  <2> QED
    BY <2>1, <2>2, <2>3, <2>4 DEF MotionTypeOK
<1>12. CASE EpisodeNew
  BY <1>12 DEF MotionTypeOK, EpisodeNew, LeaveAlone, planVars, inputVars,
    faultVars, otherVars, boundVars, Status, Reason
<1>13. CASE ReadInputs
  BY <1>13 DEF MotionTypeOK, ReadInputs, ScaleOutcome, planVars, inputVars,
    faultVars, otherVars, boundVars, Status, Reason
<1>14. ASSUME NEW a \in Arms, OnFaultEvent(a)
      PROVE  MotionTypeOK'
  <2>1. UNCHANGED <<cmd, safe, q>>
    BY <1>14, Zenon DEF OnFaultEvent
  <2>2. CASE CancelPlans("driver fault")
    BY <2>1, <2>2, CancelType, Still DEF CancelPlans, Reason
  <2>3. CASE UNCHANGED planVars
    BY <2>1, <2>3, SameMotion
  <2>4. CASE ~ CancelPlans("driver fault") /\ ~ UNCHANGED planVars
    <3>1. wps' = [wps EXCEPT ![a] = <<>>]
      BY <1>14, <2>4, Zenon DEF OnFaultEvent
    <3>7. /\ cancelReason' = "driver fault"
          /\ UNCHANGED <<arriving, deferred, gripSet, hold, driven, rows, playback>>
      BY <1>14, <2>4, Zenon DEF OnFaultEvent
    <3>2. planStatus' = "cancelled" \/ planStatus' = planStatus
      BY <1>14, <2>4, Zenon DEF OnFaultEvent
    <3>3. planStatus' \in Status \cup {None}
      BY <3>2 DEF MotionTypeOK, Status
    <3>4. wps' \in [Arms -> Seq(Goal)]
      BY <3>1 DEF MotionTypeOK
    <3>5. planState' = [planState EXCEPT ![a] = None]
      BY <1>14, <2>4, Zenon DEF OnFaultEvent
    <3>6. planState' \in [Arms -> {None, "planning", "executing", "failed"}]
      BY <3>5 DEF MotionTypeOK
    <3> QED
      BY <2>1, <3>3, <3>4, <3>6, <3>7 DEF MotionTypeOK, Reason
  <2> QED
    BY <2>2, <2>3, <2>4
<1>15. ASSUME NEW a \in Arms, OnRecoveredEvent(a)
      PROVE  MotionTypeOK'
  <2>1. UNCHANGED <<q, planVars>>
    BY <1>15, Zenon DEF OnRecoveredEvent, Reseed
  <2>2. cmd' \in [Arms -> Pos]
    BY <1>15 DEF OnRecoveredEvent, Reseed, MotionTypeOK
  <2>3. safe' \in [Arms -> Pos]
    BY <1>15 DEF OnRecoveredEvent, Reseed, MotionTypeOK
  <2> QED
    BY <2>1, <2>2, <2>3 DEF MotionTypeOK, planVars
<1>16. CASE InterruptMotion
  <2>1. /\ UNCHANGED <<cmd, safe, q>>
        /\ \/ CancelPlans("movement key") \/ CancelPlans("browser disconnected")
           \/ UNCHANGED planVars
    BY <1>16, Zenon DEF InterruptMotion, Interrupted
  <2> QED
    BY <2>1, CancelType, SameMotion, Still DEF CancelPlans, Reason
<1>17. CASE Resolve
  <2>1. q' \in [Arms -> Pos]
    BY <1>17 DEF Resolve
  <2>2. wps' \in [Arms -> Seq(Goal)]
    BY <1>17 DEF Resolve, Retires, Plans, MotionTypeOK
  <2>3. arriving' \in [Arms -> Goal \cup {None}]
    BY <1>17 DEF Resolve, Arrives, Retires, Plans, MotionTypeOK
  <2>4. rows' \in Nat
    BY <1>17 DEF Resolve, MotionTypeOK
  <2>5. UNCHANGED <<cmd, safe, planState, planStatus, cancelReason, deferred, gripSet,
                    hold, driven, playback>>
    BY <1>17, Zenon DEF Resolve
  <2> QED
    BY <2>1, <2>2, <2>3, <2>4, <2>5 DEF MotionTypeOK
<1>18. CASE ResolveStalled
  <2>1. rows' \in Nat
    BY <1>18 DEF ResolveStalled, MotionTypeOK
  <2>2. q' = cmd /\ UNCHANGED <<cmd, safe, wps, arriving, planState, planStatus,
                    cancelReason, deferred, gripSet, hold, driven, playback>>
    BY <1>18, Zenon DEF ResolveStalled
  <2> QED
    BY <2>1, <2>2 DEF MotionTypeOK
<1>19. ASSUME NEW a \in Arms, ReplayStepFails(a)
      PROVE  MotionTypeOK'
  <2> DEFINE S == MotionArms \ {b \in {c \in Arms : c < a} : Arrives(b)}
  <2>1. CancelMotion("replay step failed", S) /\ UNCHANGED <<cmd, safe>>
    BY <1>19, Zenon DEF ReplayStepFails
  <2>2. q' \in [Arms -> Pos]
    BY <1>19 DEF ReplayStepFails
  <2> QED
    BY <2>1, <2>2, CancelType DEF Reason
<1>20. CASE Gate
  <2>1. PICK out, kept \in [Arms -> Pos], blocked \in BOOLEAN, lapsed \in BOOLEAN,
             expired \in SUBSET {a \in Arms : planState[a] = "failed"} :
          GateAndDispatch(out, blocked, expired, lapsed) /\ safe' = kept
    BY <1>20 DEF Gate
  <2> QED
    BY <2>1, GateType
<1>21. ASSUME NEW held \in BOOLEAN, KeysMsg(held)
      PROVE  MotionTypeOK'
  BY <1>21 DEF MotionTypeOK, KeysMsg, Alone, planVars, inputVars, faultVars,
    otherVars, boundVars, Status, Reason
<1>22. CASE BrowserDrops
  BY <1>22 DEF MotionTypeOK, BrowserDrops, Alone, planVars, inputVars,
    faultVars, otherVars, boundVars, Status, Reason
<1>23. ASSUME NEW a \in Arms, DriverFault(a)
      PROVE  MotionTypeOK'
  BY <1>23 DEF MotionTypeOK, DriverFault, Alone, planVars, inputVars,
    faultVars, otherVars, boundVars, Status, Reason
<1>24. ASSUME NEW a \in Arms, DriverRecovers(a)
      PROVE  MotionTypeOK'
  BY <1>24 DEF MotionTypeOK, DriverRecovers, Alone, planVars, inputVars,
    faultVars, otherVars, boundVars, Status, Reason
<1>25. CASE EpisodeEnds
  BY <1>25 DEF MotionTypeOK, EpisodeEnds, Alone, planVars, inputVars,
    faultVars, otherVars, boundVars, Status, Reason
<1> QED
  BY <1>1, <1>2, <1>3, <1>4, <1>5, <1>6, <1>7, <1>8, <1>9, <1>10, <1>11,
    <1>12, <1>13, <1>14, <1>15, <1>16, <1>17, <1>18, <1>19, <1>20, <1>21,
    <1>22, <1>23, <1>24, <1>25
  DEF Next, Ops, Tick, Events, Environment

(* A session starts in a typed state. *)
LEMMA InitType == Init => TypeOK
<1> SUFFICES ASSUME Init
             PROVE  TypeOK
  OBVIOUS
<1>1. FlagTypeOK
  BY DEF Init, FlagTypeOK
<1>2. MotionTypeOK
  BY DEF Init, MotionTypeOK, Pos
<1>3. RestTypeOK
  BY DEF Init, RestTypeOK
<1> QED
  BY <1>1, <1>2, <1>3 DEF TypeOK

(* A step that changes nothing. *)
LEMMA StutterType == TypeOK /\ UNCHANGED vars => TypeOK'
<1> SUFFICES ASSUME TypeOK, UNCHANGED vars
             PROVE  TypeOK'
  OBVIOUS
<1>1. FlagTypeOK'
  BY DEF TypeOK, FlagTypeOK, vars, inputVars, planVars, otherVars
<1>2. MotionTypeOK'
  BY DEF TypeOK, MotionTypeOK, vars, planVars
<1>3. RestTypeOK'
  BY DEF TypeOK, RestTypeOK, vars, inputVars, faultVars, otherVars, boundVars
<1> QED
  BY <1>1, <1>2, <1>3 DEF TypeOK

(* The loop never leaves its types: whatever is commanded, however the     *)
(* gate answers, an arm's command is a posture of its travel, and the      *)
(* executor holds goals only.                                              *)
THEOREM TypeCorrect == Spec => []TypeOK
<1>1. ASSUME TypeOK, Next
      PROVE  TypeOK'
  <2>1. FlagTypeOK'
    BY <1>1, FlagsStep DEF TypeOK
  <2>2. MotionTypeOK'
    BY <1>1, MotionStep DEF TypeOK
  <2>3. RestTypeOK'
    BY <1>1, RestStep DEF TypeOK
  <2> QED
    BY <2>1, <2>2, <2>3 DEF TypeOK
<1>2. TypeOK /\ [Next]_vars => TypeOK'
  BY <1>1, StutterType
<1> QED
  BY <1>2, InitType, PTL DEF Spec

-----------------------------------------------------------------------------
(* A recovered arm holds still until the operator lets go. *)

(* The re-seed of a batch of driver events holds for the whole batch: an   *)
(* arm that recovers a second time in it is not re-seeded again.           *)
ReseedHolds == \A a \in reseeded : pc = "events" /\ safe[a] = cmd[a]

(* The inductive invariant. *)
RecoveryInv == RecoveringHolds /\ ReseedHolds

(* Every step keeps it. *)
LEMMA RecoveryStep ==
  ASSUME MotionTypeOK, RestTypeOK, RecoveryInv, Next
  PROVE  RecoveryInv'
<1>1. ASSUME NEW a \in Arms, NEW path \in Paths, NEW inter \in BOOLEAN,
             NEW grips \in SUBSET Grippers, ExecutePlan(a, path, inter, grips)
      PROVE  RecoveryInv'
  <2>1. /\ pc = "ops" /\ pc' = "ops"
        /\ UNCHANGED <<cmd, safe, recovering, reseeded>>
    BY <1>1, Zenon DEF ExecutePlan, Submit, StartMotion, LeaveAlone, faultVars
  <2> QED
    BY <2>1 DEF RecoveryInv, RecoveringHolds, ReseedHolds
<1>2. ASSUME NEW grips \in SUBSET Grippers, ExecuteGripperOnly(grips)
      PROVE  RecoveryInv'
  <2>1. /\ pc = "ops" /\ pc' = "ops"
        /\ UNCHANGED <<cmd, safe, recovering, reseeded>>
    BY <1>2, Zenon DEF ExecuteGripperOnly, Submit, StartMotion, LeaveAlone, faultVars
  <2> QED
    BY <2>1 DEF RecoveryInv, RecoveringHolds, ReseedHolds
<1>3. ASSUME NEW S \in Recorded, NEW paths \in [S -> Paths], PlaybackPath(paths)
      PROVE  RecoveryInv'
  <2>1. /\ pc = "ops" /\ pc' = "ops"
        /\ UNCHANGED <<cmd, safe, recovering, reseeded>>
    BY <1>3, Zenon DEF PlaybackPath, Submit, StartMotion, LeaveAlone, faultVars
  <2> QED
    BY <2>1 DEF RecoveryInv, RecoveringHolds, ReseedHolds
<1>4. ASSUME NEW S \in Recorded, ReplayActions(S)
      PROVE  RecoveryInv'
  <2>1. /\ pc = "ops" /\ pc' = "ops"
        /\ UNCHANGED <<cmd, safe, recovering, reseeded>>
    BY <1>4, Zenon DEF ReplayActions, Submit, StartMotion, LeaveAlone, faultVars
  <2> QED
    BY <2>1 DEF RecoveryInv, RecoveringHolds, ReseedHolds
<1>5. CASE CancelPlan
  <2>1. /\ pc = "ops" /\ pc' = "ops"
        /\ UNCHANGED <<cmd, safe, recovering, reseeded>>
    BY <1>5, Zenon DEF CancelPlan, Request, LeaveAlone, faultVars
  <2> QED
    BY <2>1 DEF RecoveryInv, RecoveringHolds, ReseedHolds
<1>6. CASE Takeover
  <2>1. /\ pc = "ops" /\ pc' = "ops"
        /\ UNCHANGED <<cmd, safe, recovering, reseeded>>
    BY <1>6, Zenon DEF Takeover, Request, LeaveAlone, faultVars
  <2> QED
    BY <2>1 DEF RecoveryInv, RecoveringHolds, ReseedHolds
<1>7. ASSUME NEW a \in Arms, SwitchArm(a)
      PROVE  RecoveryInv'
  <2>1. /\ pc = "ops" /\ pc' = "ops"
        /\ UNCHANGED <<cmd, safe, recovering, reseeded>>
    BY <1>7, Zenon DEF SwitchArm, Request, LeaveAlone, faultVars
  <2> QED
    BY <2>1 DEF RecoveryInv, RecoveringHolds, ReseedHolds
<1>8. ASSUME NEW a \in Arms, NEW p \in Pos, JointJog(a, p)
      PROVE  RecoveryInv'
  <2>1. /\ pc = "ops" /\ pc' = "ops"
        /\ UNCHANGED <<cmd, safe, recovering, reseeded>>
    BY <1>8, Zenon DEF JointJog, Request, LeaveAlone, faultVars
  <2> QED
    BY <2>1 DEF RecoveryInv, RecoveringHolds, ReseedHolds
<1>9. ASSUME NEW a \in Arms, JointGoto(a)
      PROVE  RecoveryInv'
  <2>1. /\ pc = "ops" /\ pc' = "ops"
        /\ UNCHANGED <<cmd, safe, recovering, reseeded>>
    BY <1>9, Zenon DEF JointGoto, Request, faultVars
  <2> QED
    BY <2>1 DEF RecoveryInv, RecoveringHolds, ReseedHolds
<1>10. ASSUME NEW a \in Arms, PlanFailed(a)
      PROVE  RecoveryInv'
  <2>1. /\ pc = "ops" /\ pc' = "ops"
        /\ UNCHANGED <<cmd, safe, recovering, reseeded>>
    BY <1>10, Zenon DEF PlanFailed, LeaveAlone, faultVars
  <2> QED
    BY <2>1 DEF RecoveryInv, RecoveringHolds, ReseedHolds
<1>11. ASSUME NEW a \in Arms, NEW path \in Paths, PlanReady(a, path)
      PROVE  RecoveryInv'
  <2>1. /\ pc = "ops" /\ pc' = "ops"
        /\ UNCHANGED <<cmd, safe, recovering, reseeded>>
    BY <1>11, Zenon DEF PlanReady, LeaveAlone, faultVars
  <2> QED
    BY <2>1 DEF RecoveryInv, RecoveringHolds, ReseedHolds
<1>12. CASE EpisodeNew
  <2>1. /\ pc = "ops" /\ pc' = "ops"
        /\ UNCHANGED <<cmd, safe, recovering, reseeded>>
    BY <1>12, Zenon DEF EpisodeNew, LeaveAlone, faultVars
  <2> QED
    BY <2>1 DEF RecoveryInv, RecoveringHolds, ReseedHolds
<1>13. CASE ReadInputs
  <2>1. /\ pc = "ops" /\ pc' = "events" /\ recovering' \subseteq recovering
        /\ UNCHANGED <<cmd, safe, reseeded>>
    BY <1>13 DEF ReadInputs
  <2> QED
    BY <2>1 DEF RecoveryInv, RecoveringHolds, ReseedHolds
<1>14. ASSUME NEW a \in Arms, OnFaultEvent(a)
      PROVE  RecoveryInv'
  <2>1. /\ pc = "events" /\ recovering' = recovering \ {a}
        /\ UNCHANGED <<pc, cmd, safe, reseeded>>
    BY <1>14, Zenon DEF OnFaultEvent
  <2> QED
    BY <2>1 DEF RecoveryInv, RecoveringHolds, ReseedHolds
<1>15. ASSUME NEW a \in Arms, OnRecoveredEvent(a)
      PROVE  RecoveryInv'
  <2>1. pc = "events" /\ pc' = "events" /\ recovering' = recovering \cup {a}
    BY <1>15, Zenon DEF OnRecoveredEvent, Reseed
  <2>2. CASE a \in reseeded
    <3>1. UNCHANGED <<cmd, safe, reseeded>>
      BY <1>15, <2>2, Zenon DEF OnRecoveredEvent, Reseed
    <3> QED
      BY <2>1, <2>2, <3>1 DEF RecoveryInv, RecoveringHolds, ReseedHolds
  <2>3. CASE a \notin reseeded
    <3>1. PICK p \in Pos : cmd' = [cmd EXCEPT ![a] = p] /\ safe' = [safe EXCEPT ![a] = p]
      BY <1>15, <2>3, Zenon DEF OnRecoveredEvent, Reseed
    <3>2. reseeded' = reseeded \cup {a}
      BY <1>15, <2>3, Zenon DEF OnRecoveredEvent, Reseed
    <3> QED
      BY <2>1, <3>1, <3>2
      DEF RecoveryInv, RecoveringHolds, ReseedHolds, MotionTypeOK, RestTypeOK
  <2> QED
    BY <2>2, <2>3
<1>16. CASE InterruptMotion
  <2>1. /\ pc' = "resolve" /\ reseeded' = {}
        /\ UNCHANGED <<cmd, safe, recovering>>
    BY <1>16, Zenon DEF InterruptMotion, Interrupted
  <2> QED
    BY <2>1 DEF RecoveryInv, RecoveringHolds, ReseedHolds
<1>17. CASE Resolve
  <2>1. \A b \in recovering : q'[b] = cmd[b]
    <3>1. \A b \in Arms : q'[b] \in Resolved(b)
      BY <1>17 DEF Resolve
    <3> QED
      BY <3>1 DEF Resolved, Plans, Replays, Jogs, Teleops, Stopped, RestTypeOK
  <2>2. pc = "resolve" /\ UNCHANGED <<cmd, safe, recovering, reseeded>>
    BY <1>17, Zenon DEF Resolve, faultVars
  <2> QED
    BY <2>1, <2>2 DEF RecoveryInv, RecoveringHolds, ReseedHolds
<1>18. CASE ResolveStalled
  <2>1. pc = "resolve" /\ q' = cmd /\ UNCHANGED <<cmd, safe, recovering, reseeded>>
    BY <1>18, Zenon DEF ResolveStalled, faultVars
  <2> QED
    BY <2>1 DEF RecoveryInv, RecoveringHolds, ReseedHolds
<1>19. ASSUME NEW a \in Arms, ReplayStepFails(a)
      PROVE  RecoveryInv'
  <2>1. \A b \in recovering : q'[b] = cmd[b]
    <3>1. \A b \in Arms : Stopped(b) => q'[b] \in Resolved(b) \cup {cmd[b]}
      BY <1>19 DEF ReplayStepFails
    <3> QED
      BY <3>1 DEF Resolved, Plans, Replays, Jogs, Teleops, Stopped, RestTypeOK
  <2>2. pc = "resolve" /\ UNCHANGED <<cmd, safe, recovering, reseeded>>
    BY <1>19, Zenon DEF ReplayStepFails, faultVars
  <2> QED
    BY <2>1, <2>2 DEF RecoveryInv, RecoveringHolds, ReseedHolds
<1>20. CASE Gate
  <2>1. PICK out, kept \in [Arms -> Pos], blocked \in BOOLEAN, lapsed \in BOOLEAN,
             expired \in SUBSET {a \in Arms : planState[a] = "failed"} :
          /\ IF blocked
             THEN \A a \in Arms : out[a] \in {q[a], safe[a]} /\ kept[a] \in {safe[a], out[a]}
             ELSE out = q /\ kept = q
          /\ safe' = kept
          /\ GateAndDispatch(out, blocked, expired, lapsed)
    BY <1>20 DEF Gate
  <2>2. /\ pc = "gate" /\ pc' = "ops" /\ cmd' = out
        /\ UNCHANGED <<recovering, reseeded>>
    BY <2>1, Zenon DEF GateAndDispatch, faultVars
  <2> QED
    BY <2>1, <2>2 DEF RecoveryInv, RecoveringHolds, ReseedHolds, RestTypeOK
<1>21. ASSUME NEW held \in BOOLEAN, KeysMsg(held)
      PROVE  RecoveryInv'
  <2>1. /\ pc = "ops" /\ pc' = "ops"
        /\ UNCHANGED <<cmd, safe, recovering, reseeded>>
    BY <1>21, Zenon DEF KeysMsg, Alone, faultVars
  <2> QED
    BY <2>1 DEF RecoveryInv, RecoveringHolds, ReseedHolds
<1>22. CASE BrowserDrops
  <2>1. UNCHANGED <<pc, cmd, safe, q, recovering, reseeded>>
    BY <1>22, Zenon DEF BrowserDrops, Alone, faultVars
  <2> QED
    BY <2>1 DEF RecoveryInv, RecoveringHolds, ReseedHolds
<1>23. ASSUME NEW a \in Arms, DriverFault(a)
      PROVE  RecoveryInv'
  <2>1. /\ pc = "ops" /\ pc' = "ops"
        /\ UNCHANGED <<cmd, safe, recovering, reseeded>>
    BY <1>23, Zenon DEF DriverFault, Alone, faultVars
  <2> QED
    BY <2>1 DEF RecoveryInv, RecoveringHolds, ReseedHolds
<1>24. ASSUME NEW a \in Arms, DriverRecovers(a)
      PROVE  RecoveryInv'
  <2>1. /\ pc = "ops" /\ pc' = "ops"
        /\ UNCHANGED <<cmd, safe, recovering, reseeded>>
    BY <1>24, Zenon DEF DriverRecovers, Alone, faultVars
  <2> QED
    BY <2>1 DEF RecoveryInv, RecoveringHolds, ReseedHolds
<1>25. CASE EpisodeEnds
  <2>1. /\ pc = "ops" /\ pc' = "ops"
        /\ UNCHANGED <<cmd, safe, recovering, reseeded>>
    BY <1>25, Zenon DEF EpisodeEnds, Alone, faultVars
  <2> QED
    BY <2>1 DEF RecoveryInv, RecoveringHolds, ReseedHolds
<1> QED
  BY <1>1, <1>2, <1>3, <1>4, <1>5, <1>6, <1>7, <1>8, <1>9, <1>10, <1>11,
    <1>12, <1>13, <1>14, <1>15, <1>16, <1>17, <1>18, <1>19, <1>20, <1>21,
    <1>22, <1>23, <1>24, <1>25
  DEF Next, Ops, Tick, Events, Environment

(* While an arm waits for the operator's release after a recovery, neither *)
(* a held key, a plan, a jog nor the gate's hold moves it.                 *)
THEOREM RecoveredArmHolds == Spec => []RecoveringHolds
<1>1. Init => RecoveryInv
  BY DEF Init, RecoveryInv, RecoveringHolds, ReseedHolds
<1>2. TypeOK /\ RecoveryInv /\ [Next]_vars => RecoveryInv'
  <2>1. TypeOK /\ RecoveryInv /\ Next => RecoveryInv'
    BY RecoveryStep DEF TypeOK
  <2>2. RecoveryInv /\ UNCHANGED vars => RecoveryInv'
    BY DEF RecoveryInv, RecoveringHolds, ReseedHolds, vars, faultVars
  <2> QED
    BY <2>1, <2>2
<1>3. RecoveryInv => RecoveringHolds
  BY DEF RecoveryInv
<1> QED
  BY <1>1, <1>2, <1>3, TypeCorrect, PTL DEF Spec

-----------------------------------------------------------------------------
(* The operator's input beats every motion. *)

(* A goal is pending confirmation only between the resolve and the gate of *)
(* one tick.                                                               *)
ArrivalsWithinTick == pc # "gate" => \A a \in Arms : arriving[a] = None

(* From the moment the inputs were applied, nothing moves against them.    *)
InputObeyed ==
  pc \in {"resolve", "gate"} /\ (live \/ (interruptible /\ present))
    => \A a \in Arms : ~ InMotion(a)

(* The inductive invariant. *)
InputInv == ArrivalsWithinTick /\ InputObeyed

(* Every step keeps it. *)
LEMMA InputStep ==
  ASSUME InputInv, Next
  PROVE  InputInv'
<1>1. ASSUME NEW a \in Arms, NEW path \in Paths, NEW inter \in BOOLEAN,
             NEW grips \in SUBSET Grippers, ExecutePlan(a, path, inter, grips)
      PROVE  InputInv'
  <2>1. pc = "ops" /\ pc' = "ops" /\ UNCHANGED arriving
    BY <1>1, Zenon DEF ExecutePlan, Submit, StartMotion, LeaveAlone, planVars
  <2> QED
    BY <2>1 DEF InputInv, ArrivalsWithinTick, InputObeyed
<1>2. ASSUME NEW grips \in SUBSET Grippers, ExecuteGripperOnly(grips)
      PROVE  InputInv'
  <2>1. pc = "ops" /\ pc' = "ops" /\ UNCHANGED arriving
    BY <1>2, Zenon DEF ExecuteGripperOnly, Submit, StartMotion, LeaveAlone, planVars
  <2> QED
    BY <2>1 DEF InputInv, ArrivalsWithinTick, InputObeyed
<1>3. ASSUME NEW S \in Recorded, NEW paths \in [S -> Paths], PlaybackPath(paths)
      PROVE  InputInv'
  <2>1. pc = "ops" /\ pc' = "ops" /\ UNCHANGED arriving
    BY <1>3, Zenon DEF PlaybackPath, Submit, StartMotion, LeaveAlone, planVars
  <2> QED
    BY <2>1 DEF InputInv, ArrivalsWithinTick, InputObeyed
<1>4. ASSUME NEW S \in Recorded, ReplayActions(S)
      PROVE  InputInv'
  <2>1. pc = "ops" /\ pc' = "ops" /\ UNCHANGED arriving
    BY <1>4, Zenon DEF ReplayActions, Submit, StartMotion, LeaveAlone, planVars
  <2> QED
    BY <2>1 DEF InputInv, ArrivalsWithinTick, InputObeyed
<1>5. CASE CancelPlan
  <2>1. /\ pc = "ops" /\ pc' = "ops"
        /\ arriving' = arriving \/ arriving' = [b \in Arms |-> None]
    BY <1>5, Zenon DEF CancelPlan, Request, LeaveAlone, planVars, CancelPlans, CancelMotion
  <2> QED
    BY <2>1 DEF InputInv, ArrivalsWithinTick, InputObeyed
<1>6. CASE Takeover
  <2>1. /\ pc = "ops" /\ pc' = "ops"
        /\ arriving' = arriving \/ arriving' = [b \in Arms |-> None]
    BY <1>6, Zenon DEF Takeover, Request, LeaveAlone, planVars, CancelPlans, CancelMotion
  <2> QED
    BY <2>1 DEF InputInv, ArrivalsWithinTick, InputObeyed
<1>7. ASSUME NEW a \in Arms, SwitchArm(a)
      PROVE  InputInv'
  <2>1. /\ pc = "ops" /\ pc' = "ops"
        /\ arriving' = arriving \/ arriving' = [b \in Arms |-> None]
    BY <1>7, Zenon DEF SwitchArm, Request, LeaveAlone, planVars, CancelPlans, CancelMotion
  <2> QED
    BY <2>1 DEF InputInv, ArrivalsWithinTick, InputObeyed
<1>8. ASSUME NEW a \in Arms, NEW p \in Pos, JointJog(a, p)
      PROVE  InputInv'
  <2>1. /\ pc = "ops" /\ pc' = "ops"
        /\ arriving' = arriving \/ arriving' = [b \in Arms |-> None]
    BY <1>8, Zenon DEF JointJog, Request, LeaveAlone, planVars, CancelPlans, CancelMotion
  <2> QED
    BY <2>1 DEF InputInv, ArrivalsWithinTick, InputObeyed
<1>9. ASSUME NEW a \in Arms, JointGoto(a)
      PROVE  InputInv'
  <2>1. /\ pc = "ops" /\ pc' = "ops"
        /\ \E c : arriving' = [b \in Arms |-> IF c THEN None ELSE arriving[b]]
    BY <1>9, Zenon DEF JointGoto, Request, planVars
  <2> QED
    BY <2>1 DEF InputInv, ArrivalsWithinTick, InputObeyed
<1>10. ASSUME NEW a \in Arms, PlanFailed(a)
      PROVE  InputInv'
  <2>1. pc = "ops" /\ pc' = "ops" /\ UNCHANGED arriving
    BY <1>10, Zenon DEF PlanFailed, LeaveAlone, planVars
  <2> QED
    BY <2>1 DEF InputInv, ArrivalsWithinTick, InputObeyed
<1>11. ASSUME NEW a \in Arms, NEW path \in Paths, PlanReady(a, path)
      PROVE  InputInv'
  <2>1. pc = "ops" /\ pc' = "ops" /\ UNCHANGED arriving
    BY <1>11, Zenon DEF PlanReady, LeaveAlone, planVars
  <2> QED
    BY <2>1 DEF InputInv, ArrivalsWithinTick, InputObeyed
<1>12. CASE EpisodeNew
  <2>1. pc = "ops" /\ pc' = "ops" /\ UNCHANGED arriving
    BY <1>12, Zenon DEF EpisodeNew, LeaveAlone, planVars
  <2> QED
    BY <2>1 DEF InputInv, ArrivalsWithinTick, InputObeyed
<1>13. CASE ReadInputs
  <2>1. pc = "ops" /\ pc' = "events" /\ UNCHANGED arriving
    BY <1>13, Zenon DEF ReadInputs, planVars
  <2> QED
    BY <2>1 DEF InputInv, ArrivalsWithinTick, InputObeyed
<1>14. ASSUME NEW a \in Arms, OnFaultEvent(a)
      PROVE  InputInv'
  <2>1. /\ pc = "events" /\ pc' = "events"
        /\ arriving' = arriving \/ arriving' = [b \in Arms |-> None]
    BY <1>14, Zenon DEF OnFaultEvent, planVars, CancelPlans, CancelMotion
  <2> QED
    BY <2>1 DEF InputInv, ArrivalsWithinTick, InputObeyed
<1>15. ASSUME NEW a \in Arms, OnRecoveredEvent(a)
      PROVE  InputInv'
  <2>1. pc = "events" /\ pc' = "events" /\ UNCHANGED arriving
    BY <1>15, Zenon DEF OnRecoveredEvent, Reseed, planVars
  <2> QED
    BY <2>1 DEF InputInv, ArrivalsWithinTick, InputObeyed
<1>16. CASE InterruptMotion
  <2>1. /\ pc = "events" /\ pc' = "resolve"
        /\ UNCHANGED <<live, present>>
    BY <1>16, Zenon DEF InterruptMotion, Interrupted
  <2>2. CASE \E r \in Reason : CancelPlans(r)
    BY <2>1, <2>2 DEF CancelPlans, CancelMotion, InputInv, ArrivalsWithinTick,
                      InputObeyed, InMotion
  <2>3. CASE UNCHANGED planVars /\ (live \/ (interruptible /\ present) => ~ motion_active)
    BY <2>1, <2>3 DEF planVars, motion_active, ActiveArms, InputInv,
                      ArrivalsWithinTick, InputObeyed, InMotion
  <2> QED
    BY <1>16, <2>2, <2>3 DEF InterruptMotion, Interrupted, Reason
<1>17. CASE Resolve
  <2>1. /\ pc = "resolve" /\ pc' = "gate"
        /\ UNCHANGED <<live, present, interruptible, driven>>
        /\ wps' = [a \in Arms |-> IF Retires(a) THEN Tail(wps[a]) ELSE wps[a]]
        /\ arriving' = [a \in Arms |-> IF Arrives(a) THEN Head(wps[a]) ELSE arriving[a]]
    BY <1>17, Zenon DEF Resolve, inputVars
  <2>2. ASSUME NEW a \in Arms, ~ InMotion(a)
        PROVE  ~ InMotion(a)'
    BY <2>1, <2>2 DEF InMotion, Arrives, Retires, Plans
  <2>3. ASSUME live \/ (interruptible /\ present)
        PROVE  \A a \in Arms : ~ InMotion(a)
    BY <2>1, <2>3, Zenon DEF InputInv, InputObeyed
  <2> QED
    BY <2>1, <2>2, <2>3 DEF InputInv, ArrivalsWithinTick, InputObeyed
<1>18. CASE ResolveStalled
  <2>1. /\ pc = "resolve" /\ pc' = "gate"
        /\ UNCHANGED <<live, present, interruptible, driven, wps, arriving>>
    BY <1>18, Zenon DEF ResolveStalled, inputVars
  <2> QED
    BY <2>1 DEF InputInv, ArrivalsWithinTick, InputObeyed, InMotion
<1>19. ASSUME NEW a \in Arms, ReplayStepFails(a)
      PROVE  InputInv'
  <2>1. /\ pc' = "gate" /\ driven' = {}
        /\ wps' = [b \in Arms |-> <<>>] /\ arriving' = [b \in Arms |-> None]
    BY <1>19, Zenon DEF ReplayStepFails, CancelMotion
  <2> QED
    BY <2>1 DEF InputInv, ArrivalsWithinTick, InputObeyed, InMotion
<1>20. CASE Gate
  <2>1. PICK out, kept \in [Arms -> Pos], blocked \in BOOLEAN, lapsed \in BOOLEAN,
             expired \in SUBSET {a \in Arms : planState[a] = "failed"} :
          GateAndDispatch(out, blocked, expired, lapsed)
    BY <1>20 DEF Gate
  <2>2. pc' = "ops" /\ arriving' = [b \in Arms |-> None]
    BY <2>1, Zenon DEF GateAndDispatch
  <2> QED
    BY <2>2 DEF InputInv, ArrivalsWithinTick, InputObeyed
<1>21. ASSUME NEW held \in BOOLEAN, KeysMsg(held)
      PROVE  InputInv'
  <2>1. pc = "ops" /\ pc' = "ops" /\ UNCHANGED arriving
    BY <1>21, Zenon DEF KeysMsg, Alone, planVars
  <2> QED
    BY <2>1 DEF InputInv, ArrivalsWithinTick, InputObeyed
<1>22. CASE BrowserDrops
  <2>1. pc \in {"ops", "events"} /\ UNCHANGED <<pc, arriving>>
    BY <1>22, Zenon DEF BrowserDrops, Alone, planVars
  <2> QED
    BY <2>1 DEF InputInv, ArrivalsWithinTick, InputObeyed
<1>23. ASSUME NEW a \in Arms, DriverFault(a)
      PROVE  InputInv'
  <2>1. pc = "ops" /\ pc' = "ops" /\ UNCHANGED arriving
    BY <1>23, Zenon DEF DriverFault, Alone, planVars
  <2> QED
    BY <2>1 DEF InputInv, ArrivalsWithinTick, InputObeyed
<1>24. ASSUME NEW a \in Arms, DriverRecovers(a)
      PROVE  InputInv'
  <2>1. pc = "ops" /\ pc' = "ops" /\ UNCHANGED arriving
    BY <1>24, Zenon DEF DriverRecovers, Alone, planVars
  <2> QED
    BY <2>1 DEF InputInv, ArrivalsWithinTick, InputObeyed
<1>25. CASE EpisodeEnds
  <2>1. pc = "ops" /\ pc' = "ops" /\ UNCHANGED arriving
    BY <1>25, Zenon DEF EpisodeEnds, Alone, planVars
  <2> QED
    BY <2>1 DEF InputInv, ArrivalsWithinTick, InputObeyed
<1> QED
  BY <1>1, <1>2, <1>3, <1>4, <1>5, <1>6, <1>7, <1>8, <1>9, <1>10, <1>11,
    <1>12, <1>13, <1>14, <1>15, <1>16, <1>17, <1>18, <1>19, <1>20, <1>21,
    <1>22, <1>23, <1>24, <1>25
  DEF Next, Ops, Tick, Events, Environment

(* On no tick does a motion take a step against a live key, nor an         *)
(* interruptible motion against any held movement code.                    *)
THEOREM OperatorWins == Spec => []InputWins
<1>1. Init => InputInv
  BY DEF Init, InputInv, ArrivalsWithinTick, InputObeyed, InMotion
<1>2. TypeOK /\ InputInv /\ [Next]_vars => InputInv'
  <2>1. TypeOK /\ InputInv /\ Next => InputInv'
    BY InputStep DEF TypeOK
  <2>2. InputInv /\ UNCHANGED vars => InputInv'
    BY DEF InputInv, ArrivalsWithinTick, InputObeyed, InMotion, vars, inputVars, planVars
  <2> QED
    BY <2>1, <2>2
<1>3. InputInv => InputWins
  BY DEF InputInv, InputObeyed, InputWins
<1> QED
  BY <1>1, <1>2, <1>3, TypeCorrect, PTL DEF Spec

-----------------------------------------------------------------------------
(* One arm per plan, with gotos, faults and replays together.              *)

(* A step that loads no arm keeps it: no arm enters the executor, and a    *)
(* recorded path is forgotten only when no arm is left on it.              *)
LoadsNothing ==
  /\ \A a \in Arms : InExecutor(a)' => InExecutor(a)
  /\ playback' = playback \/ \A a \in Arms : ~ InExecutor(a)'

LEMMA ExecutorShrinks ==
  ASSUME OneArmPerPlan, LoadsNothing
  PROVE  OneArmPerPlan'
<1> SUFFICES ASSUME NEW a \in Arms, NEW b \in Arms,
                    InExecutor(a)', InExecutor(b)', a # b
             PROVE  {a, b} \subseteq playback'
  BY Zenon DEF OneArmPerPlan
<1>1. InExecutor(a) /\ InExecutor(b) /\ playback' = playback
  BY Zenon DEF LoadsNothing
<1> QED
  BY <1>1, Zenon DEF OneArmPerPlan

(* A cancelled motion leaves the executor empty. *)
LEMMA CancelEmpties ==
  ASSUME NEW reason, NEW S, CancelMotion(reason, S)
  PROVE  LoadsNothing
BY DEF CancelMotion, LoadsNothing, InExecutor

(* So does a step that leaves the motion alone. *)
LEMMA AloneLoads ==
  ASSUME UNCHANGED <<wps, arriving, playback>>
  PROVE  LoadsNothing
BY DEF LoadsNothing, InExecutor

(* The end of a tick loads again only the arms whose goal was refused. *)
LEMMA GateLoads ==
  ASSUME NEW out, NEW blocked, NEW expired, NEW lapsed, MotionTypeOK,
         GateAndDispatch(out, blocked, expired, lapsed)
  PROVE  LoadsNothing
<1> DEFINE wps1 == [a \in Arms |-> IF Reloads(a, out, blocked) THEN <<arriving[a]>> ELSE wps[a]]
           motion == {a \in Arms : wps1[a] # <<>>} \cup driven
           since == IF LastArrival(out, blocked) THEN 0 ELSE hold
           held == GateHolds(motion, out, blocked)
           hold1 == IF motion = {} THEN since ELSE IF held THEN since + 1 ELSE 0
           abort == held /\ hold1 > HoldLimit
<1>1. /\ arriving' = [a \in Arms |-> None]
      /\ wps' = IF abort THEN [a \in Arms |-> <<>>] ELSE wps1
      /\ playback' = IF abort \/ motion = {} THEN {} ELSE playback
  BY Zenon DEF GateAndDispatch
<1> HIDE DEF abort
<1>2. \A a \in Arms : InExecutor(a)' => wps1[a] # <<>> /\ ~ abort
  BY <1>1 DEF InExecutor
<1>3. \A a \in Arms : wps1[a] # <<>> => InExecutor(a)
  BY DEF Reloads, InExecutor
<1> QED
  BY <1>1, <1>2, <1>3 DEF LoadsNothing

(* Only three steps load an arm, each when the executor is empty: one arm, *)
(* or the arms of a recorded path.                                         *)
LEMMA LoadedAlone ==
  ASSUME NEW a \in Arms, NEW path, MotionTypeOK, ActiveArms = {}, UNCHANGED arriving,
         \A b \in Arms : arriving[b] = None, wps' = [wps EXCEPT ![a] = path]
  PROVE  OneArmPerPlan'
<1>1. \A b \in Arms : b # a => wps'[b] = <<>>
  BY DEF ActiveArms, MotionTypeOK
<1>2. \A b \in Arms : b # a => ~ InExecutor(b)'
  BY <1>1 DEF InExecutor
<1> QED
  BY <1>2 DEF OneArmPerPlan

LEMMA ExecutorStep ==
  ASSUME MotionTypeOK, ArrivalsWithinTick, OneArmPerPlan, Next
  PROVE  OneArmPerPlan'
<1>0. pc = "ops" => \A a \in Arms : arriving[a] = None
  BY DEF ArrivalsWithinTick
<1>1. ASSUME NEW a \in Arms, NEW path \in Paths, NEW inter \in BOOLEAN,
             NEW grips \in SUBSET Grippers, ExecutePlan(a, path, inter, grips)
      PROVE  OneArmPerPlan'
  <2>1. /\ pc = "ops" /\ ActiveArms = {} /\ UNCHANGED arriving
        /\ wps' = [wps EXCEPT ![a] = path]
    BY <1>1, Zenon DEF ExecutePlan, Submit, busy, motion_active
  <2> QED
    BY <1>0, <2>1, LoadedAlone
<1>2. ASSUME NEW S \in Recorded, NEW paths \in [S -> Paths], PlaybackPath(paths)
      PROVE  OneArmPerPlan'
  <2>1. /\ pc = "ops" /\ ActiveArms = {} /\ UNCHANGED arriving
        /\ wps' = [b \in Arms |-> IF b \in DOMAIN paths THEN paths[b] ELSE wps[b]]
        /\ playback' = DOMAIN paths
    BY <1>2, Zenon DEF PlaybackPath, Submit, busy, motion_active
  <2>2. \A b \in Arms : InExecutor(b)' => b \in playback'
    BY <1>0, <2>1 DEF InExecutor, ActiveArms
  <2> QED
    BY <2>2 DEF OneArmPerPlan
<1>3. ASSUME NEW a \in Arms, NEW path \in Paths, PlanReady(a, path)
      PROVE  OneArmPerPlan'
  <2>1. CASE ActiveArms = {}
    <3>1. pc = "ops" /\ UNCHANGED arriving /\ wps' = [wps EXCEPT ![a] = path]
      BY <1>3, <2>1, Zenon DEF PlanReady
    <3> QED
      BY <1>0, <2>1, <3>1, LoadedAlone
  <2>2. CASE ActiveArms # {}
    <3>1. UNCHANGED <<wps, arriving, playback>>
      BY <1>3, <2>2, Zenon DEF PlanReady
    <3> QED
      BY <3>1, AloneLoads, ExecutorShrinks
  <2> QED
    BY <2>1, <2>2
<1>4. ASSUME NEW S \in Recorded, ReplayActions(S)
      PROVE  OneArmPerPlan'
  <2>1. pc = "ops" /\ ActiveArms = {} /\ UNCHANGED <<wps, arriving>>
    BY <1>4, Zenon DEF ReplayActions, Submit, busy, motion_active
  <2>2. \A b \in Arms : ~ InExecutor(b)'
    BY <1>0, <2>1 DEF InExecutor, ActiveArms
  <2> QED
    BY <2>2 DEF OneArmPerPlan
<1>5. CASE \E reason \in Reason : CancelPlans(reason)
  BY <1>5, CancelEmpties, ExecutorShrinks DEF CancelPlans
<1>6. CASE UNCHANGED <<wps, arriving, playback>>
  BY <1>6, AloneLoads, ExecutorShrinks
<1>7. ASSUME NEW a \in Arms, JointGoto(a)
      PROVE  OneArmPerPlan'
  <2>1. CASE interruptible /\ motion_active
    <3>1. wps' = [b \in Arms |-> <<>>] /\ arriving' = [b \in Arms |-> None]
      BY <1>7, <2>1 DEF JointGoto
    <3> QED
      BY <3>1 DEF OneArmPerPlan, InExecutor
  <2>2. CASE ~ (interruptible /\ motion_active)
    <3>1. UNCHANGED <<wps, arriving, playback>>
      BY <1>7, <2>2 DEF JointGoto, MotionTypeOK
    <3> QED
      BY <3>1, <1>6
  <2> QED
    BY <2>1, <2>2
<1>8. ASSUME NEW a \in Arms, OnFaultEvent(a)
      PROVE  OneArmPerPlan'
  <2>1. CASE CancelPlans("driver fault")
    BY <2>1, <1>5 DEF Reason
  <2>2. CASE wps' = [wps EXCEPT ![a] = <<>>] /\ UNCHANGED <<arriving, playback>>
    <3>1. LoadsNothing
      BY <2>2 DEF LoadsNothing, InExecutor, MotionTypeOK
    <3> QED
      BY <3>1, ExecutorShrinks
  <2>3. CASE UNCHANGED planVars
    BY <2>3, <1>6 DEF planVars
  <2> QED
    BY <1>8, <2>1, <2>2, <2>3, Zenon DEF OnFaultEvent
<1>9. CASE Resolve
  <2>1. /\ wps' = [a \in Arms |-> IF Retires(a) THEN Tail(wps[a]) ELSE wps[a]]
        /\ arriving' = [a \in Arms |-> IF Arrives(a) THEN Head(wps[a]) ELSE arriving[a]]
        /\ playback' = playback
    BY <1>9, Zenon DEF Resolve
  <2>2. \A a \in Arms : Retires(a) \/ Arrives(a) => wps[a] # <<>>
    BY DEF Retires, Arrives, Plans
  <2>3. LoadsNothing
    BY <2>1, <2>2 DEF LoadsNothing, InExecutor
  <2> QED
    BY <2>3, ExecutorShrinks
<1>10. ASSUME NEW a \in Arms, ReplayStepFails(a)
       PROVE  OneArmPerPlan'
  <2>1. \E S : CancelMotion("replay step failed", S)
    BY <1>10, Zenon DEF ReplayStepFails
  <2> QED
    BY <2>1, CancelEmpties, ExecutorShrinks
<1>11. CASE Gate
  <2>1. \E out, blocked, expired, lapsed : GateAndDispatch(out, blocked, expired, lapsed)
    BY <1>11, Zenon DEF Gate
  <2> QED
    BY <2>1, GateLoads, ExecutorShrinks
<1>12. CASE CancelPlan \/ Takeover \/ \E a \in Arms : SwitchArm(a)
  BY <1>12, <1>5, <1>6, Zenon DEF CancelPlan, Takeover, SwitchArm, planVars, Reason
<1>13. CASE (\E a \in Arms, p \in Pos : JointJog(a, p)) \/ InterruptMotion
  BY <1>13, <1>5, <1>6, Zenon DEF JointJog, InterruptMotion, planVars, Reason
<1>14. ASSUME NEW grips \in SUBSET Grippers, ExecuteGripperOnly(grips)
       PROVE  OneArmPerPlan'
  BY <1>14, <1>6, Zenon DEF ExecuteGripperOnly
<1>15. ASSUME NEW a \in Arms, PlanFailed(a)
       PROVE  OneArmPerPlan'
  BY <1>15, <1>6, Zenon DEF PlanFailed
<1>16. CASE EpisodeNew \/ ReadInputs \/ \E a \in Arms : OnRecoveredEvent(a)
  BY <1>16, <1>6, Zenon DEF EpisodeNew, ReadInputs, OnRecoveredEvent, planVars
<1>17. CASE ResolveStalled
  BY <1>17, <1>6, Zenon DEF ResolveStalled
<1>18. CASE Environment
  BY <1>18, <1>6, Zenon DEF Environment, KeysMsg, BrowserDrops, DriverFault, DriverRecovers,
     EpisodeEnds, Alone, planVars
<1> QED
  BY <1>1, <1>2, <1>3, <1>4, <1>7, <1>8, <1>9, <1>10, <1>11, <1>12, <1>13, <1>14, <1>15,
     <1>16, <1>17, <1>18
  DEF Next, Ops, Tick, Events

(* The executor holds two arms only along a path recorded for both, also   *)
(* when the result of a goto comes late: for every set of arms, paths and  *)
(* recordings, and with gotos, faults and replays in any order.            *)
THEOREM MotionAlone == Spec => []OneArmPerPlan
<1>1. Init => InputInv /\ OneArmPerPlan
  BY DEF Init, InputInv, ArrivalsWithinTick, InputObeyed, InMotion, OneArmPerPlan, InExecutor
<1>2. TypeOK /\ InputInv /\ OneArmPerPlan /\ [Next]_vars => (InputInv /\ OneArmPerPlan)'
  <2>1. TypeOK /\ InputInv /\ OneArmPerPlan /\ Next => (InputInv /\ OneArmPerPlan)'
    BY InputStep, ExecutorStep DEF TypeOK, InputInv
  <2>2. InputInv /\ OneArmPerPlan /\ UNCHANGED vars => (InputInv /\ OneArmPerPlan)'
    BY DEF InputInv, ArrivalsWithinTick, InputObeyed, InMotion, OneArmPerPlan, InExecutor,
           vars, inputVars, planVars
  <2> QED
    BY <2>1, <2>2
<1> QED
  BY <1>1, <1>2, TypeCorrect, PTL DEF Spec

-----------------------------------------------------------------------------
(* The motion is reported as it is.  A driver fault clears the planning of *)
(* a goto and leaves its worker behind, which breaks this: so for a loop   *)
(* that is asked for no goto, or whose driver does not fault.              *)
Sheltered == MaxGotos = 0 \/ MaxFaults = 0

(* Without faults there is no event, waiting or drained, and no stopped arm. *)
FaultFree == MaxFaults = 0 => events = <<>> /\ batch = <<>> /\ faulted = {}

(* A worker belongs to the one goto that is being planned, and while that  *)
(* is planned nothing moves.                                               *)
Planned ==
  /\ \A a \in Arms : workers[a] # 0 => planState[a] = "planning"
  /\ \A a \in Arms : planState[a] = "planning" =>
       workers[a] = 1 /\ \A b \in Arms : ~ InMotion(b)
  /\ \A a, b \in Arms : planState[a] = "planning" /\ planState[b] = "planning" => a = b
  /\ MaxGotos = 0 => \A a \in Arms : workers[a] = 0 /\ planState[a] # "planning"

(* An arm whose goal is being confirmed has left the executor, and no      *)
(* replay runs beside it; a replay runs alone and yields to the operator.  *)
OneKind ==
  /\ \A a \in Arms : arriving[a] # None => wps[a] = <<>> /\ driven = {}
  /\ driven # {} => interruptible /\ \A a \in Arms : wps[a] = <<>>

(* The inductive invariant. *)
MotionInv ==
  /\ FaultFree /\ Planned /\ ArrivalsWithinTick /\ OneKind
  /\ ExecutorMatchesState

(* A list with one element left has an empty tail. *)
LEMMA LastOne ==
  ASSUME NEW S, NEW s \in Seq(S), s # <<>>
  PROVE  Tail(s) = <<>> <=> Len(s) = 1
<1>1. Len(s) > 0 /\ Len(Tail(s)) = Len(s) - 1 /\ Tail(s) \in Seq(S)
  OBVIOUS
<1>2. Tail(s) = <<>> <=> Len(Tail(s)) = 0
  BY <1>1, EmptySeq, Zenon
<1> QED
  BY <1>1, <1>2

(* Outside the gate, a step that touches no motion keeps the invariant. *)
LEMMA MotionSame ==
  ASSUME MotionInv, pc # "gate", UNCHANGED <<wps, arriving, planState, interruptible, driven,
       playback, workers>>, FaultFree'
  PROVE  MotionInv'
BY DEF MotionInv, Planned, ArrivalsWithinTick, OneKind, ExecutorMatchesState, InMotion

(* Nothing faults without faults. *)
LEMMA FaultFreeStep ==
  ASSUME RestTypeOK, FaultFree, Next
  PROVE  FaultFree'
<1> SUFFICES ASSUME MaxFaults = 0
             PROVE  events' = <<>> /\ batch' = <<>> /\ faulted' = {}
  BY Zenon DEF FaultFree
<1>1. events = <<>> /\ batch = <<>> /\ faulted = {}
  BY DEF FaultFree
<1>2. CASE Ops
  <2>1. UNCHANGED faultVars
    BY <1>2, Zenon DEF Ops, ExecutePlan, ExecuteGripperOnly, PlaybackPath, ReplayActions,
      CancelPlan, Takeover, SwitchArm, JointJog, JointGoto, PlanFailed, PlanReady, EpisodeNew,
      LeaveAlone
  <2> QED
    BY <1>1, <2>1, Zenon DEF faultVars
<1>3. CASE Tick
  <2>1. ~ Events
    BY <1>1, Zenon DEF Events, OnFaultEvent, OnRecoveredEvent
  <2>2. (UNCHANGED <<events, faulted>> /\ batch' \in {batch, events}) \/ ReadInputs
    <3>1. CASE InterruptMotion
      BY <3>1, Zenon DEF InterruptMotion
    <3>2. ASSUME NEW a \in Arms, Resolve \/ ResolveStalled \/ ReplayStepFails(a) \/ Gate
          PROVE  UNCHANGED faultVars
      <4>1. CASE Resolve
        BY <4>1, Zenon DEF Resolve
      <4>2. CASE ResolveStalled
        BY <4>2, Zenon DEF ResolveStalled
      <4>3. CASE ReplayStepFails(a)
        BY <4>3, Zenon DEF ReplayStepFails
      <4>4. CASE Gate
        <5>1. PICK out, blocked, lapsed, expired : GateAndDispatch(out, blocked, expired, lapsed)
          BY <4>4 DEF Gate
        <5> QED
          BY <5>1, Zenon DEF GateAndDispatch
      <4> QED
        BY <3>2, <4>1, <4>2, <4>3, <4>4
    <3>3. CASE Resolve \/ ResolveStalled \/ (\E a \in Arms : ReplayStepFails(a)) \/ Gate
      <4>1. UNCHANGED faultVars
        BY <3>2, <3>3 DEF LoopAssumption
      <4> QED
        BY <4>1, Zenon DEF faultVars
    <3> QED
      BY <1>3, <2>1, <3>1, <3>3, Zenon DEF Tick
  <2> QED
    BY <1>1, <2>2, Zenon DEF ReadInputs
<1>4. CASE Environment
  <2>1. ASSUME NEW a \in Arms, DriverFault(a)
        PROVE  FALSE
    BY <2>1 DEF DriverFault, RestTypeOK
  <2>2. ASSUME NEW a \in Arms, DriverRecovers(a)
        PROVE  FALSE
    <3>1. Len(events) = 0
      BY <1>1
    <3>2. a \in faulted \/ \E i \in 1..Len(events) : TRUE
      BY <2>2, Zenon DEF DriverRecovers
    <3> QED
      BY <1>1, <3>1, <3>2
  <2>3. UNCHANGED faultVars
    BY <1>4, <2>1, <2>2, Zenon DEF Environment, KeysMsg, BrowserDrops, EpisodeEnds
  <2> QED
    BY <1>1, <2>3, Zenon DEF faultVars
<1> QED
  BY <1>2, <1>3, <1>4 DEF Next

(* A cancel finds every executing arm in motion, and clears it. *)
LEMMA MotionCancelled ==
  ASSUME MotionInv, pc # "gate", NEW reason, CancelMotion(reason, MotionArms),
         UNCHANGED workers, FaultFree'
  PROVE  MotionInv'
<1>1. /\ wps' = [a \in Arms |-> <<>>] /\ arriving' = [a \in Arms |-> None]
      /\ driven' = {}
  BY Zenon DEF CancelMotion
<1>2. planState' = [a \in Arms |-> IF a \in MotionArms THEN None ELSE planState[a]]
  BY Zenon DEF CancelMotion, Cleared
<1>3. \A a \in Arms : planState'[a] # "executing" /\ ~ InMotion(a)'
  <2>1. \A a \in Arms : a \notin MotionArms => planState[a] # "executing"
    BY DEF MotionInv, ArrivalsWithinTick, ExecutorMatchesState, InMotion,
           MotionArms, ActiveArms
  <2> QED
    BY <1>1, <1>2, <2>1 DEF LoopAssumption, Status, InMotion
<1>4. \A a \in Arms : planState'[a] = "planning" <=> planState[a] = "planning"
  <2>1. \A a \in Arms : a \in MotionArms => planState[a] = "executing"
    BY DEF MotionInv, ExecutorMatchesState, InMotion, MotionArms, ActiveArms
  <2> QED
    BY <1>2, <2>1 DEF LoopAssumption, Status
<1>5. Planned'
  BY <1>3, <1>4 DEF MotionInv, Planned
<1> QED
  BY <1>1, <1>3, <1>5 DEF MotionInv, ArrivalsWithinTick, OneKind,
     ExecutorMatchesState

(* The end of a tick keeps the invariant: an arm confirmed is done, an arm *)
(* refused is loaded again, an abort or a spent recording ends the rest.   *)
LEMMA MotionGate ==
  ASSUME MotionTypeOK, MotionInv, NEW out \in [Arms -> Pos],
         NEW blocked \in BOOLEAN, NEW lapsed \in BOOLEAN,
         NEW expired \in SUBSET {a \in Arms : planState[a] = "failed"},
         GateAndDispatch(out, blocked, expired, lapsed), FaultFree'
  PROVE  MotionInv'
<1> DEFINE done   == {a \in Arms : Confirms(a, out, blocked)}
           over   == LastArrival(out, blocked)
           wps1   == [a \in Arms |-> IF Reloads(a, out, blocked) THEN <<arriving[a]>>
                                    ELSE wps[a]]
           motion == {a \in Arms : wps1[a] # <<>>} \cup driven
<1>1. PICK abort \in BOOLEAN, spent \in BOOLEAN :
        /\ spent => ~ abort
        /\ wps' = IF abort THEN [a \in Arms |-> <<>>] ELSE wps1
        /\ planState' = Cleared(done \cup expired \cup (IF abort THEN motion ELSE {})
                                 \cup (IF spent THEN driven ELSE {}), planState)
        /\ interruptible' = (interruptible /\ ~ over /\ ~ abort /\ ~ spent)
        /\ driven' = IF abort \/ spent THEN {} ELSE driven
        /\ playback' = IF abort \/ motion = {} THEN {} ELSE playback
  BY Zenon DEF GateAndDispatch
<1>2. pc' = "ops" /\ arriving' = [a \in Arms |-> None] /\ UNCHANGED workers
  BY Zenon DEF GateAndDispatch
<1>3. \A a \in Arms : arriving[a] # None => planState[a] = "executing"
  BY DEF MotionInv, ExecutorMatchesState, InMotion
<1>4. \A a \in Arms : a \in motion <=> InMotion(a) /\ a \notin done
  BY <1>3 DEF InMotion, Reloads, Confirms, MotionInv, OneKind
<1>5. \A a \in Arms : InMotion(a)' <=> ~ abort /\ a \in motion /\ ~ (spent /\ a \in driven)
  BY <1>1, <1>2, <1>3 DEF InMotion, MotionInv, OneKind, Reloads
<1>6. ExecutorMatchesState'
  <2> SUFFICES ASSUME NEW a \in Arms
               PROVE  planState'[a] = "executing" <=> InMotion(a)'
    BY Zenon DEF ExecutorMatchesState
  <2>1. planState'[a] = IF \/ a \in done \/ a \in expired
                           \/ (abort /\ a \in motion) \/ (spent /\ a \in driven)
                        THEN None ELSE planState[a]
    BY <1>1 DEF Cleared
  <2>4. a \in expired => planState[a] # "executing"
    OBVIOUS
  <2>2. planState[a] = "executing" <=> InMotion(a)
    BY DEF MotionInv, ExecutorMatchesState
  <2>3. None # "executing"
    BY DEF LoopAssumption, Status
  <2> QED
    BY <1>4, <1>5, <2>1, <2>2, <2>3, <2>4
<1>7. Planned'
  <2>1. ASSUME NEW a \in Arms
        PROVE  planState'[a] = "planning" <=> planState[a] = "planning"
    <3>1. planState'[a] = IF \/ a \in done \/ a \in expired
                             \/ (abort /\ a \in motion) \/ (spent /\ a \in driven)
                          THEN None ELSE planState[a]
      BY <1>1 DEF Cleared
    <3>2. a \in done \/ a \in expired \/ a \in motion \/ a \in driven
            => planState[a] \in {"executing", "failed"}
      BY <1>4 DEF Confirms, InMotion, MotionInv, ExecutorMatchesState
    <3> QED
      BY <3>1, <3>2 DEF LoopAssumption, Status
  <2>2. \A a \in Arms : InMotion(a)' => InMotion(a)
    BY <1>4, <1>5
  <2> QED
    BY <1>2, <2>1, <2>2 DEF MotionInv, Planned
<1>8. OneKind'
  <2>1. driven # {} => ~ over /\ wps1 = [a \in Arms |-> <<>>]
    BY DEF LastArrival, Confirms, Reloads, MotionInv, OneKind, MotionTypeOK
  <2>2. \A a \in Arms : arriving'[a] = None
    BY <1>2
  <2>3. driven' # {} => interruptible' /\ \A a \in Arms : wps'[a] = <<>>
    <3>1. CASE driven' = {}
      BY <3>1
    <3>2. CASE driven' # {}
      <4>1. driven # {} /\ ~ abort /\ ~ spent
        BY <1>1, <3>2
      <4>2. interruptible /\ \A a \in Arms : wps[a] = <<>>
        BY <4>1 DEF MotionInv, OneKind
      <4> QED
        BY <1>1, <2>1, <4>1, <4>2
    <3> QED
      BY <3>1, <3>2
  <2> QED
    BY <2>2, <2>3 DEF OneKind
<1> QED
  BY <1>2, <1>6, <1>7, <1>8 DEF MotionInv, ArrivalsWithinTick

(* Every step keeps it. *)
LEMMA MotionInvStep ==
  ASSUME Sheltered, MotionTypeOK, RestTypeOK, MotionInv, Next
  PROVE  MotionInv'
<1>0. FaultFree'
  BY FaultFreeStep DEF MotionInv
<1>1. ASSUME NEW a \in Arms, NEW path \in Paths, NEW inter \in BOOLEAN,
             NEW grips \in SUBSET Grippers, ExecutePlan(a, path, inter, grips)
      PROVE  MotionInv'
  <2>1. /\ driven = {}
        /\ \A b \in Arms : wps[b] = <<>> /\ arriving[b] = None /\ planState[b] # "planning"
    BY <1>1 DEF ExecutePlan, busy, motion_active, ActiveArms, Submit, MotionInv, ArrivalsWithinTick,
               RestTypeOK, MotionTypeOK
  <2>2. /\ pc' = "ops"
        /\ wps' = [wps EXCEPT ![a] = path]
        /\ planState' = [planState EXCEPT ![a] = "executing"]
        /\ UNCHANGED <<arriving, driven, workers>>
    BY <1>1, Zenon DEF ExecutePlan, Submit, LeaveAlone, otherVars
  <2>3. path # <<>>
    BY DEF LoopAssumption
  <2> QED
    BY <1>0, <2>1, <2>2, <2>3 DEF MotionTypeOK, MotionInv, Planned, ArrivalsWithinTick, OneKind,
     ExecutorMatchesState, InMotion
<1>2. ASSUME NEW grips \in SUBSET Grippers, ExecuteGripperOnly(grips)
      PROVE  MotionInv'
  <2>1. /\ driven = {}
        /\ \A b \in Arms : wps[b] = <<>> /\ arriving[b] = None /\ planState[b] # "planning"
    BY <1>2 DEF ExecuteGripperOnly, busy, motion_active, ActiveArms, Submit, MotionInv,
         ArrivalsWithinTick,
               RestTypeOK, MotionTypeOK
  <2>2. /\ pc' = "ops"
        /\ UNCHANGED <<wps, arriving, planState, driven, playback, workers>>
    BY <1>2, Zenon DEF ExecuteGripperOnly, Submit, LeaveAlone, otherVars
  <2> QED
    BY <1>0, <2>1, <2>2 DEF MotionInv, Planned, ArrivalsWithinTick, OneKind,
     ExecutorMatchesState, InMotion
<1>3. ASSUME NEW S \in Recorded, NEW paths \in [S -> Paths], PlaybackPath(paths)
      PROVE  MotionInv'
  <2>1. /\ driven = {}
        /\ \A b \in Arms : wps[b] = <<>> /\ arriving[b] = None /\ planState[b] # "planning"
    BY <1>3 DEF PlaybackPath, busy, motion_active, ActiveArms, Submit, MotionInv,
         ArrivalsWithinTick,
               RestTypeOK, MotionTypeOK
  <2>2. /\ pc' = "ops"
        /\ wps' = [b \in Arms |-> IF b \in DOMAIN paths THEN paths[b] ELSE wps[b]]
        /\ planState' = [b \in Arms |-> IF b \in DOMAIN paths THEN "executing"
                                        ELSE planState[b]]
        /\ playback' = DOMAIN paths
        /\ UNCHANGED <<arriving, driven, workers>>
    BY <1>3, Zenon DEF PlaybackPath, Submit, LeaveAlone, otherVars
  <2>3. \A b \in DOMAIN paths : paths[b] # <<>>
    BY DEF LoopAssumption
  <2> QED
    <3>1. \A b \in Arms : InMotion(b)' <=> b \in DOMAIN paths
      BY <2>1, <2>2, <2>3 DEF InMotion
    <3>2. \A b \in Arms : planState[b] # "executing" /\ workers[b] = 0
      BY <2>1 DEF MotionInv, Planned, ExecutorMatchesState, InMotion
    <3>3. Planned' /\ ExecutorMatchesState'
      BY <2>1, <2>2, <3>1, <3>2 DEF Planned, ExecutorMatchesState
    <3>4. ArrivalsWithinTick' /\ OneKind'
      BY <2>1, <2>2, <3>1 DEF ArrivalsWithinTick, OneKind
    <3> QED
      BY <1>0, <3>3, <3>4 DEF MotionInv
<1>4. ASSUME NEW S \in Recorded, ReplayActions(S)
      PROVE  MotionInv'
  <2>1. /\ driven = {}
        /\ \A b \in Arms : wps[b] = <<>> /\ arriving[b] = None /\ planState[b] # "planning"
    BY <1>4 DEF ReplayActions, busy, motion_active, ActiveArms, Submit, MotionInv,
         ArrivalsWithinTick,
               RestTypeOK, MotionTypeOK
  <2>2. /\ pc' = "ops" /\ driven' = S /\ interruptible' = TRUE
        /\ UNCHANGED <<wps, arriving, workers>>
    BY <1>4, Zenon DEF ReplayActions, Submit, StartMotion, LeaveAlone, otherVars
  <2>3. planState' = [b \in Arms |-> IF b \in S THEN "executing" ELSE planState[b]]
    BY <1>4, Zenon DEF ReplayActions
  <2> QED
    BY <1>0, <2>1, <2>2, <2>3 DEF MotionInv, Planned, ArrivalsWithinTick, OneKind,
     ExecutorMatchesState, InMotion
<1>5. CASE CancelPlan
  <2>1. pc = "ops" /\ CancelPlans("manager") /\ UNCHANGED workers
    BY <1>5, Zenon DEF CancelPlan, Request, otherVars
  <2> QED
    BY <1>0, <2>1, MotionCancelled DEF CancelPlans
<1>6. CASE Takeover
  <2>1. pc = "ops" /\ CancelPlans("takeover") /\ UNCHANGED workers
    BY <1>6, Zenon DEF Takeover, Request, otherVars
  <2> QED
    BY <1>0, <2>1, MotionCancelled DEF CancelPlans
<1>7. ASSUME NEW a \in Arms, SwitchArm(a)
      PROVE  MotionInv'
  <2>1. pc = "ops" /\ UNCHANGED workers
    BY <1>7, Zenon DEF SwitchArm, Request, otherVars
  <2>2. CASE CancelPlans("arm switch")
    BY <1>0, <2>1, <2>2, MotionCancelled DEF CancelPlans
  <2>3. CASE UNCHANGED planVars
    BY <1>0, <2>1, <2>3, MotionSame DEF planVars
  <2> QED
    BY <1>7, <2>2, <2>3, Zenon DEF SwitchArm, Request
<1>8. ASSUME NEW a \in Arms, NEW p \in Pos, JointJog(a, p)
      PROVE  MotionInv'
  <2>1. pc = "ops" /\ UNCHANGED workers
    BY <1>8, Zenon DEF JointJog, Request, otherVars
  <2>2. CASE CancelPlans("jog")
    BY <1>0, <2>1, <2>2, MotionCancelled DEF CancelPlans
  <2>3. CASE UNCHANGED planVars
    BY <1>0, <2>1, <2>3, MotionSame DEF planVars
  <2> QED
    BY <1>8, <2>2, <2>3, Zenon DEF JointJog, Request
<1>9. ASSUME NEW a \in Arms, JointGoto(a)
      PROVE  MotionInv'
  <2> DEFINE cut == interruptible /\ motion_active
             active == IF cut THEN {} ELSE ActiveArms
             state == IF cut THEN Cleared(MotionArms, planState) ELSE planState
             free == ~ AnyPlanInFlight(active, state)
  <2>1. /\ pc = "ops" /\ pc' = "ops" /\ (cut \/ free)
        /\ wps' = [b \in Arms |-> IF cut THEN <<>> ELSE wps[b]]
        /\ planState' = IF free THEN [state EXCEPT ![a] = "planning"] ELSE state
        /\ arriving' = [b \in Arms |-> IF cut THEN None ELSE arriving[b]]
        /\ driven' = IF cut THEN {} ELSE driven
        /\ workers' = IF free THEN [workers EXCEPT ![a] = @ + 1] ELSE workers
    BY <1>9, Zenon DEF JointGoto, Request
  <2>2. MaxGotos # 0
    BY <1>9 DEF JointGoto, RestTypeOK
  <2>3. \A b \in Arms : state[b] # "executing" /\ ~ InMotion(b)'
    <3>1. CASE cut
      <4>0. \A b \in Arms : arriving[b] = None
        <5>1. pc # "gate"
          BY <1>9, Zenon DEF JointGoto, Request
        <5> QED
          BY <5>1 DEF MotionInv, ArrivalsWithinTick
      <4>1. \A b \in Arms : b \notin MotionArms => planState[b] # "executing"
        BY <4>0 DEF MotionInv, ArrivalsWithinTick, ExecutorMatchesState, InMotion,
           MotionArms, ActiveArms
      <4>2. \A b \in Arms : state[b] = IF b \in MotionArms THEN None ELSE planState[b]
        BY <3>1 DEF Cleared
      <4> QED
        BY <2>1, <3>1, <4>1, <4>2 DEF InMotion, LoopAssumption, Status
    <3>2. CASE ~ cut
      <4>1. \A b \in Arms : planState[b] # "executing"
        BY <2>1, <3>2 DEF AnyPlanInFlight
      <4>2. wps' = [b \in Arms |-> wps[b]] /\ arriving' = [b \in Arms |-> arriving[b]]
            /\ driven' = driven
        BY <2>1, <3>2
      <4> QED
        BY <3>2, <4>1, <4>2 DEF MotionInv, ExecutorMatchesState, InMotion
    <3> QED
      BY <3>1, <3>2
  <2>4. \A b \in Arms : state[b] # "planning" /\ workers[b] = 0
    <3>1. CASE cut
      <4>1. \E b \in Arms : InMotion(b)
        BY <3>1 DEF motion_active, ActiveArms, InMotion, MotionTypeOK
      <4>2. \A b \in Arms : planState[b] # "planning"
        BY <4>1 DEF MotionInv, Planned
      <4>3. \A b \in Arms : state[b] \in {None, planState[b]}
        BY <3>1 DEF Cleared
      <4> QED
        BY <4>2, <4>3 DEF MotionInv, Planned, LoopAssumption, Status
    <3>2. CASE ~ cut
      <4>1. \A b \in Arms : planState[b] # "planning"
        BY <2>1, <3>2 DEF AnyPlanInFlight
      <4> QED
        BY <3>2, <4>1 DEF MotionInv, Planned
    <3> QED
      BY <3>1, <3>2
  <2>5. DOMAIN state = Arms /\ DOMAIN workers = Arms
    BY DEF MotionTypeOK, RestTypeOK, Cleared
  <2>6. \A b \in Arms : /\ planState'[b] = IF free /\ b = a THEN "planning" ELSE state[b]
                        /\ workers'[b] = IF free /\ b = a THEN 1 ELSE 0
    BY <2>1, <2>4, <2>5
  <2>7. Planned'
    BY <2>2, <2>3, <2>4, <2>6 DEF Planned
  <2>8. ExecutorMatchesState'
    BY <2>3, <2>6 DEF ExecutorMatchesState
  <2>9. ArrivalsWithinTick' /\ OneKind'
    <3>1. driven' \subseteq Arms
      BY <2>1 DEF MotionTypeOK
    <3>2. driven' = {} /\ \A b \in Arms : arriving'[b] = None
      BY <2>3, <3>1 DEF InMotion
    <3> QED
      BY <3>2 DEF ArrivalsWithinTick, OneKind
  <2> QED
    BY <1>0, <2>7, <2>8, <2>9 DEF MotionInv
<1>10. ASSUME NEW a \in Arms, PlanFailed(a)
      PROVE  MotionInv'
  <2>1. /\ pc = "ops" /\ pc' = "ops" /\ workers[a] > 0
        /\ workers' = [workers EXCEPT ![a] = @ - 1]
        /\ planState' = [planState EXCEPT ![a] = "failed"]
        /\ UNCHANGED <<wps, arriving, interruptible, driven, playback>>
    BY <1>10, Zenon DEF PlanFailed, LeaveAlone
  <2>2. /\ \A b \in Arms : planState[b] = "planning" <=> b = a
        /\ \A b \in Arms : ~ InMotion(b) /\ workers[b] = IF b = a THEN 1 ELSE 0
    BY <2>1 DEF MotionInv, Planned, RestTypeOK
  <2>3. \A b \in Arms : /\ planState'[b] = IF b = a THEN "failed" ELSE planState[b]
                        /\ workers'[b] = 0
    BY <2>1, <2>2 DEF MotionTypeOK, RestTypeOK
  <2>4. \A b \in Arms : ~ InMotion(b)' /\ planState'[b] # "executing"
    <3>1. \A b \in Arms : InMotion(b)' <=> InMotion(b)
      BY <2>1, Zenon DEF InMotion
    <3>2. \A b \in Arms : planState[b] # "executing"
      BY <2>2, Zenon DEF MotionInv, ExecutorMatchesState
    <3> QED
      BY <2>2, <2>3, <3>1, <3>2
  <2> QED
    BY <1>0, <2>1, <2>2, <2>3, <2>4 DEF MotionInv, Planned, ArrivalsWithinTick, OneKind,
       ExecutorMatchesState
<1>11. ASSUME NEW a \in Arms, NEW path \in Paths, PlanReady(a, path)
      PROVE  MotionInv'
  <2>1. /\ pc = "ops" /\ pc' = "ops" /\ workers[a] > 0
        /\ workers' = [workers EXCEPT ![a] = @ - 1]
        /\ UNCHANGED <<arriving, interruptible, driven>>
    BY <1>11, Zenon DEF PlanReady, LeaveAlone
  <2>2. /\ \A b \in Arms : planState[b] = "planning" <=> b = a
        /\ \A b \in Arms : ~ InMotion(b) /\ workers[b] = IF b = a THEN 1 ELSE 0
    BY <2>1 DEF MotionInv, Planned, RestTypeOK
  <2>3. ActiveArms = {}
    BY <2>2 DEF InMotion, ActiveArms
  <2>4. /\ wps' = [wps EXCEPT ![a] = path]
        /\ planState' = [planState EXCEPT ![a] = "executing"]
    BY <1>11, <2>3, Zenon DEF PlanReady
  <2>5. path # <<>> /\ driven = {}
    BY <2>2 DEF LoopAssumption, InMotion, MotionTypeOK
  <2>6. \A b \in Arms : /\ planState'[b] = IF b = a THEN "executing" ELSE planState[b]
                        /\ workers'[b] = 0
                        /\ InMotion(b)' <=> b = a
    BY <2>1, <2>2, <2>4, <2>5 DEF MotionTypeOK, RestTypeOK, InMotion
  <2>7. \A b \in Arms : planState[b] # "executing"
    BY <2>2 DEF MotionInv, ExecutorMatchesState
  <2>8. Planned' /\ ExecutorMatchesState'
    BY <2>2, <2>6, <2>7 DEF MotionInv, Planned, ExecutorMatchesState
  <2>9. ArrivalsWithinTick' /\ OneKind'
    BY <2>1, <2>5 DEF MotionInv, ArrivalsWithinTick, OneKind
  <2> QED
    BY <1>0, <2>8, <2>9 DEF MotionInv
<1>12. CASE EpisodeNew
  <2>1. /\ pc = "ops"
        /\ UNCHANGED <<wps, arriving, planState, interruptible, driven, playback, workers>>
    BY <1>12, Zenon DEF EpisodeNew, planVars, otherVars
  <2> QED
    BY <1>0, <2>1, MotionSame
<1>13. CASE ReadInputs
  <2>1. /\ pc = "ops"
        /\ UNCHANGED <<wps, arriving, planState, interruptible, driven, playback, workers>>
    BY <1>13, Zenon DEF ReadInputs, planVars, otherVars
  <2> QED
    BY <1>0, <2>1, MotionSame
<1>14. ASSUME NEW a \in Arms, OnFaultEvent(a)
      PROVE  MotionInv'
  <2>1. pc = "events" /\ pc' = "events" /\ UNCHANGED workers
    BY <1>14, Zenon DEF OnFaultEvent
  <2>2. CASE CancelPlans("driver fault")
    BY <1>0, <2>1, <2>2, MotionCancelled DEF CancelPlans
  <2>3. CASE UNCHANGED planVars
    BY <1>0, <2>1, <2>3, MotionSame DEF planVars
  <2>4. CASE ~ CancelPlans("driver fault") /\ ~ UNCHANGED planVars
    <3>1. /\ ~ (interruptible /\ motion_active)
          /\ wps' = [wps EXCEPT ![a] = <<>>]
          /\ UNCHANGED <<arriving, interruptible, driven, playback>>
      BY <1>14, <2>4, Zenon DEF OnFaultEvent
    <3>2. planState' = [planState EXCEPT ![a] = None]
      BY <1>14, <2>4, Zenon DEF OnFaultEvent
    <3>3. driven = {}
      BY <3>1 DEF MotionInv, OneKind, motion_active
    <3>4. MaxGotos = 0
      BY <1>14, Zenon DEF Sheltered, OnFaultEvent, MotionInv, FaultFree
    <3> QED
      BY <1>0, <2>1, <3>1, <3>2, <3>3, <3>4, SMTT(30)
      DEF MotionTypeOK, LoopAssumption, Status, MotionInv, Planned,
           ArrivalsWithinTick, OneKind,
     ExecutorMatchesState, InMotion
  <2> QED
    BY <2>2, <2>3, <2>4
<1>15. ASSUME NEW a \in Arms, OnRecoveredEvent(a)
      PROVE  MotionInv'
  <2>1. /\ pc = "events"
        /\ UNCHANGED <<wps, arriving, planState, interruptible, driven, playback, workers>>
    BY <1>15, Zenon DEF OnRecoveredEvent, planVars, otherVars
  <2> QED
    BY <1>0, <2>1, MotionSame
<1>16. CASE InterruptMotion
  <2>1. pc = "events" /\ UNCHANGED workers
    BY <1>16, Zenon DEF InterruptMotion, Interrupted, otherVars
  <2>2. CASE \E r \in Reason : CancelPlans(r)
    BY <1>0, <2>1, <2>2, MotionCancelled DEF CancelPlans
  <2>3. CASE UNCHANGED planVars
    BY <1>0, <2>1, <2>3, MotionSame DEF planVars
  <2> QED
    BY <1>16, <2>2, <2>3 DEF InterruptMotion, Interrupted, Reason
<1>17. CASE Resolve
  <2>1. /\ pc = "resolve" /\ pc' = "gate"
        /\ wps' = [a \in Arms |-> IF Retires(a) THEN Tail(wps[a]) ELSE wps[a]]
        /\ arriving' = [a \in Arms |-> IF Arrives(a) THEN Head(wps[a]) ELSE arriving[a]]
        /\ UNCHANGED <<planState, interruptible, driven, playback, workers>>
    BY <1>17, Zenon DEF Resolve
  <2>2. \A a \in Arms : arriving[a] = None
    BY <2>1 DEF MotionInv, ArrivalsWithinTick
  <2>3. ASSUME NEW a \in Arms
        PROVE  InMotion(a)' <=> InMotion(a)
    <3>1. CASE Arrives(a)
      <4>1. arriving'[a] \in Goal /\ wps[a] # <<>>
        BY <2>1, <3>1 DEF Arrives, Retires, Plans, MotionTypeOK
      <4> QED
        BY <4>1 DEF InMotion, LoopAssumption
    <3>2. CASE ~ Arrives(a)
      <4>1. wps'[a] # <<>> <=> wps[a] # <<>>
        <5>1. wps[a] \in Seq(Goal)
          BY DEF MotionTypeOK
        <5>2. CASE Retires(a)
          BY <2>1, <3>2, <5>1, <5>2, LastOne DEF Arrives, Retires, Plans
        <5>3. CASE ~ Retires(a)
          BY <2>1, <5>3
        <5> QED
          BY <5>2, <5>3
      <4> QED
        BY <2>1, <2>2, <3>2, <4>1 DEF InMotion
    <3> QED
      BY <3>1, <3>2
  <2>4. OneKind'
    <3>1. ASSUME NEW a \in Arms, arriving'[a] # None
          PROVE  wps'[a] = <<>> /\ driven = {}
      <4>1. Arrives(a)
        BY <2>1, <2>2, <3>1
      <4> QED
        <5>1. wps[a] \in Seq(Goal) /\ wps[a] # <<>> /\ wps'[a] = Tail(wps[a])
              /\ Len(wps[a]) = 1
          BY <2>1, <4>1 DEF Arrives, Retires, Plans, MotionTypeOK
        <5> QED
          BY <5>1, LastOne DEF MotionInv, OneKind
    <3>2. driven # {} => \A a \in Arms : wps'[a] = <<>>
      BY <2>1 DEF Retires, Plans, MotionInv, OneKind
    <3> QED
      BY <2>1, <3>1, <3>2 DEF MotionInv, OneKind
  <2> QED
    BY <1>0, <2>1, <2>3, <2>4 DEF MotionInv, Planned, ArrivalsWithinTick,
       ExecutorMatchesState
<1>18. CASE ResolveStalled
  <2>1. /\ pc = "resolve"
        /\ UNCHANGED <<wps, arriving, planState, interruptible, driven, playback, workers>>
    BY <1>18, Zenon DEF ResolveStalled, planVars, otherVars
  <2> QED
    BY <1>0, <2>1, MotionSame
<1>19. ASSUME NEW a \in Arms, ReplayStepFails(a)
      PROVE  MotionInv'
  <2> DEFINE popped == {b \in {c \in Arms : c < a} : Arrives(b)}
  <2>1. /\ pc = "resolve" /\ UNCHANGED workers /\ a \in driven
        /\ CancelMotion("replay step failed", MotionArms \ popped)
    BY <1>19, Zenon DEF ReplayStepFails, Replays
  <2>2. MotionArms \ popped = MotionArms
    BY <2>1 DEF MotionInv, OneKind, Arrives, Retires, Plans
  <2> QED
    BY <1>0, <2>1, <2>2, MotionCancelled
<1>20. CASE Gate
  <2>1. PICK out, kept \in [Arms -> Pos], blocked \in BOOLEAN, lapsed \in BOOLEAN,
             expired \in SUBSET {a \in Arms : planState[a] = "failed"} :
          GateAndDispatch(out, blocked, expired, lapsed)
    BY <1>20 DEF Gate
  <2> QED
    BY <1>0, <2>1, MotionGate
<1>21. ASSUME NEW held \in BOOLEAN, KeysMsg(held)
      PROVE  MotionInv'
  <2>1. /\ pc = "ops"
        /\ UNCHANGED <<wps, arriving, planState, interruptible, driven, playback, workers>>
    BY <1>21, Zenon DEF KeysMsg, Alone, planVars, otherVars
  <2> QED
    BY <1>0, <2>1, MotionSame
<1>22. CASE BrowserDrops
  <2>1. /\ pc # "gate"
        /\ UNCHANGED <<wps, arriving, planState, interruptible, driven, playback, workers>>
    BY <1>22, Zenon DEF BrowserDrops, Alone, planVars, otherVars
  <2> QED
    BY <1>0, <2>1, MotionSame
<1>23. ASSUME NEW a \in Arms, DriverFault(a)
      PROVE  MotionInv'
  <2>1. /\ pc = "ops"
        /\ UNCHANGED <<wps, arriving, planState, interruptible, driven, playback, workers>>
    BY <1>23, Zenon DEF DriverFault, Alone, planVars, otherVars
  <2> QED
    BY <1>0, <2>1, MotionSame
<1>24. ASSUME NEW a \in Arms, DriverRecovers(a)
      PROVE  MotionInv'
  <2>1. /\ pc = "ops"
        /\ UNCHANGED <<wps, arriving, planState, interruptible, driven, playback, workers>>
    BY <1>24, Zenon DEF DriverRecovers, Alone, planVars, otherVars
  <2> QED
    BY <1>0, <2>1, MotionSame
<1>25. CASE EpisodeEnds
  <2>1. /\ pc = "ops"
        /\ UNCHANGED <<wps, arriving, planState, interruptible, driven, playback, workers>>
    BY <1>25, Zenon DEF EpisodeEnds, Alone, planVars, otherVars
  <2> QED
    BY <1>0, <2>1, MotionSame
<1> QED
  BY <1>1, <1>2, <1>3, <1>4, <1>5, <1>6, <1>7, <1>8, <1>9, <1>10, <1>11,
    <1>12, <1>13, <1>14, <1>15, <1>16, <1>17, <1>18, <1>19, <1>20, <1>21,
    <1>22, <1>23, <1>24, <1>25
  DEF Next, Ops, Tick, Events, Environment

(* So the invariant always holds.                                          *)
THEOREM MotionInvariant ==
  ASSUME Sheltered
  PROVE  Spec => []MotionInv
<1>1. Init => MotionInv
  <2>1. ASSUME Init
        PROVE  \A a \in Arms : /\ planState[a] = None /\ workers[a] = 0 /\ ~ InMotion(a)
                              /\ arriving[a] = None
    BY <2>1, Zenon DEF Init, InMotion
  <2>2. None # "planning" /\ None # "executing"
    BY DEF LoopAssumption, Status
  <2>3. Init => FaultFree /\ Planned
    BY <2>1, <2>2, Zenon DEF Init, FaultFree, Planned
  <2>4. Init => ArrivalsWithinTick /\ OneKind
    BY <2>1, Zenon DEF Init, ArrivalsWithinTick, OneKind
  <2>5. Init => ExecutorMatchesState
    BY <2>1, <2>2, Zenon DEF ExecutorMatchesState
  <2> QED
    BY <2>3, <2>4, <2>5 DEF MotionInv
<1>2. TypeOK /\ MotionInv /\ [Next]_vars => MotionInv'
  <2>1. TypeOK /\ MotionInv /\ Next => MotionInv'
    BY MotionInvStep DEF TypeOK
  <2>2. MotionInv /\ UNCHANGED vars => MotionInv'
    <3> SUFFICES ASSUME MotionInv, UNCHANGED vars
                 PROVE  MotionInv'
      OBVIOUS
    <3>1. /\ UNCHANGED <<pc, wps, arriving, planState, interruptible, driven, playback, workers>>
          /\ UNCHANGED <<events, batch, faulted>>
      BY DEF vars, planVars, otherVars, faultVars
    <3>2. \A a \in Arms : InMotion(a)' = InMotion(a)
      BY <3>1, Zenon DEF InMotion
    <3> QED
      BY <3>1, <3>2, Zenon DEF MotionInv, FaultFree, Planned, ArrivalsWithinTick, OneKind,
           ExecutorMatchesState
  <2> QED
    BY <2>1, <2>2
<1> QED
  BY <1>1, <1>2, TypeCorrect, PTL DEF Spec

(* The executor, the replay and _plan_state agree on which arms execute.   *)
THEOREM MotionReported ==
  ASSUME Sheltered
  PROVE  Spec => []ExecutorMatchesState
<1>1. MotionInv => ExecutorMatchesState
  BY DEF MotionInv
<1> QED
  BY <1>1, MotionInvariant, PTL

-----------------------------------------------------------------------------
(* How a motion ends.                                                      *)

EndsOpenly(a) ==
  \/ arriving[a] # None /\ cmd'[a] = Clamp(arriving[a])
  \/ a \in driven /\ rows = 0
  \/ cancelReason' # None

(* A reason is something to report. *)
LEMMA Reported ==
  ASSUME cancelReason' \in Reason, NEW a \in Arms
  PROVE  EndsOpenly(a)
BY DEF EndsOpenly, LoopAssumption

(* At the gate: confirmed at the goal, or at the end of the travel short   *)
(* of it; the recording is spent; or the gate watch says why.              *)
LEMMA EndsAtGate ==
  ASSUME MotionTypeOK, NEW out \in [Arms -> Pos], NEW blocked, NEW lapsed,
         NEW expired \in SUBSET {b \in Arms : planState[b] = "failed"},
         GateAndDispatch(out, blocked, expired, lapsed),
         NEW a \in Arms, planState[a] = "executing", planState'[a] # "executing"
  PROVE  EndsOpenly(a)
<1> DEFINE done   == {b \in Arms : Confirms(b, out, blocked)}
           wps1   == [b \in Arms |-> IF Reloads(b, out, blocked) THEN <<arriving[b]>>
                                    ELSE wps[b]]
           motion == {b \in Arms : wps1[b] # <<>>} \cup driven
<1>1. PICK abort \in BOOLEAN, spent \in BOOLEAN :
        /\ spent => driven # {} /\ rows = 0
        /\ planState' = Cleared(done \cup expired \cup (IF abort THEN motion ELSE {})
                                 \cup (IF spent THEN driven ELSE {}), planState)
        /\ abort => cancelReason' = "gate hold"
  BY Zenon DEF GateAndDispatch
<1>2. cmd' = out
  BY Zenon DEF GateAndDispatch
<1>3. a \in done \/ a \in expired \/ abort \/ (spent /\ a \in driven)
  BY <1>1 DEF Cleared
<1>4. CASE a \in done
  <2>1. /\ arriving[a] # None
        /\ \/ out[a] = arriving[a]
           \/ out[a] = MaxPos /\ arriving[a] > MaxPos
    BY <1>4 DEF Confirms
  <2>2. out[a] \in Pos /\ arriving[a] \in Goal
    BY <2>1 DEF MotionTypeOK
  <2>3. out[a] = Clamp(arriving[a])
    BY <2>1, <2>2 DEF Clamp, Pos, Goal, LoopAssumption
  <2> QED
    BY <1>2, <2>1, <2>3 DEF EndsOpenly
<1>5. CASE abort
  BY <1>1, <1>5, Reported DEF Reason
<1>6. CASE spent /\ a \in driven
  BY <1>1, <1>6 DEF EndsOpenly
<1> QED
  BY <1>3, <1>4, <1>5, <1>6

(* Every step that ends a motion says how. *)
LEMMA EndsStep ==
  ASSUME Sheltered, MotionTypeOK, RestTypeOK, MotionInv, Next,
         NEW a \in Arms, planState[a] = "executing", planState'[a] # "executing"
  PROVE  EndsOpenly(a)
<1> USE DEF Reason
<1>0. CASE UNCHANGED planState
  BY <1>0
<1>1. ASSUME NEW b \in Arms, NEW path \in Paths, NEW inter \in BOOLEAN,
             NEW grips \in SUBSET Grippers, ExecutePlan(b, path, inter, grips)
      PROVE  FALSE
  <2>1. planState' = [planState EXCEPT ![b] = "executing"]
    BY <1>1, Zenon DEF ExecutePlan
  <2> QED
    BY <2>1 DEF MotionTypeOK
<1>2. ASSUME NEW S \in Recorded, NEW paths \in [S -> Paths], PlaybackPath(paths)
      PROVE  FALSE
  <2>1. planState'[a] \in {"executing", planState[a]}
    BY <1>2, Zenon DEF PlaybackPath
  <2> QED
    BY <2>1
<1>3. ASSUME NEW S \in Recorded, ReplayActions(S)
      PROVE  FALSE
  <2>1. planState'[a] \in {"executing", planState[a]}
    BY <1>3, Zenon DEF ReplayActions
  <2> QED
    BY <2>1
<1>4. CASE \E r \in Reason : CancelPlans(r)
  BY <1>4, Reported, Zenon DEF CancelPlans, CancelMotion
<1>5. ASSUME NEW b \in Arms, SwitchArm(b) \/ \E p \in Pos : JointJog(b, p)
      PROVE  UNCHANGED planState \/ \E r \in Reason : CancelPlans(r)
  BY <1>5 DEF SwitchArm, JointJog, planVars
<1>6. ASSUME NEW b \in Arms, JointGoto(b)
      PROVE  EndsOpenly(a)
  <2>1. CASE interruptible /\ motion_active
    <3>1. cancelReason' = "jog"
      BY <1>6, <2>1, Zenon DEF JointGoto
    <3> QED
      BY <3>1, Reported
  <2>2. CASE ~ (interruptible /\ motion_active)
    <3>1. ~ AnyPlanInFlight(ActiveArms, planState)
      BY <1>6, <2>2, Zenon DEF JointGoto
    <3> QED
      BY <3>1 DEF AnyPlanInFlight
  <2> QED
    BY <2>1, <2>2
<1>7. ASSUME NEW b \in Arms, PlanFailed(b) \/ \E path \in Paths : PlanReady(b, path)
      PROVE  FALSE
  <2>1. workers[b] > 0
    BY <1>7, Zenon DEF PlanFailed, PlanReady
  <2>2. planState[b] = "planning"
    <3>1. workers[b] \in Nat
      BY Zenon DEF RestTypeOK
    <3> QED
      BY <2>1, <3>1, Counted, Zenon DEF MotionInv, Planned
  <2>3. \E v : planState' = [planState EXCEPT ![b] = v]
    BY <1>7, Zenon DEF PlanFailed, PlanReady
  <2>4. a # b
    BY <2>2
  <2>5. planState'[a] = planState[a]
    BY <2>3, <2>4 DEF MotionTypeOK
  <2> QED
    BY <2>5
<1>8. ASSUME NEW b \in Arms, OnFaultEvent(b)
      PROVE  UNCHANGED planState \/ cancelReason' = "driver fault"
  BY <1>8, Zenon DEF OnFaultEvent, planVars, CancelPlans, CancelMotion
<1>9. CASE InterruptMotion
  <2>1. UNCHANGED planState \/ \E r \in Reason : CancelPlans(r)
    BY <1>9 DEF InterruptMotion, planVars
  <2> QED
    BY <1>0, <1>4, <2>1
<1>10. ASSUME NEW b \in Arms, ReplayStepFails(b)
      PROVE  EndsOpenly(a)
  <2>1. cancelReason' = "replay step failed"
    BY <1>10, Zenon DEF ReplayStepFails, CancelMotion
  <2> QED
    BY <2>1, Reported
<1>11. CASE Gate
  BY <1>11, EndsAtGate DEF Gate
<1>12. CASE CancelPlan \/ Takeover
  BY <1>4, <1>12 DEF CancelPlan, Takeover
<1>13. ASSUME EpisodeNew \/ ReadInputs \/ (\E b \in Arms : OnRecoveredEvent(b))
              \/ Resolve \/ ResolveStalled
              \/ \E grips \in SUBSET Grippers : ExecuteGripperOnly(grips)
       PROVE  UNCHANGED planState
  BY <1>13, Zenon DEF EpisodeNew, ReadInputs, OnRecoveredEvent, Resolve, ResolveStalled,
    ExecuteGripperOnly, planVars
<1>14. CASE Environment
  <2>1. UNCHANGED planState
    BY <1>14, Zenon DEF Environment, KeysMsg, BrowserDrops, DriverFault, DriverRecovers,
      EpisodeEnds, Alone, planVars
  <2> QED
    BY <1>0, <2>1
<1>15. CASE Ops
  <2>1. /\ ~ \E b \in Arms, path \in Paths, inter \in BOOLEAN, grips \in SUBSET Grippers :
               ExecutePlan(b, path, inter, grips)
        /\ ~ \E S \in Recorded : \E paths \in [S -> Paths] : PlaybackPath(paths)
        /\ ~ \E S \in Recorded : ReplayActions(S)
    <3>1. ~ \E b \in Arms, path \in Paths, inter \in BOOLEAN, grips \in SUBSET Grippers :
               ExecutePlan(b, path, inter, grips)
      BY <1>1
    <3>2. ~ \E S \in Recorded : \E paths \in [S -> Paths] : PlaybackPath(paths)
      BY <1>2
    <3>3. ~ \E S \in Recorded : ReplayActions(S)
      BY <1>3
    <3> QED
      BY <3>1, <3>2, <3>3, Zenon
  <2>2. /\ ~ \E b \in Arms : PlanFailed(b)
        /\ ~ \E b \in Arms, path \in Paths : PlanReady(b, path)
    BY <1>7, Zenon
  <2>3. \/ CancelPlan \/ Takeover \/ EpisodeNew
        \/ \E grips \in SUBSET Grippers : ExecuteGripperOnly(grips)
        \/ \E b \in Arms : SwitchArm(b) \/ \E p \in Pos : JointJog(b, p)
        \/ \E b \in Arms : JointGoto(b)
    BY <1>15, <2>1, <2>2, Zenon DEF Ops
  <2> QED
    BY <1>0, <1>4, <1>5, <1>6, <1>12, <1>13, <2>3, Zenon
<1>16. CASE Tick
  <2>1. cancelReason' = "driver fault" => EndsOpenly(a)
    BY Reported
  <2> QED
    BY <1>0, <1>8, <1>9, <1>10, <1>11, <1>13, <1>16, <2>1, Zenon DEF Tick, Events
<1> QED
  BY <1>14, <1>15, <1>16 DEF Next

(* A motion ends at its goal, at the end of the travel or of the           *)
(* recording, or with a reason for the manager's worker.                   *)
THEOREM MotionEndsOpenly ==
  ASSUME Sheltered
  PROVE  Spec => EndsAtGoalOrSaysWhy
<1>1. TypeOK /\ MotionInv /\ [Next]_vars =>
        [\A a \in Arms :
           planState[a] = "executing" /\ planState'[a] # "executing" =>
             \/ arriving[a] # None /\ cmd'[a] = Clamp(arriving[a])
             \/ a \in driven /\ rows = 0
             \/ cancelReason' # None]_vars
  <2>1. ASSUME TypeOK, MotionInv, Next, NEW a \in Arms,
               planState[a] = "executing", planState'[a] # "executing"
        PROVE  \/ arriving[a] # None /\ cmd'[a] = Clamp(arriving[a])
               \/ a \in driven /\ rows = 0
               \/ cancelReason' # None
    BY <2>1, EndsStep DEF TypeOK, EndsOpenly
  <2> QED
    BY <2>1
<1> QED
  BY <1>1, MotionInvariant, TypeCorrect, PTL DEF Spec, EndsAtGoalOrSaysWhy
=============================================================================
