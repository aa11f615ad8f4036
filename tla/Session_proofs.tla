--------------------------- MODULE Session_proofs ---------------------------
(***************************************************************************)
(* Proofs about a session's rig and its start, for every number of         *)
(* sessions, of profile motions and of legs.                               *)
(***************************************************************************)
EXTENDS SessionMotions, SequenceTheorems, TLAPS

Coming == {"connect", "rigged", "looped", "built"}
Ending == {"cancel", "cancelling", "stop", "stopped"}

(* What _lock protects: where its holder is says which session there is    *)
(* and how much of the rig may be up.                                      *)
RigInv ==
  /\ lock \in Coming => session = 0 /\ born \in Ids
  /\ lock = "published" => session = born
  /\ lock = "published" \/ lock \in Ending => session \in Ids
  /\ \A s \in Ids : rig[s] \/ loop[s] = "on" =>
       s = session \/ s \in left \/ (session = 0 /\ s = born /\ lock \in Coming \ {"connect"})
  /\ \A s \in Ids : loop[s] = "on" => rig[s]
  /\ lock \in Coming \ {"connect"} => rig[born]
  /\ lock = "stop" => loop[session] # "on"
  /\ lock = "stopped" => session \in left \/ (~ rig[session] /\ loop[session] # "on")
  /\ bringup # 0 => /\ kind[bringup] = "hardware"
                    /\ bringup = session \/ (session = 0 /\ bringup = born /\ lock \in Coming)

(* Where the start_from worker of a session is that has not settled: only  *)
(* the worker makes START_FROM of it, and no callback takes it back there. *)
SettleInv ==
  \A s \in Ids :
    /\ s > born \/ (s = born /\ lock \in Coming \union {"published"}) => pc[s] = "off"
    /\ callback[s] \notin {"bringup", "start_from"}
    /\ state[s] = "bringup" => \/ pc[s] \in {"begin", "judge", "mark", "settled"}
                               \/ s # session \/ lock = "published"
    /\ state[s] = "start_from" => pc[s] \in {"plan", "settle", "settled", "crashed"} \union LegPcs

SessionInv == TypeOK /\ RigInv /\ SettleInv

LEMMA SessionInvImplies == SessionInv => RigOwned /\ StartSettled
<1> SUFFICES ASSUME SessionInv PROVE RigOwned /\ StartSettled
  OBVIOUS
<1> USE SessionAssumption DEF SessionInv, TypeOK
<1>1. RigOwned
  BY DEF RigOwned, RigInv, Coming
<1>2. StartSettled
  BY DEF StartSettled, SettleInv, LegPcs
<1> QED BY <1>1, <1>2

LEMMA SessionStart == SessionInit => SessionInv
<1> SUFFICES ASSUME SessionInit PROVE SessionInv
  OBVIOUS
<1> USE SessionAssumption DEF SessionInit, Each, Coming, Workers
<1>1. TypeOK
  BY DEF TypeOK, Locks, Pcs
<1>2. RigInv
  BY DEF RigInv, Ending
<1>3. SettleInv
  BY DEF SettleInv
<1> QED BY <1>1, <1>2, <1>3 DEF SessionInv

(***************************************************************************)
(* The manager's steps.                                                    *)
(***************************************************************************)
LEMMA CommandTypes ==
  /\ \A w \in Workers \union {0} : CancelOf(w) \in Commands
  /\ \A w \in Workers : [op |-> "execute", by |-> w] \in Commands
  /\ \A s \in Ids : [op |-> "ready", by |-> s] \in Commands
BY DEF CancelOf, Commands

LEMMA CancelTyped ==
  ASSUME TypeOK, NEW w \in Workers \union {0}, CancelViaLoop(w)
  PROVE  queue' \in Seq(Commands)
BY CommandTypes, AppendProperties DEF CancelViaLoop, TypeOK

(* A step that raises is counted, and leaves its session behind. *)
LEMMA FailsTyped ==
  ASSUME TypeOK, NEW s \in Ids, Fails(s) \/ UNCHANGED <<left, failures>>
  PROVE  left' \subseteq Ids /\ failures' \in 0..MaxFailures
<1>1. left \subseteq Ids /\ failures \in 0..MaxFailures /\ MaxFailures \in Nat
  BY SessionAssumption DEF TypeOK
<1> QED BY <1>1 DEF Fails

LEMMA BringUpEndTyped ==
  ASSUME TypeOK, RigInv, BringUpFails \/ BringUpLeavesRig \/ BringUpLeavesAll
  PROVE  TypeOK'
<1>1. born \in Ids
  BY DEF BringUpFails, BringUpLeavesRig, BringUpLeavesAll, Unwound, RigInv, Coming
<1>2. left' \subseteq Ids /\ failures' \in 0..MaxFailures
  BY <1>1, FailsTyped DEF BringUpFails, BringUpLeavesRig, BringUpLeavesAll, StopRig
<1>3. loop' \in [Ids -> {"off", "on", "stopped"}] /\ rig' \in [Ids -> BOOLEAN]
  BY <1>1 DEF BringUpFails, BringUpLeavesRig, BringUpLeavesAll, StopRig, LoopStopped, TypeOK
<1>4. bringup' \in Ids \union {0} /\ lock' \in Locks
      /\ UNCHANGED <<session, specVars, state, busVars, threads>>
  BY DEF BringUpFails, BringUpLeavesRig, BringUpLeavesAll, BringUpEnds, Locks, TypeOK
<1> QED BY <1>2, <1>3, <1>4, SMTT(20)
        DEF TypeOK, busVars, threads, specVars, faultVars, motionVars, workerVars

LEMMA EndTyped ==
  ASSUME TypeOK, RigInv, EndLoop \/ EndLoopFails \/ EndRigFails
  PROVE  TypeOK'
<1>1. session \in Ids
  BY DEF EndLoop, EndLoopFails, EndRigFails, RigInv, Ending
<1>2. left' \subseteq Ids /\ failures' \in 0..MaxFailures
  BY <1>1, FailsTyped DEF EndLoop, EndLoopFails, EndRigFails
<1>3. LoopEnds(session) \/ UNCHANGED <<loop, arms, reported>>
  BY DEF EndLoop, EndLoopFails, EndRigFails, threads, faultVars
<1>4. /\ loop' \in [Ids -> {"off", "on", "stopped"}]
      /\ arms' \in [Ids -> {"ok", "fault", "recovering"}]
      /\ reported' \in [Ids -> {"ok", "fault", "recovering"}]
  BY <1>1, <1>3 DEF LoopEnds, TypeOK
<1>5. lock' \in Locks /\ UNCHANGED loopRest
  BY DEF EndLoop, EndLoopFails, EndRigFails, Locks, loopRest, threads, faultVars
<1> QED BY <1>2, <1>4, <1>5, SMTT(20)
        DEF TypeOK, loopRest, busVars, specVars, motionVars, workerVars

LEMMA ManagerTyped ==
  ASSUME TypeOK, Creates \/ CreateStep \/ Teardown \/ EndStep, RigInv
  PROVE  TypeOK'
<1> USE SessionAssumption DEF TypeOK, busVars, threads, specVars, rigVars, faultVars, motionVars,
     workerVars
<1>1. CASE Create
  BY <1>1 DEF Create, Locks
<1>2. ASSUME NEW s \in Ids, NEW k \in Kinds, NEW f \in Starts[s], BringUp(s, k, f)
      PROVE  TypeOK'
  <2>1. f \in {"keep", "profile"}
    OBVIOUS
  <2> QED BY <1>2, <2>1 DEF BringUp, Locks
<1>3. CASE Refuse
  BY <1>3 DEF Refuse, Locks
<1>14. CASE Publish
  BY <1>14, SMTT(20) DEF Publish, Locks
<1>11. CASE Connect
  BY <1>11 DEF Connect, Locks
<1>12. CASE StartLoop
  BY <1>12 DEF StartLoop, Locks
<1>4. CASE AttachFaultState
  BY <1>4 DEF AttachFaultState, Locks, States
<1>5. CASE BringUpFails \/ BringUpLeavesRig \/ BringUpLeavesAll
  BY <1>5, BringUpEndTyped
<1>6. CASE Created
  BY <1>6 DEF Created, Locks, Pcs
<1>7. CASE Teardown
  BY <1>7 DEF Teardown, Locks, States
<1>8. CASE EndMotion
  BY <1>8, CancelTyped DEF EndMotion, Locks
<1>9. CASE EndLoop \/ EndLoopFails \/ EndRigFails
  BY <1>9, EndTyped
<1>10. CASE EndRig
  BY <1>10 DEF EndRig, Locks
<1>13. CASE Ended
  BY <1>13, SMTT(20) DEF Ended, Locks
<1> QED BY <1>1, <1>2, <1>3, <1>4, <1>5, <1>6, <1>7, <1>8, <1>9, <1>10, <1>11, <1>12, <1>13, <1>14
        DEF Creates, CreateStep, EndStep

LEMMA ManagerRig ==
  ASSUME TypeOK, RigInv, Creates \/ CreateStep \/ Teardown \/ EndStep
  PROVE  RigInv'
<1> USE SessionAssumption DEF TypeOK, RigInv, Coming, Ending, busVars, threads, specVars, rigVars
<1>1. CASE Create
  BY <1>1 DEF Create
<1>2. ASSUME NEW s \in Ids, NEW k \in Kinds, NEW f \in Starts[s], BringUp(s, k, f)
      PROVE  RigInv'
  BY <1>2 DEF BringUp, Admits
<1>3. CASE Refuse
  BY <1>3 DEF Refuse
<1>4. CASE Connect
  BY <1>4 DEF Connect
<1>5. CASE StartLoop
  BY <1>5 DEF StartLoop
<1>6. CASE AttachFaultState
  BY <1>6 DEF AttachFaultState
<1>7. CASE BringUpFails \/ BringUpLeavesRig \/ BringUpLeavesAll
  <2>1. /\ lock \in Coming /\ lock' = "free" /\ session = 0 /\ born \in Ids
        /\ UNCHANGED <<session, born, kind>>
        /\ bringup' = IF kind[born] = "hardware" THEN 0 ELSE bringup
    BY <1>7 DEF BringUpFails, BringUpLeavesRig, BringUpLeavesAll, BringUpEnds, Unwound
  <2>2. \/ /\ rig' = [rig EXCEPT ![born] = FALSE] /\ left' = left
           /\ loop' = [loop EXCEPT ![born] = IF @ = "on" THEN "stopped" ELSE @]
        \/ /\ rig' = [rig EXCEPT ![born] = TRUE] /\ left' = left \union {born}
           /\ loop' = [loop EXCEPT ![born] = IF @ = "on" THEN "stopped" ELSE @]
        \/ UNCHANGED <<rig, loop>> /\ left' = left \union {born}
    BY <1>7 DEF BringUpFails, BringUpLeavesRig, BringUpLeavesAll, StopRig, LoopStopped, Fails
  <2>3. loop'[born] = "on" => rig'[born]
    BY <2>1, <2>2
  <2>4. ASSUME NEW s \in Ids, rig'[s] \/ loop'[s] = "on"
        PROVE  s \in left' /\ (loop'[s] = "on" => rig'[s])
    BY <2>1, <2>2, <2>3, <2>4, SMTT(20)
  <2>5. bringup' = 0
    BY <2>1
  <2> QED BY <2>1, <2>4, <2>5
<1>8. CASE Publish
  <2>1. /\ lock = "built" /\ lock' = "published" /\ session = 0 /\ born \in Ids /\ session' = born
        /\ UNCHANGED <<born, bringup, kind, rig, loop, left>>
    BY <1>8 DEF Publish
  <2> QED BY <2>1
<1>9. CASE Created
  BY <1>9 DEF Created
<1>10. CASE Teardown
  BY <1>10 DEF Teardown
<1>11. CASE EndMotion
  BY <1>11 DEF EndMotion
<1>12. CASE EndLoop \/ EndLoopFails
  BY <1>12 DEF EndLoop, EndLoopFails, LoopEnds, loopRest, Fails
<1>13. CASE EndRig \/ EndRigFails
  <2>1. /\ lock = "stop" /\ lock' = "stopped" /\ session \in Ids /\ loop[session] # "on"
        /\ UNCHANGED <<session, born, bringup, kind, loop>>
    BY <1>13 DEF EndRig, EndRigFails
  <2>2. \/ rig' = [rig EXCEPT ![session] = FALSE] /\ UNCHANGED left
        \/ UNCHANGED rig /\ left' = left \union {session}
    BY <1>13 DEF EndRig, EndRigFails, Fails
  <2> QED BY <2>1, <2>2
<1>14. CASE Ended
  BY <1>14 DEF Ended
<1> QED BY <1>1, <1>2, <1>3, <1>4, <1>5, <1>6, <1>7, <1>8, <1>9, <1>10, <1>11, <1>12, <1>13, <1>14
        DEF Creates, CreateStep, EndStep

LEMMA ManagerSettles ==
  ASSUME TypeOK, RigInv, SettleInv, Creates \/ CreateStep \/ Teardown \/ EndStep
  PROVE  SettleInv'
<1> USE DEF SettleInv, Coming, LegPcs
<1>0. /\ born \in Nat /\ Ids \subseteq Nat \ {0}
      /\ state \in [Ids -> States \union {None}] /\ pc \in [Workers -> Pcs]
  <2>1. born \in Ids \union {0} /\ Ids \subseteq Nat \ {0}
    BY SessionAssumption DEF TypeOK
  <2> QED BY <2>1 DEF TypeOK
<1>1. CASE UNCHANGED <<born, state, callback, pc>> /\ (lock' \in Coming => lock \in Coming)
             /\ (lock' = "published" => lock = "built") /\ lock # "published"
             /\ (session' \in {0, session} \/ lock' = "published")
  BY <1>0, <1>1
<1>2. ASSUME NEW s \in Ids, NEW k \in Kinds, NEW f \in Starts[s], BringUp(s, k, f)
      PROVE  SettleInv'
  <2>1. /\ lock = "validate" /\ lock' = "connect" /\ born' = born + 1
        /\ UNCHANGED <<state, callback, pc, session>>
    BY <1>2 DEF BringUp, threads, faultVars, workerVars
  <2> QED BY <1>0, <2>1
<1>3. CASE AttachFaultState
  <2>1. /\ lock = "looped" /\ lock' = "built" /\ session = 0 /\ state' = [state EXCEPT ![born] = "bringup"]
        /\ UNCHANGED <<born, callback, pc, session>>
    BY <1>3 DEF AttachFaultState, RigInv, specVars, workerVars
  <2> QED BY <1>0, <2>1
<1>4. CASE Created
  <2>1. /\ lock = "published" /\ lock' = "free" /\ UNCHANGED <<state, callback, born, session>>
        /\ session = born
        /\ pc' = [pc EXCEPT ![born] = "begin"]
    BY <1>4 DEF Created, RigInv, specVars, faultVars
  <2>2. \A s \in Ids : pc'[s] = IF s = born THEN "begin" ELSE pc[s]
    BY <1>0, <2>1 DEF Workers
  <2> QED BY <1>0, <2>1, <2>2
<1>5. CASE Teardown
  <2>1. /\ lock = "free" /\ lock' = "cancel" /\ state' = [state EXCEPT ![session] = "teardown"]
        /\ UNCHANGED <<born, callback, pc, session>>
    BY <1>5 DEF Teardown, specVars, threads, faultVars, workerVars
  <2> QED BY <1>0, <2>1
<1>6. CASE Create \/ Refuse \/ Connect \/ StartLoop \/ Publish \/ EndStep
  BY <1>1, <1>6 DEF Create, Refuse, Connect, StartLoop, Publish, EndStep, EndMotion, EndLoop,
                    EndLoopFails, EndRig, EndRigFails, Ended, loopRest, specVars, threads, faultVars,
                    workerVars
<1>7. CASE BringUpFails \/ BringUpLeavesRig \/ BringUpLeavesAll
  BY <1>1, <1>7 DEF BringUpFails, BringUpLeavesRig, BringUpLeavesAll, BringUpEnds, Unwound, specVars,
                    threads, faultVars, workerVars
<1> QED BY <1>2, <1>3, <1>4, <1>5, <1>6, <1>7 DEF Creates, CreateStep

(***************************************************************************)
(* What the threads leave alone.                                           *)
(***************************************************************************)
LEMMA ThreadsLeave ==
  ASSUME (\E s \in Ids : LoopStep(s) \/ OutsideStep(s)) \/ (\E w \in Workers : WorkerStep(w))
  PROVE  /\ UNCHANGED <<session, lock, born, kind, startFrom, rigVars, wired>>
         /\ bringup' \in {0, bringup}
<1> USE DEF specVars, rigVars, busVars, threads, faultVars
<1>1. CASE \E s \in Ids : LoopStep(s)
  BY <1>1 DEF LoopStep, Drain, Arrive, Interrupt, PublishFault, CallbackWrites, loopFrame
<1>2. CASE \E s \in Ids : OutsideStep(s)
  BY <1>2 DEF OutsideStep, Goto, PlannerDone, ArmFault, ArmRecovers, loopFrame
<1>3. CASE \E w \in Workers : LegStep(w)
  BY <1>3 DEF LegStep, Plan, Submit, GivesUp, Retry, Acked, AckTimeout, Poll, Stop, Stopped, Reason,
              Arrived, Only, workerFrame, workerData
<1>4. CASE \E w \in Ids : StartStep(w)
  BY <1>4 DEF StartStep, BeginKeep, BeginProfile, Judge, Mark, Settle, Settled, Crashed, WriteState,
              DropRows, Only, workerFrame, workerData
<1>5. CASE \E w \in Motions : ProfileStep(w)
  BY <1>5 DEF ProfileStep, Ask, Claim, Release, workerFrame
<1> QED BY <1>1, <1>2, <1>3, <1>4, <1>5 DEF WorkerStep

LEMMA ThreadsKeepRig ==
  ASSUME TypeOK, RigInv,
         UNCHANGED <<session, lock, born, kind, startFrom, rigVars>>, bringup' \in {0, bringup}
  PROVE  RigInv'
BY DEF RigInv, rigVars

(***************************************************************************)
(* The control loop's steps.                                               *)
(***************************************************************************)
LEMMA DrainTyped ==
  ASSUME TypeOK, NEW s \in Ids, Drain(s)
  PROVE  TypeOK'
<1> USE SessionAssumption DEF TypeOK
<1>1. queue \in Seq(Commands) /\ queue # <<>> /\ queue' = Tail(queue)
  BY DEF Drain
<1>2. Head(queue) \in Commands /\ queue' \in Seq(Commands)
  BY <1>1, HeadTailProperties
<1>3. ack' \in [Workers -> {"ok", "nak", None}]
  <2>1. ASSUME NEW w, NEW answer \in {"ok", "nak"}, Ack(w, answer)
        PROVE  ack' \in [Workers -> {"ok", "nak", None}]
    <3>1. ack \in [Workers -> {"ok", "nak", None}]
      BY DEF TypeOK
    <3> HIDE DEF TypeOK
    <3> QED BY <2>1, <3>1 DEF Ack
  <2> QED BY <2>1 DEF Drain, DrainExecute, DrainCancel, DrainReady
<1>4. moving' \in [Ids -> Commands \union {None}]
  <2>1. moving' = moving \/ \E c \in Commands \union {None} : moving' = [moving EXCEPT ![s] = c]
    <3> HIDE DEF TypeOK
    <3>1. CASE DrainExecute(s, Head(queue))
      BY <1>2, <3>1 DEF DrainExecute, Load, motionVars
    <3>2. CASE DrainCancel(s, Head(queue))
      BY <3>2 DEF DrainCancel, Cancel, motionVars
    <3>3. CASE DrainReady(s, Head(queue))
      BY <1>2, <3>3 DEF DrainReady
    <3> QED BY <3>1, <3>2, <3>3 DEF Drain
  <2>2. moving \in [Ids -> Commands \union {None}]
    BY DEF TypeOK
  <2> HIDE DEF TypeOK
  <2> QED BY <2>1, <2>2
<1>5. cancelled' \in [Ids -> BOOLEAN]
  <2>1. cancelled' = cancelled \/ \E b \in BOOLEAN : cancelled' = [cancelled EXCEPT ![s] = b]
    <3> HIDE DEF TypeOK
    <3>1. CASE DrainExecute(s, Head(queue))
      BY <3>1 DEF DrainExecute, Load, motionVars
    <3>2. CASE DrainCancel(s, Head(queue))
      BY <3>2 DEF DrainCancel, Cancel, motionVars
    <3>3. CASE DrainReady(s, Head(queue))
      BY <3>3 DEF DrainReady
    <3> QED BY <3>1, <3>2, <3>3 DEF Drain
  <2>2. cancelled \in [Ids -> BOOLEAN]
    BY DEF TypeOK
  <2> HIDE DEF TypeOK
  <2> QED BY <2>1, <2>2
<1>6. planning' \in [Ids -> BOOLEAN]
  BY DEF Drain, DrainExecute, DrainCancel, DrainReady, Load, Cancel, motionVars
<1> QED BY <1>2, <1>3, <1>4, <1>5, <1>6, SMTT(20) DEF Drain, loopFrame, specVars, rigVars

LEMMA LoopTyped ==
  ASSUME TypeOK, NEW s \in Ids, LoopStep(s) \/ OutsideStep(s)
  PROVE  TypeOK'
<1> USE SessionAssumption
        DEF TypeOK, loopFrame, busVars, threads, specVars, rigVars, faultVars, motionVars,
             workerVars
<1>1. CASE Drain(s)
  BY <1>1, DrainTyped
<1>2. CASE Arrive(s)
  BY <1>2 DEF Arrive
<1>3. CASE Interrupt(s)
  BY <1>3, SMTT(20) DEF Interrupt, Cancel
<1>4. CASE PublishFault(s)
  BY <1>4, SMTT(20) DEF PublishFault, Word, States
<1>5. CASE CallbackWrites(s)
  BY <1>5 DEF CallbackWrites
<1>6. CASE Goto(s)
  <2>1. planning' \in [Ids -> BOOLEAN]
    BY <1>6 DEF Goto
  <2>2. planner' \subseteq Ids /\ gotos' \in 0..MaxGotos
    BY <1>6 DEF Goto
  <2> QED BY <1>6, <2>1, <2>2 DEF Goto
<1>7. CASE PlannerDone(s)
  BY <1>7, CommandTypes, AppendProperties DEF PlannerDone
<1>8. CASE ArmFault(s)
  <2>1. arms' \in [Ids -> {"ok", "fault", "recovering"}] /\ faults' \in 0..MaxFaults
    BY <1>8 DEF ArmFault
  <2>2. /\ moving' \in [Ids -> Commands \union {None}]
        /\ cancelled' \in [Ids -> BOOLEAN] /\ planning' \in [Ids -> BOOLEAN]
    BY <1>8, ZenonT(40) DEF ArmFault, Cancel
  <2> QED BY <1>8, <2>1, <2>2, SMTT(20) DEF ArmFault
<1>9. CASE ArmRecovers(s)
  BY <1>9, SMTT(20) DEF ArmRecovers
<1> QED BY <1>1, <1>2, <1>3, <1>4, <1>5, <1>6, <1>7, <1>8, <1>9 DEF LoopStep, OutsideStep

LEMMA LoopSettles ==
  ASSUME TypeOK, SettleInv, NEW s \in Ids, LoopStep(s) \/ OutsideStep(s)
  PROVE  SettleInv'
<1> USE SessionAssumption DEF loopFrame, busVars, threads, specVars, rigVars, faultVars, workerVars
<1>1. UNCHANGED <<session, lock, born, pc>>
  BY DEF LoopStep, OutsideStep, Drain, Arrive, Interrupt, PublishFault, CallbackWrites, Goto,
         PlannerDone, ArmFault, ArmRecovers
<1>2. CASE PublishFault(s)
  <2>1. UNCHANGED state
       /\ (callback' = callback \/ callback' = [callback EXCEPT ![s] = Word(arms[s])])
    BY <1>2 DEF PublishFault
  <2>2. Word(arms[s]) \notin {"bringup", "start_from"} /\ callback \in [Ids -> States \union {None}]
    BY ZenonT(40) DEF Word, TypeOK
  <2> QED BY <1>1, <2>1, <2>2 DEF SettleInv
<1>3. CASE CallbackWrites(s)
  BY <1>1, <1>3 DEF CallbackWrites, SettleInv, TypeOK
<1>4. CASE UNCHANGED <<state, callback>>
  BY <1>1, <1>4 DEF SettleInv
<1>5. \/ PublishFault(s) \/ CallbackWrites(s) \/ UNCHANGED <<state, callback>>
  BY DEF LoopStep, OutsideStep, Drain, Arrive, Interrupt, Goto, PlannerDone, ArmFault, ArmRecovers
<1> QED BY <1>2, <1>3, <1>4, <1>5

(***************************************************************************)
(* The workers'.                                                           *)
(***************************************************************************)
LEMMA LegTyped ==
  ASSUME TypeOK, NEW w \in Workers, LegStep(w)
  PROVE  TypeOK'
<1> USE SessionAssumption
        DEF TypeOK, workerFrame, workerData, Only, Steps, specVars, rigVars, faultVars, motionVars
<1>1. pc' \in [Workers -> Pcs]
  <2>1. PICK r \in Pcs : pc' = [pc EXCEPT ![w] = r]
    BY DEF LegStep, Plan, Submit, GivesUp, Retry, Acked, AckTimeout, Poll, Stop, Stopped, Reason,
           Arrived, Pcs, LegPcs, Ends
  <2> QED BY <2>1
<1>2. queue' \in Seq(Commands)
  <2>1. CASE Submits(w)
    BY <2>1, CommandTypes, AppendProperties DEF Submits
  <2>2. CASE Stop(w)
    BY <2>2, CancelTyped DEF Stop
  <2>3. CASE UNCHANGED queue
    BY <2>3
  <2> QED BY <2>1, <2>2, <2>3
          DEF LegStep, Plan, Submit, Retry, GivesUp, Acked, AckTimeout, Poll, Stopped, Reason,
               Arrived
<1>3. leg' \in [Workers -> 0..Legs]
  <2>1. CASE Plan(w)
    BY <2>1 DEF Plan
  <2>2. CASE Arrived(w)
    <3>1. leg' = leg \/ (leg[w] < Legs /\ leg' = [leg EXCEPT ![w] = leg[w] + 1])
      BY <2>2 DEF Arrived
    <3>2. leg \in [Workers -> 0..Legs] /\ Legs \in Nat
      OBVIOUS
    <3> HIDE DEF TypeOK
    <3> QED BY <3>1, <3>2
  <2> QED BY <2>1, <2>2 DEF LegStep, Submit, GivesUp, Retry, Acked, AckTimeout, Poll, Stop, Stopped,
                            Reason
<1>4. ack' \in [Workers -> {"ok", "nak", None}]
  BY DEF LegStep, Plan, Submit, GivesUp, Retry, Acked, AckTimeout, Poll, Stop, Stopped, Reason,
         Arrived
<1>5. UNCHANGED <<workerFrame, bringup, state, claim, of, asks>>
  BY DEF LegStep, Plan, Submit, GivesUp, Retry, Acked, AckTimeout, Poll, Stop, Stopped, Reason,
         Arrived
<1> QED BY <1>1, <1>2, <1>3, <1>4, <1>5

LEMMA StartTyped ==
  ASSUME TypeOK, NEW s \in Ids, StartStep(s)
  PROVE  TypeOK'
<1> USE DEF Only, workerFrame, workerData
<1>1. pc' \in [Workers -> Pcs]
  <2>1. PICK r \in Pcs : pc' = [pc EXCEPT ![s] = r]
    BY DEF StartStep, BeginKeep, BeginProfile, Judge, Mark, Settle, Settled, Crashed, WriteState,
           DropRows, Steps, Pcs
  <2>2. pc \in [Workers -> Pcs]
    BY DEF TypeOK
  <2> QED BY <2>1, <2>2
<1>2. state' \in [Ids -> States \union {None}]
  <2>1. state' = state \/ \E new \in States : state' = [state EXCEPT ![s] = new]
    BY DEF StartStep, BeginKeep, BeginProfile, Judge, Mark, Settle, Settled, Crashed, WriteState,
           DropRows, States
  <2>2. state \in [Ids -> States \union {None}]
    BY DEF TypeOK
  <2> QED BY <2>1, <2>2
<1>3. bringup' \in {0, bringup} /\ UNCHANGED <<workerFrame, queue, claim, leg, of, ack, asks>>
  <2>1. CASE BeginKeep(s) \/ BeginProfile(s) \/ Judge(s) \/ Settle(s)
    BY <2>1 DEF BeginKeep, BeginProfile, Judge, Settle
  <2>2. CASE Mark(s) \/ Settled(s) \/ Crashed(s) \/ DropRows(s)
    BY <2>2 DEF Mark, Settled, Crashed, WriteState, DropRows
  <2> QED BY <2>1, <2>2 DEF StartStep
<1> QED BY <1>1, <1>2, <1>3 DEF TypeOK, specVars, rigVars, faultVars, motionVars

LEMMA ProfileTyped ==
  ASSUME TypeOK, NEW w \in Motions, ProfileStep(w)
  PROVE  TypeOK'
<1>1. w \in Workers
  BY DEF Workers
<1>2. /\ pc' \in [Workers -> Pcs] /\ of' \in [Workers -> Ids \union {0}]
     /\ leg' \in [Workers -> 0..Legs]
      /\ claim' \in Motions \union {None} /\ asks' \in 0..MaxAsks
  <2> USE SessionAssumption DEF Steps, workerFrame
  <2>1. /\ pc \in [Workers -> Pcs] /\ of \in [Workers -> Ids \union {0}]
       /\ leg \in [Workers -> 0..Legs]
        /\ claim \in Motions \union {None} /\ asks \in 0..MaxAsks /\ session \in Ids \union {0}
    BY DEF TypeOK
  <2>2. CASE Ask(w)
    BY <1>1, <2>1, <2>2 DEF Ask, Pcs
  <2>3. CASE Claim(w)
    BY <1>1, <2>1, <2>3 DEF Claim, Pcs
  <2>4. CASE Release(w)
    BY <1>1, <2>1, <2>4 DEF Release, Pcs
  <2> QED BY <2>2, <2>3, <2>4 DEF ProfileStep
<1>3. UNCHANGED <<workerFrame, bringup, state, queue, ack>>
  BY DEF ProfileStep, Ask, Claim, Release
<1> QED BY <1>2, <1>3 DEF TypeOK, workerFrame, specVars, rigVars, faultVars, motionVars

(* A worker changes its own place only, and a profile motion's is nobody   *)
(* else's start_from worker.                                               *)
LEMMA LegSettles ==
  ASSUME TypeOK, SettleInv, NEW w \in Workers, LegStep(w)
  PROVE  SettleInv'
<1>1. UNCHANGED <<session, lock, born, state, callback>>
  BY DEF LegStep, Plan, Submit, GivesUp, Retry, Acked, AckTimeout, Poll, Stop, Stopped, Reason,
         Arrived, Only, workerFrame, specVars, faultVars, workerData
<1>2. PICK r : pc' = [pc EXCEPT ![w] = r]
  BY DEF LegStep, Plan, Submit, GivesUp, Retry, Acked, AckTimeout, Poll, Stop, Stopped, Reason,
         Arrived, Steps
<1>3. pc[w] \in {"plan"} \union LegPcs
  BY DEF LegStep, Plan, Submit, GivesUp, Retry, Acked, AckTimeout, Poll, Stop, Stopped, Reason,
         Arrived, Steps, LegPcs
<1>4. w \in Ids => pc'[w] \in {"settle", "crashed"} \union LegPcs
  BY DEF LegStep, Plan, Submit, GivesUp, Retry, Acked, AckTimeout, Poll, Stop, Stopped, Reason,
         Arrived, Steps, LegPcs, Ends, TypeOK
<1>5. \A s \in Ids : s # w => pc'[s] = pc[s]
  BY <1>2 DEF TypeOK, Workers
<1> QED BY <1>1, <1>3, <1>4, <1>5 DEF SettleInv, LegPcs

LEMMA StartSettles ==
  ASSUME TypeOK, SettleInv, NEW s \in Ids, StartStep(s)
  PROVE  SettleInv'
<1> USE DEF TypeOK, SettleInv, Steps, Only, workerFrame, workerData, specVars, faultVars, LegPcs,
            Workers
<1>1. CASE BeginKeep(s)
  BY <1>1 DEF BeginKeep
<1>2. CASE BeginProfile(s)
  BY <1>2 DEF BeginProfile
<1>3. CASE Judge(s)
  BY <1>3 DEF Judge
<1>4. CASE Mark(s)
  BY <1>4 DEF Mark, WriteState
<1>5. CASE Settle(s)
  BY <1>5 DEF Settle
<1>6. CASE Settled(s)
  BY <1>6 DEF Settled, WriteState
<1>8. CASE Crashed(s)
  BY <1>8 DEF Crashed, WriteState
<1>7. CASE DropRows(s)
  BY <1>7 DEF DropRows
<1> QED BY <1>1, <1>2, <1>3, <1>4, <1>5, <1>6, <1>7, <1>8 DEF StartStep

LEMMA ProfileSettles ==
  ASSUME TypeOK, SettleInv, NEW w \in Motions, ProfileStep(w)
  PROVE  SettleInv'
<1>1. UNCHANGED <<session, lock, born, state, callback>>
  BY DEF ProfileStep, Ask, Claim, Release, workerFrame, specVars, faultVars
<1>2. \A s \in Ids : pc'[s] = pc[s]
  BY SessionAssumption DEF ProfileStep, Ask, Claim, Release, Steps, TypeOK, Workers
<1> QED BY <1>1, <1>2 DEF SettleInv

(***************************************************************************)
(* The system.                                                             *)
(***************************************************************************)
LEMMA SessionStep == SessionInv /\ [SessionNext]_sessionVars => SessionInv'
<1> SUFFICES ASSUME SessionInv, [SessionNext]_sessionVars
             PROVE  SessionInv'
  OBVIOUS
<1> USE DEF SessionInv
<1>1. CASE Creates \/ CreateStep \/ Teardown \/ EndStep
  BY <1>1, ManagerTyped, ManagerRig, ManagerSettles
<1>2. ASSUME NEW s \in Ids, LoopStep(s) \/ OutsideStep(s)
      PROVE  SessionInv'
  BY <1>2, LoopTyped, LoopSettles, ThreadsLeave, ThreadsKeepRig
<1>3. ASSUME NEW w \in Workers, WorkerStep(w)
      PROVE  SessionInv'
  <2>1. RigInv'
    BY <1>3, ThreadsLeave, ThreadsKeepRig
  <2>2. TypeOK' /\ SettleInv'
    BY <1>3, LegTyped, StartTyped, ProfileTyped, LegSettles, StartSettles, ProfileSettles
       DEF WorkerStep
  <2> QED BY <2>1, <2>2
<1>4. CASE UNCHANGED sessionVars
  <2>1. TypeOK'
    BY <1>4 DEF sessionVars, specVars, rigVars, busVars, threads, faultVars, motionVars, workerVars,
                TypeOK
  <2>2. RigInv' /\ SettleInv'
    BY <1>4 DEF sessionVars, specVars, rigVars, busVars, threads, faultVars, motionVars, workerVars,
                RigInv, SettleInv
  <2> QED BY <2>1, <2>2
<1> QED BY <1>1, <1>2, <1>3, <1>4 DEF SessionNext

(* The manager, its sessions and their threads never leave their types.    *)
THEOREM SessionTypes == SessionSpec => []TypeOK
<1>1. SessionInv => TypeOK
  BY DEF SessionInv
<1> QED BY <1>1, SessionStart, SessionStep, PTL DEF SessionSpec

(* Connected drivers and a running loop are those of the session that is   *)
(* live or coming up, or a step of taking them down raised; a loop runs on *)
(* its drivers only, and rows shown are of the session coming up or live.  *)
THEOREM RigsAreOwned == SessionSpec => []RigOwned
BY SessionStart, SessionStep, SessionInvImplies, PTL DEF SessionSpec

(* A live session whose start_from worker is through has settled, whatever *)
(* faults, refusals and cancellations came between.                        *)
THEOREM StartsSettle == SessionSpec => []StartSettled
BY SessionStart, SessionStep, SessionInvImplies, PTL DEF SessionSpec

=============================================================================
