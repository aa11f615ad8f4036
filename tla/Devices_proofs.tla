---------------------------- MODULE Devices_proofs ----------------------------
(***************************************************************************)
(* Proofs about the cell's devices: who holds the control boxes, for every *)
(* set of arms, of requests and of plans; the tracker's calibration beside *)
(* its reader and the sessions, for every set of calls; and the clutch,    *)
(* for all settings, leashes, rates and positions.                         *)
(***************************************************************************)
EXTENDS Boxes, HomePlan, Calibration, TrackerInput, Clutch, FiniteSetTheorems, SequenceTheorems,
        WellFoundedInduction, TLAPS

(***************************************************************************)
(* Induction.  A set that holds 0, and the successor of each natural it    *)
(* holds, holds them all: the naturals are well-founded.  It says what a   *)
(* recursive function computes.                                            *)
(***************************************************************************)
LEMMA NatSetInduction ==
  ASSUME NEW S, 0 \in S, \A n \in Nat : n \in S => n + 1 \in S
  PROVE  Nat \subseteq S
<1> DEFINE T == Nat \ S
           R == OpToRel(<, Nat)
<1>1. SUFFICES ASSUME T # {} PROVE FALSE
  BY Zenon
<1>2. IsWellFoundedOn(R, Nat)
  BY NatLessThanWellFounded, Zenon
<1>3. PICK x \in T : \A y \in T : ~ (<<y, x>> \in R)
  <2>1. T \subseteq Nat
    OBVIOUS
  <2> HIDE DEF T, R
  <2> QED
    BY <1>1, <1>2, <2>1, WFMin, Zenon
<1>4. x \in Nat /\ x # 0
  OBVIOUS
<1>5. x - 1 \in Nat /\ (x - 1) + 1 = x /\ x - 1 < x
  BY <1>4
<1>6. x - 1 \in T
  BY <1>5
<1>7. <<x - 1, x>> \in R
  BY <1>4, <1>5, Zenon DEF OpToRel
<1> QED
  BY <1>3, <1>6, <1>7

(* A loop has a run: from x0, each pass G of the one before. *)
HasRun(N, X, x0, G) ==
  \E f \in [0..N -> X] : f[0] = x0 /\ \A k \in 1..N : f[k] = G[<<k, f[k - 1]>>]

LEMMA LoopRuns ==
  ASSUME NEW N \in Nat, NEW X, NEW x0 \in X, NEW G \in [(1..N) \X X -> X]
  PROVE  HasRun(N, X, x0, G)
<1> DEFINE Run(f, n) == f[0] = x0 /\ \A k \in 1..n : f[k] = G[<<k, f[k - 1]>>]
           S == {n \in Nat : n <= N => \E f \in [0..n -> X] : Run(f, n)}
<1>1. 0 \in S
  <2>1. [k \in 0..0 |-> x0] \in [0..0 -> X]
    OBVIOUS
  <2>2. Run([k \in 0..0 |-> x0], 0)
    OBVIOUS
  <2> QED
    BY <2>1, <2>2
<1>2. ASSUME NEW n \in Nat, n \in S
      PROVE  n + 1 \in S
  <2> SUFFICES ASSUME n + 1 <= N
               PROVE  \E g \in [0..n + 1 -> X] : Run(g, n + 1)
    OBVIOUS
  <2>1. PICK f \in [0..n -> X] : Run(f, n)
    BY <1>2
  <2>2. n \in 0..n /\ n + 1 \in 1..N
    OBVIOUS
  <2>3. G[<<n + 1, f[n]>>] \in X
    BY <2>1, <2>2
  <2> DEFINE g == [k \in 0..n + 1 |-> IF k \in 0..n THEN f[k] ELSE G[<<n + 1, f[n]>>]]
  <2>4. g \in [0..n + 1 -> X]
    BY <2>1, <2>3
  <2>5. g[0] = x0
    BY <2>1
  <2>6. ASSUME NEW k \in 1..n + 1
        PROVE  g[k] = G[<<k, g[k - 1]>>]
    <3>1. CASE k \in 1..n
      <4>1. k - 1 \in 0..n /\ k \in 0..n
        BY <3>1
      <4>2. g[k] = f[k] /\ g[k - 1] = f[k - 1]
        BY <4>1
      <4> QED
        BY <2>1, <3>1, <4>2, Zenon
    <3>2. CASE k = n + 1
      <4>1. k - 1 = n /\ ~(k \in 0..n) /\ k \in 0..n + 1 /\ n \in 0..n + 1
        BY <3>2
      <4>2. g[k] = G[<<n + 1, f[n]>>] /\ g[k - 1] = f[n]
        BY <2>2, <4>1
      <4> QED
        BY <3>2, <4>2
    <3> QED
      BY <3>1, <3>2
  <2> QED
    BY <2>4, <2>5, <2>6
<1>3. N \in S
  <2> HIDE DEF S
  <2> QED
    BY <1>1, <1>2, NatSetInduction
<1> QED
  BY <1>3 DEF HasRun

(***************************************************************************)
(* The control boxes.                                                      *)
(***************************************************************************)
(* A call that has reserved the cell, until it answers. *)
Holds(r) == \/ req[r] \in {"reserved", "checked", "execute"}
            \/ req[r] = "waiting" /\ reqOp[r] # "write"

(* The manager's lock, what it has begun and who drives. *)
LockInv ==
  /\ creatingHw <=> lock \in {"pause", "join", "publish"}
  /\ session # Nothing => lock \in {"free", "create", "validate"}
  /\ rig => lock = "publish" \/ session = "hardware"
  /\ (\E a \in HwArms : OwnsBox(a)) => lock \in {"free", "create", "job"} /\ session = Nothing

(* The reservation: one call or one job, and whoever has looked at the     *)
(* cell while it was reserved has seen no carriage move.                   *)
HomingInv ==
  /\ \A r \in Requests : req[r] # "idle" => reqArm[r] \in HwArms
  /\ \A r \in Requests : req[r] \in {"reserved", "checked", "execute"} => reqOp[r] # "write"
  /\ \A r \in Requests : Holds(r) => pending = {reqArm[r]} /\ \A a \in HwArms : job[a] = Nothing
  /\ \A r, q \in Requests : Holds(r) /\ Holds(q) => r = q
  /\ pending # {} => \E r \in Requests : Holds(r)
  /\ \A a, b \in HwArms : job[a] # Nothing => op[b] # "home" /\ (job[b] # Nothing => a = b)
  /\ \A r \in Requests : req[r] \in {"checked", "execute"} => \A a \in HwArms : op[a] # "home"
  /\ \A a, b \in HwArms : op[a] = "home" /\ op[b] = "home" => a = b

BoxInv == BoxTypeOK /\ LockInv /\ HomingInv

(* A set in which any two elements are the same has one at most. *)
LEMMA AtMostOne ==
  ASSUME NEW S, \A x, y \in S : x = y
  PROVE  Cardinality(S) <= 1
<1>1. CASE S = {}
  BY <1>1, FS_EmptySet
<1>2. CASE S # {}
  <2>1. PICK x \in S : TRUE
    BY <1>2
  <2>2. S = {x}
    BY <2>1
  <2> QED BY <2>2, FS_Singleton
<1> QED BY <1>1, <1>2

LEMMA BoxInvImplies == BoxInv => OneOwner
<1> SUFFICES ASSUME BoxInv PROVE OneOwner
  OBVIOUS
<1>1. ~(rig /\ \E a \in HwArms : Drives(a))
  BY DEF BoxInv, LockInv, Drives, OwnsBox, Nothing
<1>2. rig \/ (\E a \in HwArms : Drives(a)) => HandedOver
  BY DEF BoxInv, LockInv, Drives, OwnsBox, HandedOver, hardware_session_active
<1>3. Cardinality({a \in HwArms : op[a] = "home" \/ job[a] = "homing"}) <= 1
  <2> DEFINE S == {a \in HwArms : op[a] = "home" \/ job[a] = "homing"}
  <2> SUFFICES Cardinality(S) <= 1
    OBVIOUS
  <2>1. \A x, y \in S : x = y
    BY DEF BoxInv, HomingInv, Nothing
  <2> HIDE DEF S
  <2> QED BY <2>1, AtMostOne
<1> QED BY <1>1, <1>2, <1>3 DEF OneOwner

LEMMA BoxStart == BoxInit => BoxInv
<1> SUFFICES ASSUME BoxInit PROVE BoxInv
  OBVIOUS
<1>1. BoxTypeOK
  BY DEF BoxInit, BoxTypeOK, Nothing
<1>2. LockInv
  BY DEF BoxInit, LockInv, Nothing, OwnsBox
<1>3. HomingInv
  BY DEF BoxInit, HomingInv, Nothing, Holds
<1> QED BY <1>1, <1>2, <1>3 DEF BoxInv

(***************************************************************************)
(* The manager's steps, under its lock.                                    *)
(***************************************************************************)
LEMMA ApplyTyped ==
  ASSUME BoxTypeOK, NEW flag \in BOOLEAN, _apply_paused(flag)
  PROVE  paused' \in BOOLEAN /\ client' \in [HwArms -> {"on", "leaving", "off"}] /\ op' = op
BY DEF _apply_paused, BoxTypeOK, Released

LEMMA HandedOverBoolean == BoxTypeOK => HandedOver \in BOOLEAN
BY DEF HandedOver, hardware_session_active, BoxTypeOK

LEMMA ManagerTyped ==
  ASSUME BoxTypeOK, Create \/ ManagerStep \/ teardown
  PROVE  BoxTypeOK'
<1> USE DEF homingVars, reqVars, Nothing
<1>1. CASE Create
  BY <1>1 DEF Create, BoxTypeOK, monitorVars
<1>2. CASE GuardSession
  BY <1>2 DEF GuardSession, Refused, BoxTypeOK, monitorVars
<1>3. CASE Validate
  BY <1>3 DEF Validate, Refused, BoxTypeOK, monitorVars
<1>4. CASE PauseForSession
  BY <1>4, ApplyTyped DEF PauseForSession, BoxTypeOK
<1>5. CASE connect_hardware_rig
  BY <1>5 DEF connect_hardware_rig, BoxTypeOK, monitorVars
<1>6. CASE _abort_hardware_bringup
  BY <1>6 DEF _abort_hardware_bringup, BoxTypeOK, monitorVars
<1>7. CASE AbortResumes
  BY <1>7, ApplyTyped, HandedOverBoolean DEF AbortResumes, Resume, BoxTypeOK
<1>8. CASE Publish
  BY <1>8 DEF Publish, BoxTypeOK, monitorVars
<1>9. CASE TeardownResumes
  BY <1>9, ApplyTyped, HandedOverBoolean DEF TeardownResumes, Resume, BoxTypeOK
<1>10. CASE teardown
  BY <1>10 DEF teardown, BoxTypeOK, monitorVars
<1> QED BY <1>1, <1>2, <1>3, <1>4, <1>5, <1>6, <1>7, <1>8, <1>9, <1>10 DEF ManagerStep

LEMMA ManagerLocks ==
  ASSUME BoxInv, Create \/ ManagerStep \/ teardown
  PROVE  LockInv'
<1> USE DEF BoxInv, LockInv, OwnsBox, homingVars, Nothing
<1>1. CASE Create
  BY <1>1 DEF Create
<1>2. CASE GuardSession
  BY <1>2 DEF GuardSession, Refused, ActiveArms
<1>3. CASE Validate
  BY <1>3 DEF Validate, Refused
<1>4. CASE PauseForSession
  BY <1>4 DEF PauseForSession
<1>5. CASE connect_hardware_rig
  BY <1>5 DEF connect_hardware_rig
<1>6. CASE _abort_hardware_bringup
  BY <1>6 DEF _abort_hardware_bringup
<1>7. CASE AbortResumes
  BY <1>7 DEF AbortResumes
<1>8. CASE Publish
  BY <1>8 DEF Publish
<1>9. CASE TeardownResumes
  BY <1>9 DEF TeardownResumes
<1>10. CASE teardown
  BY <1>10 DEF teardown
<1> QED BY <1>1, <1>2, <1>3, <1>4, <1>5, <1>6, <1>7, <1>8, <1>9, <1>10 DEF ManagerStep

(* Nothing else touches the reservation, the jobs or an operation. *)
LEMMA HomingKept ==
  ASSUME HomingInv, UNCHANGED <<pending, job, req, reqArm, reqOp, op>>
  PROVE  HomingInv'
BY DEF HomingInv, Holds

LEMMA ManagerKeepsHoming ==
  ASSUME Create \/ ManagerStep \/ teardown
  PROVE  UNCHANGED <<pending, job, req, reqArm, reqOp, op>>
BY DEF Create, ManagerStep, teardown, GuardSession, Validate, PauseForSession,
       connect_hardware_rig, _abort_hardware_bringup, AbortResumes, Publish, TeardownResumes,
       Resume, _apply_paused, homingVars, reqVars, monitorVars

(***************************************************************************)
(* The monitor's.                                                          *)
(***************************************************************************)
LEMMA MonitorSteps ==
  ASSUME BoxInv, Supervisor \/ \E a \in HwArms : OpEnds(a)
  PROVE  BoxInv'
<1> USE DEF BoxInv
<1>1. CASE Look
  <2>1. BoxTypeOK'
    BY <1>1, HandedOverBoolean DEF Look, BoxTypeOK, managerVars, monitorVars, homingVars, reqVars
  <2>2. LockInv' /\ HomingInv'
    BY <1>1 DEF Look, LockInv, OwnsBox, HomingInv, Holds, managerVars, monitorVars, homingVars,
                reqVars
  <2> QED BY <2>1, <2>2
<1>2. CASE _run_monitor
  <2>1. PICK flag \in BOOLEAN : _apply_paused(flag)
    BY <1>2 DEF _run_monitor, BoxTypeOK
  <2>2. BoxTypeOK'
    BY <1>2, <2>1, ApplyTyped DEF _run_monitor, BoxTypeOK, managerVars, homingVars, reqVars
  <2>3. LockInv' /\ HomingInv'
    BY <1>2, <2>1 DEF _run_monitor, _apply_paused, LockInv, OwnsBox, HomingInv, Holds,
                      managerVars, homingVars, reqVars
  <2> QED BY <2>2, <2>3
<1>3. ASSUME NEW a \in HwArms, OpEnds(a)
      PROVE  BoxInv'
  <2>1. BoxTypeOK'
    BY <1>3 DEF OpEnds, BoxTypeOK, managerVars, homingVars, reqVars, Nothing
  <2>2. LockInv'
    BY <1>3 DEF OpEnds, LockInv, OwnsBox, managerVars, homingVars
  <2>3. HomingInv'
    BY <1>3 DEF OpEnds, HomingInv, Holds, homingVars, reqVars, BoxTypeOK, Nothing
  <2> QED BY <2>1, <2>2, <2>3
<1> QED BY <1>1, <1>2, <1>3 DEF Supervisor

(***************************************************************************)
(* The calls.                                                              *)
(***************************************************************************)
LEMMA RequestTyped ==
  ASSUME BoxInv, NEW r \in Requests,
         RequestStep(r) \/ \E a \in HwArms, what \in {"write", "home", "dry"} : Ask(r, a, what)
  PROVE  BoxTypeOK'
<1> USE DEF BoxInv, BoxTypeOK, managerVars, monitorVars, homingVars, Nothing, Goes, Answered,
     Release
<1>1. reqArm[r] \in HwArms \/ req[r] = "idle"
  BY DEF HomingInv
<1>2. CASE \E a \in HwArms, what \in {"write", "home", "dry"} : Ask(r, a, what)
  BY <1>2 DEF Ask
<1>3. CASE arm_maintenance(r)
  BY <1>3 DEF arm_maintenance
<1>4. CASE maintenance(r)
  BY <1>1, <1>4 DEF maintenance
<1>5. CASE _reserve(r)
  BY <1>1, <1>5 DEF _reserve
<1>6. CASE Preflight(r)
  BY <1>6 DEF Preflight
<1>7. CASE _request_reserved(r)
  <2>1. shown' \in [HwArms -> Plans \cup {NoPlan}] /\ job' \in [HwArms -> {Nothing, "queued",
       "pause", "join", "moving", "homing", "stop", "resume"}]
    BY <1>1, <1>7 DEF _request_reserved
  <2>2. pending' \subseteq HwArms /\ req' \in [Requests -> {"idle", "asked", "admitted",
       "reserved", "checked", "execute", "waiting"}]
        /\ reqArm' \in [Requests -> HwArms \cup {NoArm}] /\ reqOp' \in [Requests -> {Nothing,
             "write", "home", "dry"}]
    BY <1>1, <1>7 DEF _request_reserved
  <2> QED BY <1>7, <2>1, <2>2 DEF _request_reserved
<1>8. CASE home_rail_execute(r)
  BY <1>1, <1>8 DEF home_rail_execute
<1>9. CASE Outcome(r)
  BY <1>9 DEF Outcome
<1> QED BY <1>2, <1>3, <1>4, <1>5, <1>6, <1>7, <1>8, <1>9 DEF RequestStep

LEMMA RequestLocks ==
  ASSUME BoxInv, NEW r \in Requests,
         RequestStep(r) \/ \E a \in HwArms, what \in {"write", "home", "dry"} : Ask(r, a, what)
  PROVE  LockInv'
<1>1. UNCHANGED <<lock, creatingHw, session, rig>>
  BY DEF RequestStep, Ask, arm_maintenance, maintenance, _reserve, Preflight, _request_reserved,
         home_rail_execute, Outcome, managerVars
<1>2. \A a \in HwArms : OwnsBox(a)' => OwnsBox(a)
  BY DEF RequestStep, Ask, arm_maintenance, maintenance, _reserve, Preflight, _request_reserved,
         home_rail_execute, Outcome, homingVars, OwnsBox, BoxInv, BoxTypeOK
<1> QED BY <1>1, <1>2 DEF BoxInv, LockInv

(* A call that does not hold the cell yet, and begins to at most. *)
LEMMA AskingKeepsHoming ==
  ASSUME BoxInv, NEW r \in Requests,
         \/ arm_maintenance(r) \/ maintenance(r) \/ _reserve(r)
         \/ \E a \in HwArms, what \in {"write", "home", "dry"} : Ask(r, a, what)
  PROVE  HomingInv'
<1> USE DEF BoxInv, BoxTypeOK, Holds, homingVars, monitorVars, Goes, Answered, Nothing
<1>1. CASE \E a \in HwArms, what \in {"write", "home", "dry"} : Ask(r, a, what)
  BY <1>1 DEF Ask, HomingInv
<1>2. CASE arm_maintenance(r)
  BY <1>2 DEF arm_maintenance, HomingInv
<1>3. CASE maintenance(r)
  BY <1>3 DEF maintenance, HomingInv
<1>4. CASE _reserve(r)
  BY <1>4 DEF _reserve, Reservable, ActiveArms, HomingInv
<1> QED BY <1>1, <1>2, <1>3, <1>4

(* A call that does. *)
LEMMA HoldingKeepsHoming ==
  ASSUME BoxInv, NEW r \in Requests,
         Preflight(r) \/ _request_reserved(r) \/ home_rail_execute(r) \/ Outcome(r)
  PROVE  HomingInv'
<1> USE DEF BoxInv, BoxTypeOK, Holds, homingVars, monitorVars, Goes, Answered, Nothing, Release
<1>1. CASE Preflight(r)
  BY <1>1 DEF Preflight, home_rail_preflight, Busy, HomingInv
<1>2. CASE _request_reserved(r)
  BY <1>2 DEF _request_reserved, HomingInv
<1>3. CASE home_rail_execute(r)
  BY <1>3 DEF home_rail_execute, HomingInv
<1>4. CASE Outcome(r)
  BY <1>4 DEF Outcome, HomingInv
<1> QED BY <1>1, <1>2, <1>3, <1>4

(***************************************************************************)
(* The job.                                                                *)
(***************************************************************************)
LEMMA JobSteps ==
  ASSUME BoxInv, NEW a \in HwArms, JobStep(a)
  PROVE  BoxInv'
<1> USE DEF BoxInv, JobGoes, JobOnly, KeepsManager, managerVars, monitorVars, reqVars, Nothing
<1>1. CASE JobFails(a)
  <2>1. BoxTypeOK'
    BY <1>1 DEF JobFails, BoxTypeOK
  <2>2. LockInv'
    BY <1>1 DEF JobFails, LockInv, OwnsBox, BoxTypeOK
  <2>3. HomingInv'
    BY <1>1 DEF JobFails, HomingInv, Holds, BoxTypeOK
  <2> QED BY <2>1, <2>2, <2>3
<1>2. CASE _connect(a)
  <2>1. BoxTypeOK'
    BY <1>2 DEF _connect, BoxTypeOK
  <2>2. LockInv'
    BY <1>2 DEF _connect, LockInv, OwnsBox, BoxTypeOK, session_active
  <2>3. HomingInv'
    BY <1>2 DEF _connect, HomingInv, Holds, BoxTypeOK
  <2> QED BY <2>1, <2>2, <2>3
<1>3. CASE JobPauses(a)
  <2>1. BoxTypeOK'
    BY <1>3, ApplyTyped DEF JobPauses, BoxTypeOK
  <2>2. LockInv'
    BY <1>3 DEF JobPauses, LockInv, OwnsBox, BoxTypeOK
  <2>3. HomingInv'
    BY <1>3 DEF JobPauses, _apply_paused, HomingInv, Holds, BoxTypeOK
  <2> QED BY <2>1, <2>2, <2>3
<1>4. CASE JobJoins(a)
  <2>1. BoxTypeOK'
    BY <1>4 DEF JobJoins, BoxTypeOK
  <2>2. LockInv'
    BY <1>4 DEF JobJoins, LockInv, OwnsBox, BoxTypeOK
  <2>3. HomingInv'
    BY <1>4 DEF JobJoins, HomingInv, Holds, BoxTypeOK
  <2> QED BY <2>1, <2>2, <2>3
<1>5. CASE _execute_plan(a) \/ JobHomes(a) \/ _teardown(a)
  <2>1. BoxTypeOK'
    BY <1>5 DEF _execute_plan, JobHomes, _teardown, BoxTypeOK
  <2>2. LockInv'
    BY <1>5 DEF _execute_plan, JobHomes, _teardown, LockInv, OwnsBox, BoxTypeOK
  <2>3. HomingInv'
    BY <1>5 DEF _execute_plan, JobHomes, _teardown, HomingInv, Holds, BoxTypeOK
  <2> QED BY <2>1, <2>2, <2>3
<1>6. CASE _resume_monitor(a)
  <2>1. BoxTypeOK'
    BY <1>6, ApplyTyped, HandedOverBoolean DEF _resume_monitor, Resume, BoxTypeOK
  <2>2. LockInv'
    BY <1>6 DEF _resume_monitor, LockInv, OwnsBox, BoxTypeOK
  <2>3. HomingInv'
    BY <1>6 DEF _resume_monitor, Resume, _apply_paused, HomingInv, Holds, BoxTypeOK
  <2> QED BY <2>1, <2>2, <2>3
<1> QED BY <1>1, <1>2, <1>3, <1>4, <1>5, <1>6 DEF JobStep

(***************************************************************************)
(* The system.                                                             *)
(***************************************************************************)
LEMMA BoxStep == BoxInv /\ [BoxNext]_boxVars => BoxInv'
<1> SUFFICES ASSUME BoxInv, [BoxNext]_boxVars
             PROVE  BoxInv'
  OBVIOUS
<1>1. CASE Create \/ ManagerStep \/ teardown
  BY <1>1, ManagerTyped, ManagerLocks, ManagerKeepsHoming, HomingKept DEF BoxInv
<1>2. CASE Supervisor \/ \E a \in HwArms : OpEnds(a)
  BY <1>2, MonitorSteps
<1>3. ASSUME NEW a \in HwArms, JobStep(a)
      PROVE  BoxInv'
  BY <1>3, JobSteps
<1>4. ASSUME NEW r \in Requests,
             RequestStep(r) \/ \E a \in HwArms, what \in {"write", "home", "dry"} : Ask(r, a, what)
      PROVE  BoxInv'
  <2>1. BoxTypeOK' /\ LockInv'
    BY <1>4, RequestTyped, RequestLocks
  <2>2. HomingInv'
    BY <1>4, AskingKeepsHoming, HoldingKeepsHoming DEF RequestStep
  <2> QED BY <2>1, <2>2 DEF BoxInv
<1>5. CASE UNCHANGED boxVars
  BY <1>5 DEF boxVars, managerVars, monitorVars, homingVars, reqVars, BoxInv, BoxTypeOK, LockInv,
              HomingInv, OwnsBox, Holds
<1> QED BY <1>1, <1>2, <1>3, <1>4, <1>5 DEF BoxNext

(* The state of the boxes keeps its types, for every set of arms, calls    *)
(* and plans.                                                              *)
THEOREM BoxTypes == BoxSpec => []BoxTypeOK
<1>1. BoxInv => BoxTypeOK
  BY DEF BoxInv
<1> QED BY <1>1, BoxStart, BoxStep, PTL DEF BoxSpec

(* Whoever contends for the boxes, a session's drivers and a job's are     *)
(* never connected together, the predicate is up while any of them is, and *)
(* one carriage moves at most.                                             *)
THEOREM OneOwnerOfTheBoxes == BoxSpec => []OneOwner
BY BoxStart, BoxStep, BoxInvImplies, PTL DEF BoxSpec


(***************************************************************************)
(* The tracker's calibration.                                              *)
(***************************************************************************)
(* A session beside a flow has a call that will look once more. *)
SessionInv == sess = "up" /\ flowOn => \E p \in Posts : post[p] = "again"

LEMMA SessionInvStep ==
  ASSUME SessionInv, post \in [Posts -> {"idle", "create", "creating", "again"}], [CalNext]_calVars
  PROVE  SessionInv' /\ post' \in [Posts -> {"idle", "create", "creating", "again"}]
<1> USE DEF SessionInv
<1>1. CASE Commands
  <2>1. /\ UNCHANGED postVars
        /\ flowOn' => flowOn \/ sess = "none"
    <3>1. CASE BaseStart \/ BaseCapture \/ BaseValidate \/ BaseInstall \/ BaseAbort
      BY <3>1 DEF BaseStart, BaseCapture, BaseValidate, BaseInstall, BaseAbort, BaseFlow, Begin,
           _finish,
                  has_session
    <3>2. CASE YawStart \/ _capture_point \/ YawApply \/ YawAbort
      BY <3>2 DEF YawStart, _capture_point, YawApply, YawAbort, Begin, _finish, has_session
    <3> QED BY <1>1, <3>1, <3>2 DEF Commands
  <2> QED BY <2>1 DEF postVars
<1>2. CASE WorkerStep
  <2>1. /\ UNCHANGED postVars
        /\ flowOn' => flowOn
    <3>1. CASE _fail \/ _bs_tick
      BY <3>1, Zenon DEF _fail, _bs_tick, _finish
    <3>5. CASE Restore
      BY <3>5, Zenon DEF Restore, KeepsFlow, flowVars
    <3>4. CASE PopJob
      BY <3>4, Zenon DEF PopJob, KeepsFlow, flowVars
    <3>2. CASE InstallStops \/ InstallWrites \/ InstallUndone \/ InstallEnds
      BY <3>2 DEF InstallStops, InstallWrites, InstallUndone, InstallEnds, KeepsFlow, flowVars,
           _finish
    <3>3. ASSUME NEW a \in Modes, RestartJob(a) \/ StartJob(a)
          PROVE  UNCHANGED postVars /\ (flowOn' => flowOn)
      <4>1. CASE RestartJob(a)
        BY <4>1, Zenon DEF RestartJob, KeepsFlow, flowVars
      <4>2. CASE StartJob(a)
        BY <4>2, Zenon DEF StartJob, flowVars
      <4> QED BY <3>3, <4>1, <4>2
    <3> QED BY <1>2, <3>1, <3>2, <3>3, <3>4, <3>5 DEF WorkerStep
  <2> QED BY <2>1 DEF postVars
<1>3. CASE ReaderEnds \/ PoseArrives \/ UNCHANGED calVars
  BY <1>3 DEF ReaderEnds, PoseArrives, calVars, flowVars, postVars
<1>4. CASE EndOfSession
  BY <1>4 DEF EndOfSession
<1>5. ASSUME NEW p \in Posts, PostCheck(p) \/ PostCreate(p)
      PROVE  SessionInv' /\ post' \in [Posts -> {"idle", "create", "creating", "again"}]
  BY <1>5 DEF PostCheck, PostCreate, PostGoes, PostOnly, flowVars
<1>6. ASSUME NEW p \in Posts, PostCreated(p) \/ PostAgain(p)
      PROVE  SessionInv' /\ post' \in [Posts -> {"idle", "create", "creating", "again"}]
  BY <1>6 DEF PostCreated, PostAgain, PostGoes, PostOnly, flowVars
<1> QED BY <1>1, <1>2, <1>3, <1>4, <1>5, <1>6 DEF CalNext

(* The reader's handle is there as long as its context is. *)
ReaderInv == (handle /\ contexts = 1) \/ (~ handle /\ contexts = 0)

LEMMA ReaderOps ==
  ASSUME ReaderInv
  PROVE  /\ StopsReader => ~ handle' /\ contexts' = 0
         /\ StopTimesOut => UNCHANGED <<handle, contexts>>
         /\ \A a : Restarts(a) => handle' /\ contexts' = 1
<1>1. StopTimesOut => UNCHANGED <<handle, contexts>>
  BY Zenon DEF StopTimesOut, KeepsHandle
<1>2. CASE handle /\ contexts = 1
  <2>1. StopsReader => ~ handle' /\ contexts' = contexts - 1
    BY <1>2, Zenon DEF StopsReader
  <2>2. \A a : Restarts(a) => handle' /\ contexts' = contexts + 0
    BY <1>2, Zenon DEF Restarts
  <2>3. contexts - 1 = 0 /\ contexts + 0 = 1
    BY <1>2
  <2> QED BY <1>1, <2>1, <2>2, <2>3, Zenon
<1>3. CASE ~ handle /\ contexts = 0
  BY <1>1, <1>3 DEF StopsReader, Restarts
<1> QED BY <1>2, <1>3 DEF ReaderInv

LEMMA ReaderInvStep == ReaderInv /\ [CalNext]_calVars => ReaderInv'
<1> SUFFICES ASSUME ReaderInv, [CalNext]_calVars PROVE ReaderInv'
  OBVIOUS
<1> USE DEF ReaderInv
<1>1. CASE UNCHANGED readerVars
  BY <1>1 DEF readerVars
<1>2. CASE Commands
  <2>1. CASE BaseStart \/ BaseCapture \/ BaseValidate \/ BaseInstall \/ BaseAbort
    BY <1>1, <2>1 DEF BaseStart, BaseCapture, BaseValidate, BaseInstall, BaseAbort
  <2>2. CASE YawStart \/ _capture_point \/ YawApply \/ YawAbort
    BY <1>1, <2>2 DEF YawStart, _capture_point, YawApply, YawAbort
  <2> QED BY <1>2, <2>1, <2>2 DEF Commands
<1>3. CASE WorkerStep
  <2>1. CASE PopJob \/ _fail \/ _bs_tick \/ InstallWrites
    BY <1>1, <2>1 DEF PopJob, _fail, _bs_tick, InstallWrites
  <2>2. CASE Restore \/ InstallStops
    <3>1. Restore => StopTimesOut \/ (handle' /\ contexts' = contexts + (IF handle THEN 0 ELSE 1))
      BY Zenon DEF Restore
    <3>3. contexts' = contexts + (IF handle THEN 0 ELSE 1) => contexts' = 1
      OBVIOUS
    <3>2. InstallStops => StopsReader \/ StopTimesOut
      BY DEF InstallStops
    <3> QED BY <2>2, <3>1, <3>2, <3>3, ReaderOps
  <2>3. CASE InstallUndone \/ InstallEnds
    <3>1. Restarts("normal") \/ UNCHANGED readerVars
      BY <2>3 DEF InstallUndone, InstallEnds
    <3> QED BY <1>1, <3>1, ReaderOps
  <2>4. ASSUME NEW a \in Modes, RestartJob(a) \/ StartJob(a) PROVE ReaderInv'
    <3>1. StopsReader \/ StopTimesOut \/ Restarts(a)
      BY <2>4, Zenon DEF RestartJob, StartJob
    <3> QED BY <3>1, ReaderOps
  <2> QED BY <1>3, <2>1, <2>2, <2>3, <2>4 DEF WorkerStep
<1>4. CASE ReaderEnds
  <2>1. contexts = 1
    BY <1>4 DEF ReaderEnds
  <2> QED BY <1>4, <2>1 DEF ReaderEnds
<1>5. CASE PoseArrives \/ EndOfSession \/ UNCHANGED calVars
  BY <1>1, <1>5 DEF PoseArrives, EndOfSession, PostOnly, calVars
<1>6. ASSUME NEW p \in Posts, PostCheck(p) \/ PostCreate(p) \/ PostCreated(p) \/ PostAgain(p)
      PROVE  ReaderInv'
  BY <1>1, <1>6 DEF PostCheck, PostCreate, PostCreated, PostAgain, PostOnly
<1> QED BY <1>2, <1>3, <1>4, <1>5, <1>6 DEF CalNext

CalInv == SessionInv /\ post \in [Posts -> {"idle", "create", "creating", "again"}] /\ ReaderInv

LEMMA CalStart == CalInit => CalInv
BY DEF CalInit, CalInv, SessionInv, ReaderInv

LEMMA CalStep == CalInv /\ [CalNext]_calVars => CalInv'
BY SessionInvStep, ReaderInvStep DEF CalInv

(* A session that was answered for and a calibration never run together,   *)
(* for every set of calls in any order.                                    *)
THEOREM SessionsAndFlowsExclude == CalSpec => []GuardsExclude
<1>1. CalInv => GuardsExclude
  BY DEF CalInv, SessionInv, GuardsExclude
<1> QED BY <1>1, CalStart, CalStep, PTL DEF CalSpec

(* A second context of the receiver is never opened. *)
THEOREM OneReaderContext == CalSpec => []OneContext
<1>1. CalInv => OneContext
  BY DEF CalInv, ReaderInv, OneContext
<1> QED BY <1>1, CalStart, CalStep, PTL DEF CalSpec

(***************************************************************************)
(* The clutch.                                                             *)
(***************************************************************************)
CluTypes ==
  /\ hand \in Places /\ live \in BOOLEAN /\ clutchHeld \in BOOLEAN /\ onThis \in BOOLEAN
  /\ setting \in Settings /\ applied \in Settings
  /\ engagedArm \in {"none", "this", "other"} /\ clutchArm \in {"none", "this", "other"}
  /\ filt \in Int /\ aTrk \in Int /\ aEe \in Int /\ intent \in Int
  /\ tgt \in Int /\ cmd \in Int /\ meas \in Int
  /\ seeded \in BOOLEAN /\ was \in BOOLEAN

(* Anchors and a seed are those of the arm the clutch was held on at the   *)
(* last tick.                                                              *)
PressInv ==
  /\ engagedArm = "this" => was
  /\ ~ was => clutchArm # "this" \/ ~ seeded

(* While the hand is still the target stays, and the anchors make just     *)
(* that target of where the hand is, under the settings applied last.      *)
StillInv ==
  since # {} =>
    /\ was /\ seeded /\ clutchArm = "this" /\ since = {tgt}
    /\ engagedArm = "this" => /\ filt = applied.yaw * hand /\ intent = tgt
                              /\ aEe + applied.scale * (filt - aTrk) = tgt

CluInv == CluTypes /\ PressInv /\ StillInv

LEMMA PlacesAreInt == Places \subseteq Int
BY ClutchAssumption DEF Places

LEMMA SettingsTyped == \A c \in Settings : c.scale \in Int /\ c.yaw \in {1, -1}
BY ClutchAssumption

LEMMA NearTyped ==
  ASSUME NEW x \in Int, NEW c \in Int, NEW d \in Nat
  PROVE  Near(x, c, d) \in Int /\ Near(c, c, d) = c
BY DEF Near, ClampTo

LEMMA AlignedIsPlace ==
  ASSUME CluTypes
  PROVE  Aligned \in Places
<1>1. hand \in -Reach..Reach /\ Reach \in Nat /\ setting.yaw \in {1, -1}
  BY ClutchAssumption, SettingsTyped DEF CluTypes, Places
<1>2. CASE setting.yaw = 1
  BY <1>1, <1>2 DEF Aligned, Places
<1>3. CASE setting.yaw = -1
  BY <1>1, <1>3 DEF Aligned, Places
<1> QED BY <1>1, <1>2, <1>3

LEMMA CluStart == CluInit => CluInv
<1> SUFFICES ASSUME CluInit PROVE CluInv
  OBVIOUS
<1>1. 0 \in Places
  BY ClutchAssumption DEF Places
<1>2. 0 \in Int /\ {0} \subseteq Int
  OBVIOUS
<1>3. CluTypes
  BY <1>1, <1>2 DEF CluInit, CluTypes
<1> QED BY <1>3 DEF CluInit, CluInv, PressInv, StillInv

(* What the provider makes of the hand.                                    *)
LEMMA FilteredTyped ==
  ASSUME CluTypes, NEW f \in Filtered("this")
  PROVE  f \in Int
BY AlignedIsPlace, PlacesAreInt DEF Filtered, Between

(* A press begins at the target it is given.                               *)
LEMMA EngagingHolds ==
  ASSUME CluTypes, NEW f \in Int, NEW from \in Int, NEW d \in Int, Engaging("this"),
         Near(from, meas, Leash) = from
  PROVE  LET t == Target("this", f, from, d)
         IN  t.trk = f /\ t.ee = from /\ t.to = from
<1>1. setting.scale \in Int
  BY SettingsTyped DEF CluTypes
<1>2. setting.scale * (f - f) = 0
  BY <1>1
<1>3. Anchors("this", f).trk = f
  BY DEF Anchors
<1>4. from + setting.scale * (f - f) = from
  BY <1>2
<1> QED BY <1>3, <1>4 DEF Target

(* A hand that is followed and still: the target is where it was, whatever *)
(* the settings have become.                                               *)
LEMMA StillFollowed ==
  ASSUME CluTypes, NEW f \in Filtered("this"), NEW d \in Int, ~ Engaging("this"),
         filt = applied.yaw * hand, intent = tgt, aEe + applied.scale * (filt - aTrk) = tgt,
         Near(tgt + d, meas, Leash) = tgt + d
  PROVE  LET t == Target("this", f, tgt + d, d)
         IN  /\ t.to = tgt + d /\ f = setting.yaw * hand
             /\ t.trk \in Int /\ t.ee \in Int /\ t.ee + setting.scale * (f - t.trk) = tgt + d
<1> DEFINE a == Anchors("this", f)
           raw == a.ee + d + setting.scale * (f - a.trk)
<1>1. /\ setting.scale \in Int /\ setting.yaw \in {1, -1} /\ applied.scale \in Int /\ f \in Int
      /\ applied.yaw \in {1, -1}
      /\ d \in Int /\ tgt \in Int /\ aEe \in Int /\ aTrk \in Int /\ intent \in Int /\ hand \in Int
  BY SettingsTyped, FilteredTyped, PlacesAreInt DEF CluTypes
<1>2. f = setting.yaw * hand
  <2>1. CASE setting.yaw # applied.yaw
    BY <2>1 DEF Filtered, Aligned
  <2>2. CASE setting.yaw = applied.yaw
    <3>1. f \in Between(Aligned, Aligned) /\ Aligned \in Int
      BY <2>2, AlignedIsPlace, PlacesAreInt DEF Filtered, Aligned
    <3>2. f = Aligned
      BY <1>1, <3>1 DEF Between
    <3> QED BY <3>2 DEF Aligned
  <2> QED BY <2>1, <2>2
<1>3. a.ee \in Int /\ a.trk \in Int /\ raw = tgt + d
  <2>1. CASE changed
    <3>1. a.ee = tgt /\ a.trk = f
      BY <2>1 DEF Anchors
    <3>2. setting.scale * (f - f) = 0
      BY <1>1
    <3> QED BY <1>1, <3>1, <3>2
  <2>2. CASE ~ changed
    <3>1. setting = applied /\ f = filt
      BY <1>2, <2>2 DEF changed
    <3>2. a.ee = aEe /\ a.trk = aTrk
      BY <2>2 DEF Anchors
    <3>3. a.ee + setting.scale * (f - a.trk) = tgt
      BY <3>1, <3>2
    <3>4. setting.scale * (f - a.trk) \in Int
      BY <1>1, <3>2
    <3> QED BY <1>1, <3>2, <3>3, <3>4
  <2> QED BY <2>1, <2>2
<1> HIDE DEF a, raw
<1>4. /\ Target("this", f, tgt + d, d).trk = a.trk
      /\ Target("this", f, tgt + d, d).to = Near(raw, meas, Leash)
      /\ Target("this", f, tgt + d, d).ee = a.ee + d + Near(raw, meas, Leash) - raw
  BY DEF Target, a, raw
<1>5. /\ Target("this", f, tgt + d, d).to = tgt + d
      /\ Target("this", f, tgt + d, d).ee = a.ee + d + (tgt + d) - (tgt + d)
  BY <1>3, <1>4
<1>6. Target("this", f, tgt + d, d).ee = a.ee + d
  BY <1>1, <1>3, <1>5
<1>7. a.ee + d + setting.scale * (f - a.trk) = tgt + d
  BY <1>3 DEF raw
<1> QED BY <1>1, <1>2, <1>3, <1>4, <1>5, <1>6, <1>7

LEMMA FollowStep ==
  ASSUME CluInv, NEW d \in {-1, 0, 1}, Follow(d)
  PROVE  CluInv'
<1> DEFINE from == SeededAt + d
           t == Target("this", filt', from, d)
           to == Near(t.to, from, Rate)
           stay == IF ~ was THEN {meas + d}
                   ELSE IF Engaging("this") THEN {from} ELSE {p + d : p \in since}
<1>1. CluTypes /\ PressInv /\ StillInv
  BY DEF CluInv
<1>2. /\ clutchArm' = "this" /\ seeded' = TRUE /\ applied' = setting /\ engagedArm' = "this"
      /\ filt' \in Filtered("this") /\ aTrk' = t.trk /\ was' = TRUE
      /\ {cmd', tgt', aEe', intent'} \subseteq Places
      /\ UNCHANGED <<hand, live, clutchHeld, setting, onThis, meas>>
  BY DEF Follow, handVars
<1>3. since' # {} => /\ tgt' = to /\ aEe' = t.ee /\ intent' = t.to
                     /\ Near(from, meas, Leash) = from /\ since' = stay
  BY DEF Follow
<1>4. from \in Int /\ d \in Int /\ filt' \in Int /\ setting.scale \in Int
      /\ meas \in Int /\ tgt \in Int /\ aTrk \in Int
  BY <1>1, <1>2, FilteredTyped, SettingsTyped DEF CluTypes, SeededAt
<1>5. aTrk' \in Int
  BY <1>2, <1>4 DEF Target, Anchors
<1>6. CluTypes'
  <2>1. {cmd', tgt', aEe', intent', filt', aTrk', meas'} \subseteq Int
    BY <1>2, <1>4, <1>5, PlacesAreInt
  <2> QED BY <1>1, <1>2, <2>1 DEF CluTypes
<1>7. PressInv'
  BY <1>2 DEF PressInv
<1>8. ASSUME since' # {}
      PROVE  /\ since' = {tgt'} /\ filt' = setting.yaw * hand /\ intent' = tgt'
             /\ aEe' + setting.scale * (filt' - aTrk') = tgt'
  <2>1. to = from => tgt' = from
    BY <1>3, <1>8
  <2>2. CASE Engaging("this")
    <3>1. t.trk = filt' /\ t.ee = from /\ t.to = from
      BY <1>1, <1>3, <1>4, <1>8, <2>2, EngagingHolds
    <3>2. to = from
      BY <1>4, <3>1, NearTyped, ClutchAssumption
    <3>3. filt' = setting.yaw * hand
      BY <1>2, <2>2 DEF Filtered, Aligned
    <3>4. stay = {from}
      <4>1. CASE was
        BY <2>2, <4>1
      <4>2. CASE ~ was
        BY <1>1, <4>2 DEF PressInv, SeededAt, Pressed
      <4> QED BY <4>1, <4>2
    <3>5. from + setting.scale * (filt' - filt') = from
      <4>1. setting.scale * (filt' - filt') = 0
        BY <1>4
      <4> QED BY <1>4, <4>1
    <3> HIDE DEF from, t, to, stay
    <3> QED BY <1>2, <1>3, <1>8, <2>1, <3>1, <3>2, <3>3, <3>4, <3>5
  <2>3. CASE ~ Engaging("this")
    <3>1. engagedArm = "this" /\ was
      BY <1>1, <2>3 DEF Engaging, PressInv
    <3>2. since' = {p + d : p \in since}
      BY <1>3, <1>8, <2>3, <3>1
    <3>3. since # {}
      BY <1>8, <3>2
    <3>4. /\ seeded /\ clutchArm = "this" /\ since = {tgt} /\ filt = applied.yaw * hand
          /\ intent = tgt /\ aEe + applied.scale * (filt - aTrk) = tgt
      BY <1>1, <3>1, <3>3 DEF StillInv
    <3>5. from = tgt + d
      BY <3>4 DEF SeededAt, Pressed
    <3>6. since' = {from}
      BY <3>2, <3>4, <3>5
    <3>7. Near(tgt + d, meas, Leash) = tgt + d
      BY <1>3, <1>8, <3>5
    <3>8. LET u == Target("this", filt', tgt + d, d)
          IN  /\ u.to = tgt + d /\ filt' = setting.yaw * hand
              /\ u.ee + setting.scale * (filt' - u.trk) = tgt + d
      BY <1>1, <1>2, <1>4, <2>3, <3>4, <3>7, StillFollowed
    <3>9. /\ t.to = from /\ filt' = setting.yaw * hand
          /\ t.ee + setting.scale * (filt' - t.trk) = from
      BY <3>5, <3>8
    <3> HIDE DEF from, t
    <3>10. to = from
      BY <1>4, <3>9, NearTyped, ClutchAssumption
    <3> HIDE DEF to
    <3> QED BY <1>2, <1>3, <1>8, <2>1, <3>6, <3>9, <3>10
  <2> QED BY <2>2, <2>3
<1>9. StillInv'
  BY <1>2, <1>8 DEF StillInv
<1> QED BY <1>6, <1>7, <1>9 DEF CluInv

LEMMA GapStep ==
  ASSUME CluInv, NEW d \in {-1, 0, 1}, Gap(d)
  PROVE  CluInv'
<1>1. CluTypes /\ PressInv /\ StillInv
  BY DEF CluInv
<1>2. /\ engagedArm' = "none" /\ clutchArm' = "this" /\ seeded' = (d = 0) /\ was' = TRUE
      /\ applied' = applied /\ filt' = 0 /\ aTrk' = 0 /\ aEe' = 0 /\ intent' = 0
      /\ {tgt', cmd'} \subseteq Places /\ tgt' = SeededAt + d
      /\ since' = IF d # 0 THEN {} ELSE IF was THEN since ELSE {meas}
      /\ UNCHANGED <<hand, live, clutchHeld, setting, onThis, meas>>
  BY DEF Gap, release, handVars
<1>3. CluTypes'
  <2>1. /\ filt' \in Int /\ aTrk' \in Int /\ aEe' \in Int /\ intent' \in Int
        /\ tgt' \in Int /\ cmd' \in Int /\ meas' \in Int
    <3>1. tgt' \in Int /\ cmd' \in Int
      BY <1>2, PlacesAreInt
    <3>2. filt' = 0 /\ aTrk' = 0 /\ aEe' = 0 /\ intent' = 0 /\ meas' = meas
      BY <1>2
    <3> QED BY <1>1, <3>1, <3>2 DEF CluTypes
  <2>2. seeded' \in BOOLEAN
    BY <1>2
  <2> QED BY <1>1, <1>2, <2>1, <2>2 DEF CluTypes
<1>4. PressInv'
  BY <1>2 DEF PressInv
<1>5. ASSUME since' # {} PROVE seeded' /\ since' = {tgt'}
  <2>1. d = 0 /\ tgt' = SeededAt
    BY <1>1, <1>2, <1>5 DEF CluTypes, SeededAt
  <2>2. CASE was
    <3>1. since' = since /\ since # {}
      BY <1>2, <1>5, <2>1, <2>2
    <3>2. SeededAt = tgt /\ since = {tgt}
      BY <1>1, <3>1 DEF StillInv, SeededAt, Pressed
    <3> QED BY <1>2, <2>1, <3>1, <3>2
  <2>3. CASE ~ was
    <3>1. SeededAt = meas
      BY <1>1, <2>3 DEF PressInv, SeededAt, Pressed
    <3> QED BY <1>2, <2>1, <2>3, <3>1
  <2> QED BY <2>2, <2>3
<1>6. StillInv'
  BY <1>2, <1>5 DEF StillInv
<1> QED BY <1>3, <1>4, <1>6 DEF CluInv

LEMMA CluStep == CluInv /\ [CluNext]_cluVars => CluInv'
<1> SUFFICES ASSUME CluInv, [CluNext]_cluVars PROVE CluInv'
  OBVIOUS
<1>0. CluTypes /\ PressInv /\ StillInv
  BY DEF CluInv
<1> USE DEF anchorVars, seedVars, handVars
<1>1. CASE MoveHand
  <2>1. /\ hand' \in Places /\ since' = IF engagedArm = "this" THEN {} ELSE since
        /\ UNCHANGED <<live, clutchHeld, setting, onThis, applied, anchorVars, seedVars, cmd,
             meas, was>>
    BY <1>1 DEF MoveHand
  <2>2. CluTypes' /\ PressInv'
    BY <1>0, <2>1 DEF CluTypes, PressInv
  <2>3. StillInv'
    BY <1>0, <2>1 DEF StillInv
  <2> QED BY <2>2, <2>3 DEF CluInv
<1>2. CASE StreamTurns \/ ClutchTurns \/ _op_tracker_settings
  <2>1. /\ live' \in BOOLEAN /\ clutchHeld' \in BOOLEAN /\ setting' \in Settings
        /\ since' \in {{}, since}
        /\ UNCHANGED <<hand, onThis, applied, anchorVars, seedVars, cmd, meas, was>>
    BY <1>0, <1>2 DEF StreamTurns, ClutchTurns, _op_tracker_settings, CluTypes
  <2>2. CluTypes' /\ PressInv'
    BY <1>0, <2>1 DEF CluTypes, PressInv
  <2>3. StillInv'
    BY <1>0, <2>1 DEF StillInv
  <2> QED BY <2>2, <2>3 DEF CluInv
<1>3. CASE _activate_arm
  <2>1. /\ onThis' \in BOOLEAN /\ since' = {} /\ seeded' \in {FALSE, seeded}
        /\ engagedArm' = "none" /\ filt' = 0 /\ aTrk' = 0 /\ aEe' = 0 /\ intent' = 0
        /\ UNCHANGED <<hand, live, clutchHeld, setting, applied, tgt, clutchArm, cmd, meas, was>>
    BY <1>3 DEF _activate_arm, release
  <2>2. CluTypes'
    <3>1. /\ filt' \in Int /\ aTrk' \in Int /\ aEe' \in Int /\ intent' \in Int
          /\ tgt' \in Int /\ cmd' \in Int /\ meas' \in Int
      BY <1>0, <2>1 DEF CluTypes
    <3>2. seeded' \in BOOLEAN /\ was' \in BOOLEAN
      BY <1>0, <2>1, Zenon DEF CluTypes
    <3> QED BY <1>0, <2>1, <3>1, <3>2 DEF CluTypes
  <2>3. PressInv'
    <3>1. ~ was => clutchArm # "this" \/ ~ seeded
      BY <1>0 DEF PressInv
    <3>2. was' = was /\ clutchArm' = clutchArm /\ (seeded' = FALSE \/ seeded' = seeded)
      BY <2>1
    <3>3. ~ was' => clutchArm' # "this" \/ ~ seeded'
      BY <3>1, <3>2, Zenon
    <3> QED BY <2>1, <3>3 DEF PressInv
  <2> QED BY <2>1, <2>2, <2>3 DEF CluInv, StillInv
<1>4. CASE ArmFollows \/ ArmDrifts
  <2>1. /\ meas' \in Int
        /\ UNCHANGED <<handVars, applied, anchorVars, seedVars, cmd, was, since>>
    BY <1>4, PlacesAreInt DEF ArmFollows, ArmDrifts, Between
  <2>2. CluTypes' /\ PressInv'
    BY <1>0, <2>1 DEF CluTypes, PressInv
  <2>3. StillInv'
    BY <1>0, <2>1 DEF StillInv
  <2> QED BY <2>2, <2>3 DEF CluInv
<1>5. CASE OtherMotion
  <2>1. /\ cmd' \in Int /\ meas' \in Int /\ seeded' = FALSE /\ since' = {} /\ was' \in BOOLEAN
        /\ engagedArm' = "none" /\ filt' = 0 /\ aTrk' = 0 /\ aEe' = 0 /\ intent' = 0
        /\ clutchArm' \in {clutchArm, "none"}
        /\ UNCHANGED <<hand, live, clutchHeld, setting, onThis, applied, tgt>>
    BY <1>0, <1>5, PlacesAreInt DEF OtherMotion, release, CluTypes
  <2>2. CluTypes'
    <3>1. /\ filt' \in Int /\ aTrk' \in Int /\ aEe' \in Int /\ intent' \in Int
          /\ tgt' \in Int /\ cmd' \in Int /\ meas' \in Int
      BY <1>0, <2>1 DEF CluTypes
    <3>2. seeded' \in BOOLEAN /\ was' \in BOOLEAN
      BY <1>0, <2>1, Zenon DEF CluTypes
    <3> QED BY <1>0, <2>1, <3>1, <3>2 DEF CluTypes
  <2> QED BY <2>1, <2>2 DEF CluInv, PressInv, StillInv
<1>6. CASE TickOnOther
  <2>1. /\ clutchArm' \in {"other", "none"} /\ engagedArm' \in {"other", "none"}
        /\ filt' = 0 /\ aTrk' = 0 /\ aEe' = 0 /\ intent' = 0
        /\ applied' = setting /\ was' = FALSE /\ since' = {}
        /\ UNCHANGED <<hand, live, clutchHeld, setting, onThis, tgt, seeded, cmd, meas>>
    BY <1>6 DEF TickOnOther, release
  <2>2. CluTypes'
    <3>1. /\ filt' \in Int /\ aTrk' \in Int /\ aEe' \in Int /\ intent' \in Int
          /\ tgt' \in Int /\ cmd' \in Int /\ meas' \in Int
      BY <1>0, <2>1 DEF CluTypes
    <3>2. seeded' \in BOOLEAN /\ was' \in BOOLEAN
      BY <1>0, <2>1, Zenon DEF CluTypes
    <3> QED BY <1>0, <2>1, <3>1, <3>2 DEF CluTypes
  <2> QED BY <2>1, <2>2 DEF CluInv, PressInv, StillInv
<1>7. ASSUME NEW d \in {-1, 0, 1}, Unclutched(d) PROVE CluInv'
  <2>1. /\ clutchArm' = "none" /\ engagedArm' = "none"
        /\ filt' = 0 /\ aTrk' = 0 /\ aEe' = 0 /\ intent' = 0
        /\ applied' = setting /\ was' = FALSE /\ since' = {}
        /\ UNCHANGED <<hand, live, clutchHeld, setting, onThis, meas>>
    BY <1>7 DEF Unclutched, release
  <2>2. tgt' \in Int /\ cmd' \in Int /\ seeded' \in BOOLEAN
    BY <1>0, <1>7, PlacesAreInt DEF Unclutched, CluTypes
  <2>3. CluTypes'
    <3>1. /\ filt' \in Int /\ aTrk' \in Int /\ aEe' \in Int /\ intent' \in Int
          /\ tgt' \in Int /\ cmd' \in Int /\ meas' \in Int
      BY <1>0, <2>1, <2>2 DEF CluTypes
    <3> QED BY <1>0, <2>1, <2>2, <3>1 DEF CluTypes
  <2> QED BY <2>1, <2>3 DEF CluInv, PressInv, StillInv
<1>8. CASE UNCHANGED cluVars
  <2>1. CluTypes' /\ PressInv'
    BY <1>0, <1>8 DEF CluTypes, PressInv, cluVars
  <2>2. StillInv'
    BY <1>0, <1>8 DEF StillInv, cluVars
  <2> QED BY <2>1, <2>2 DEF CluInv
<1> QED BY <1>1, <1>2, <1>3, <1>4, <1>5, <1>6, <1>7, <1>8, FollowStep, GapStep DEF CluNext

(* While the clutch is held and the followed hand is still, the arm's      *)
(* target stays, for every settings, leash and rate and through every      *)
(* change of the settings, gap of the stream, other arm and other motion.  *)
THEOREM StillHandHoldsTarget == CluSpec => []StillHandStays
<1>1. CluInv => StillHandStays
  BY DEF CluInv, StillInv, StillHandStays
<1> QED BY <1>1, CluStart, CluStep, PTL DEF CluSpec

(***************************************************************************)
(* The sweep of a path (rail_sweep.py): with its running reference it      *)
(* accepts exactly the safe paths, of any length, over any positions of    *)
(* the rail and pairs; by induction on the configurations checked.         *)
(***************************************************************************)
(* The state of the check, and what it passes on at each configuration. *)
Accs == [clear : BOOLEAN, wl : [Rails -> [Pairs -> Distances \cup {NoRef}]]]

(* Checking a configuration keeps the type. *)
LEMMA CheckConfigType ==
  ASSUME NEW acc \in Accs, NEW c \in Configs
  PROVE  CheckConfig(acc, c) \in Accs
<1>1. ASSUME NEW r \in Distances \cup {NoRef}, NEW d \in Distances
      PROVE  Raised(r, d) \in Distances \cup {NoRef}
  BY DEF Raised, Reference
<1> QED
  BY <1>1 DEF Accs, CheckConfig, Configs

LEMMA WhitelistType ==
  ASSUME NEW c \in Configs
  PROVE  [clear |-> TRUE, wl |-> Whitelist(c)] \in Accs
<1>1. ASSUME NEW d \in Distances
      PROVE  Reference(d) \in Distances \cup {NoRef}
  BY DEF Reference
<1> QED
  BY <1>1 DEF Accs, Whitelist, Configs

(* A run of the check over a path. *)
Passes(f, path) ==
  /\ f \in [0..Len(path) -> Accs]
  /\ f[0] = [clear |-> TRUE, wl |-> Whitelist(path[1])]
  /\ \A n \in 1..Len(path) : f[n] = CheckConfig(f[n - 1], path[n])

(* Its first state, and what a configuration makes of a state. *)
FirstPass(path) == [clear |-> TRUE, wl |-> Whitelist(path[1])]
SweepPass(path) == [p \in (1..Len(path)) \X Accs |-> CheckConfig(p[2], path[p[1]])]

(* The check is such a run. *)
LEMMA PathChecked ==
  ASSUME NEW path \in Seq(Configs), path # <<>>
  PROVE  \E f : Passes(f, path) /\ check_path(path) = f[Len(path)].clear
<1> DEFINE N == Len(path)
           x0 == FirstPass(path)
           G == SweepPass(path)
           Body(f) == [n \in 0..N |-> IF n = 0 THEN x0 ELSE CheckConfig(f[n - 1], path[n])]
           upto == CHOOSE f : f = Body(f)
<1>1. N \in Nat /\ path[1] \in Configs /\ \A n \in 1..N : path[n] \in Configs
  OBVIOUS
<1>2. x0 \in Accs
  BY <1>1, WhitelistType DEF FirstPass
<1>3. G \in [(1..N) \X Accs -> Accs]
  BY <1>1, CheckConfigType DEF SweepPass
<1>4. PICK f \in [0..N -> Accs] : f[0] = x0 /\ \A k \in 1..N : f[k] = G[<<k, f[k - 1]>>]
  <2>1. HasRun(N, Accs, x0, G)
    BY <1>1, <1>2, <1>3, LoopRuns
  <2> QED
    BY <2>1, Zenon DEF HasRun
<1>5. ASSUME NEW k \in 1..N
      PROVE  k - 1 \in 0..N /\ G[<<k, f[k - 1]>>] = CheckConfig(f[k - 1], path[k])
  <2>1. k - 1 \in 0..N
    BY <1>1
  <2> QED
    BY <2>1 DEF SweepPass
<1>6. f = Body(f)
  <2> HIDE DEF x0, G
  <2> QED
    BY <1>4, <1>5
<1>7. upto = Body(upto)
  BY <1>6, Zenon
<1>8. check_path(path) = upto[N].clear
  BY DEF check_path, FirstPass
<1>9. upto[0] = x0 /\ \A n \in 1..N : upto[n] = CheckConfig(upto[n - 1], path[n])
  <2> HIDE DEF x0, upto
  <2> QED
    BY <1>1, <1>7
<1>10. upto \in [0..N -> Accs]
  <2> HIDE DEF x0, upto, N
  <2> DEFINE S == {n \in Nat : n <= N => upto[n] \in Accs}
  <2>1. 0 \in S
    BY <1>2, <1>9
  <2>2. ASSUME NEW n \in Nat, n \in S
        PROVE  n + 1 \in S
    <3> SUFFICES ASSUME n + 1 <= N
                 PROVE  upto[n + 1] \in Accs
      OBVIOUS
    <3>1. n + 1 \in 1..N /\ (n + 1) - 1 = n /\ upto[n] \in Accs
      BY <1>1, <2>2
    <3> QED
      BY <1>1, <1>9, <3>1, CheckConfigType
  <2>3. Nat \subseteq S
    <3> HIDE DEF S
    <3> QED
      BY <2>1, <2>2, NatSetInduction
  <2>4. \A n \in 0..N : upto[n] \in Accs
    BY <1>1, <2>3
  <2>5. upto = [n \in 0..N |-> upto[n]]
    BY <1>7, Zenon
  <2> QED
    BY <2>4, <2>5
<1>11. Passes(upto, path)
  <2> HIDE DEF upto
  <2> QED
    BY <1>9, <1>10 DEF Passes, FirstPass
<1> QED
  <2> HIDE DEF upto
  <2> QED
    BY <1>8, <1>11

(* What a pair owes at the j-th of the configurations d, and the running   *)
(* reference after m of them: the largest distance, if every one violated. *)
OwedAt(d, j) ==
  Violated(d[j]) => d[j] > 0 /\ \A i \in 1..j : Violated(d[i]) /\ d[j] >= d[i] - Tol

Tracks(ref, d, m) ==
  IF \A i \in 1..m : Violated(d[i])
  THEN ref \in Int /\ (\A i \in 1..m : d[i] <= ref) /\ \E i \in 1..m : d[i] = ref
  ELSE ref = NoRef

(* The whitelist is the reference of the start alone. *)
LEMMA FirstReference ==
  ASSUME NEW d, d[1] \in Distances
  PROVE  Tracks(Reference(d[1]), d, 1)
<1>1. \A i \in 1..1 : i = 1
  OBVIOUS
<1>2. 1 \in 1..1 /\ d[1] \in Int /\ d[1] <= d[1]
  <2>1. d[1] \in Int
    BY SweepAssumption
  <2> QED
    BY <2>1
<1> QED
  BY <1>1, <1>2 DEF Tracks, Reference

(* One more configuration is refused for a pair exactly when the pair does *)
(* not keep what it owes; else the reference goes on tracking.             *)
LEMMA PairChecked ==
  ASSUME NEW n \in Nat, NEW m \in Nat \ {0}, (n = 0 /\ m = 1) \/ (n > 0 /\ m = n),
         NEW d, \A i \in 1..n + 1 : d[i] \in Distances,
         NEW ref \in Distances \cup {NoRef}, Tracks(ref, d, m)
  PROVE  /\ Blocks(ref, d[n + 1]) <=> ~ OwedAt(d, n + 1)
         /\ ~ Blocks(ref, d[n + 1]) => Tracks(Raised(ref, d[n + 1]), d, n + 1)
<1>1. /\ \A i \in 1..n + 1 : d[i] \in Int
      /\ n + 1 \in 1..n + 1 /\ 1 \in 1..n + 1
      /\ m \in 1..n + 1 /\ \A i \in 1..m : i \in 1..n + 1
      /\ \A i \in 1..n + 1 : i \in 1..m \/ i = n + 1
  <2>1. \A i \in 1..n + 1 : d[i] \in Int
    BY SweepAssumption
  <2>2. n + 1 \in 1..n + 1 /\ 1 \in 1..n + 1 /\ m \in 1..n + 1
    OBVIOUS
  <2>3. \A i \in 1..m : i \in 1..n + 1
    OBVIOUS
  <2>4. \A i \in 1..n + 1 : i \in 1..m \/ i = n + 1
    OBVIOUS
  <2> QED
    BY <2>1, <2>2, <2>3, <2>4
<1> DEFINE e == d[n + 1]
           all == \A i \in 1..m : Violated(d[i])
<1>2. e \in Int /\ Inflation \in Int /\ Tol \in Int /\ Tol >= 0
  BY <1>1, SweepAssumption
<1>3. CASE ~ Violated(e)
  <2>1. ~ Blocks(ref, e) /\ OwedAt(d, n + 1) /\ Raised(ref, e) = NoRef
    BY <1>3 DEF Blocks, OwedAt, Raised, Reference
  <2>2. Tracks(NoRef, d, n + 1)
    BY <1>1, <1>3 DEF Tracks
  <2> QED
    BY <2>1, <2>2
<1>4. CASE Violated(e) /\ ~ all
  <2>1. ref = NoRef
    BY <1>4 DEF Tracks
  <2>2. Blocks(ref, e)
    BY <1>4, <2>1 DEF Blocks
  <2>3. ~ OwedAt(d, n + 1)
    BY <1>1, <1>4 DEF OwedAt
  <2> QED
    BY <2>2, <2>3
<1>5. CASE Violated(e) /\ all
  <2>1. ref \in Int /\ (\A i \in 1..m : d[i] <= ref) /\ \E i \in 1..m : d[i] = ref
    BY <1>5 DEF Tracks
  <2>2. ref # NoRef
    <3>1. \E i \in 1..n + 1 : d[i] = ref
      BY <1>1, <2>1, Zenon
    <3> QED
      BY <3>1, SweepAssumption
  <2>3. Blocks(ref, e) <=> e <= 0 \/ e < ref - Tol
    BY <1>5, <2>2 DEF Blocks
  <2>4. \A i \in 1..n + 1 : Violated(d[i])
    BY <1>1, <1>5
  <2>5. OwedAt(d, n + 1) <=> e > 0 /\ \A i \in 1..n + 1 : e >= d[i] - Tol
    BY <1>5, <2>4 DEF OwedAt
  <2>6. (\A i \in 1..n + 1 : e >= d[i] - Tol) <=> e >= ref - Tol
    <3>1. ASSUME e >= ref - Tol, NEW i \in 1..n + 1
          PROVE  e >= d[i] - Tol
      <4>1. CASE i \in 1..m
        <5>1. d[i] <= ref /\ d[i] \in Int
          BY <1>1, <2>1, <4>1
        <5> QED
          BY <1>2, <2>1, <3>1, <5>1
      <4>2. CASE i = n + 1
        BY <1>2, <4>2
      <4> QED
        BY <1>1, <4>1, <4>2
    <3>2. ASSUME \A i \in 1..n + 1 : e >= d[i] - Tol
          PROVE  e >= ref - Tol
      BY <1>1, <2>1, <3>2
    <3> QED
      BY <3>1, <3>2
  <2>7. Blocks(ref, e) <=> ~ OwedAt(d, n + 1)
    BY <1>2, <2>1, <2>3, <2>5, <2>6
  <2>8. Tracks(Raised(ref, e), d, n + 1)
    <3>1. CASE ref > e
      <4>1. Raised(ref, e) = ref
        BY <1>5, <2>2, <3>1 DEF Raised
      <4>2. \A i \in 1..n + 1 : d[i] <= ref
        BY <1>1, <1>2, <2>1, <3>1
      <4>3. \E i \in 1..n + 1 : d[i] = ref
        BY <1>1, <2>1
      <4> QED
        BY <2>1, <2>4, <4>1, <4>2, <4>3 DEF Tracks
    <3>2. CASE ~ (ref > e)
      <4>1. Raised(ref, e) = e
        BY <1>5, <3>2 DEF Raised, Reference
      <4>2. \A i \in 1..n + 1 : d[i] <= e
        BY <1>1, <1>2, <2>1, <3>2
      <4> QED
        BY <1>1, <1>2, <2>4, <4>1, <4>2 DEF Tracks
    <3> QED
      BY <3>1, <3>2
  <2> QED
    BY <2>7, <2>8
<1> QED
  BY <1>3, <1>4, <1>5

(* The distances of a pair at a position, along a path. *)
Along(path, s, k) == [i \in 1..Len(path) |-> path[i][s][k]]

(* Every pair, at every position, keeps what it owes up to the n-th configuration. *)
OwedUpTo(path, n) == \A s \in Rails, k \in Pairs, j \in 1..n : OwedAt(Along(path, s, k), j)

(* A path is safe when every pair keeps what it owes. *)
LEMMA OwedIsSafe ==
  ASSUME NEW path \in Seq(Configs)
  PROVE  SafePath(path) <=> OwedUpTo(path, Len(path))
<1>1. ASSUME NEW s \in Rails, NEW k \in Pairs, NEW j \in 1..Len(path)
      PROVE  /\ Along(path, s, k)[j] = path[j][s][k]
             /\ \A i \in 1..j : Along(path, s, k)[i] = path[i][s][k]
  BY DEF Along
<1>2. ASSUME NEW s \in Rails, NEW k \in Pairs, NEW j \in 1..Len(path)
      PROVE  OwedAt(Along(path, s, k), j) <=>
        (Violated(path[j][s][k]) =>
           /\ path[j][s][k] > 0
           /\ \A i \in 1..j : Violated(path[i][s][k]) /\ path[j][s][k] >= path[i][s][k] - Tol)
  BY <1>1 DEF OwedAt
<1> QED
  BY <1>2, Zenon DEF SafePath, OwedUpTo

(* The state of the check after n configurations. *)
Verdict(f, path, n) ==
  /\ f[n].clear <=> OwedUpTo(path, n)
  /\ f[n].clear => \A s \in Rails, k \in Pairs :
       Tracks(f[n].wl[s][k], Along(path, s, k), IF n = 0 THEN 1 ELSE n)

(* A configuration more keeps the verdict that of the path so far. *)
LEMMA VerdictStep ==
  ASSUME NEW path \in Seq(Configs), path # <<>>, NEW f, Passes(f, path),
         NEW n \in Nat, n + 1 <= Len(path), Verdict(f, path, n)
  PROVE  Verdict(f, path, n + 1)
<1> DEFINE N == Len(path)
           m == IF n = 0 THEN 1 ELSE n
<1>1. /\ N \in Nat /\ n \in 0..N /\ n + 1 \in 1..N /\ (n + 1) - 1 = n /\ n + 1 # 0
      /\ (n = 0 /\ m = 1) \/ (n > 0 /\ m = n)
  <2>1. N \in Nat
    OBVIOUS
  <2>2. n \in 0..N /\ n + 1 \in 1..N /\ (n + 1) - 1 = n /\ n + 1 # 0
    BY <2>1
  <2>3. n = 0 \/ n > 0
    OBVIOUS
  <2>4. (n = 0 => m = 1) /\ (n > 0 => m = n)
    OBVIOUS
  <2> QED
    BY <2>1, <2>2, <2>3, <2>4, Zenon
<1>0. m \in Nat \ {0}
  BY <1>1
<1>2. f[n + 1] = CheckConfig(f[n], path[n + 1]) /\ f[n] \in Accs /\ path[n + 1] \in Configs
  BY <1>1 DEF Passes
<1>3. ASSUME NEW s \in Rails, NEW k \in Pairs
      PROVE  /\ \A i \in 1..n + 1 : Along(path, s, k)[i] \in Distances
             /\ Along(path, s, k)[n + 1] = path[n + 1][s][k]
  BY <1>1 DEF Along, Configs
<1>4. OwedUpTo(path, n + 1) <=>
        OwedUpTo(path, n) /\ \A s \in Rails, k \in Pairs : OwedAt(Along(path, s, k), n + 1)
  <2>1. \A j : j \in 1..n + 1 <=> j \in 1..n \/ j = n + 1
    BY <1>1
  <2> QED
    BY <2>1, Zenon DEF OwedUpTo
<1>5. CASE ~ f[n].clear
  <2>1. f[n + 1] = f[n]
    BY <1>2, <1>5 DEF CheckConfig
  <2> QED
    BY <1>4, <1>5, <2>1, Zenon DEF Verdict
<1>6. CASE f[n].clear
  <2>1. ASSUME NEW s \in Rails, NEW k \in Pairs
        PROVE  /\ f[n].wl[s][k] \in Distances \cup {NoRef}
               /\ Tracks(f[n].wl[s][k], Along(path, s, k), m)
    BY <1>2, <1>6 DEF Verdict, Accs
  <2>2. ASSUME NEW s \in Rails, NEW k \in Pairs
        PROVE  /\ Blocks(f[n].wl[s][k], path[n + 1][s][k]) <=> ~ OwedAt(Along(path, s, k), n + 1)
               /\ ~ Blocks(f[n].wl[s][k], path[n + 1][s][k]) =>
                    Tracks(Raised(f[n].wl[s][k], path[n + 1][s][k]), Along(path, s, k), n + 1)
    <3> HIDE DEF m
    <3> QED
      BY <1>0, <1>1, <1>3, <2>1, PairChecked
  <2>3. /\ f[n + 1].clear <=>
             \A s \in Rails, k \in Pairs : ~ Blocks(f[n].wl[s][k], path[n + 1][s][k])
        /\ \A s \in Rails, k \in Pairs :
             f[n + 1].wl[s][k] = Raised(f[n].wl[s][k], path[n + 1][s][k])
    BY <1>2, <1>6 DEF CheckConfig
  <2>4. OwedUpTo(path, n)
    BY <1>6 DEF Verdict
  <2>5. f[n + 1].clear <=> OwedUpTo(path, n + 1)
    BY <1>4, <2>2, <2>3, <2>4, Zenon
  <2>6. f[n + 1].clear => \A s \in Rails, k \in Pairs :
          Tracks(f[n + 1].wl[s][k], Along(path, s, k), n + 1)
    <3> SUFFICES ASSUME f[n + 1].clear, NEW s \in Rails, NEW k \in Pairs
                 PROVE  Tracks(f[n + 1].wl[s][k], Along(path, s, k), n + 1)
      OBVIOUS
    <3>1. ~ Blocks(f[n].wl[s][k], path[n + 1][s][k])
      BY <2>3, Zenon
    <3>2. f[n + 1].wl[s][k] = Raised(f[n].wl[s][k], path[n + 1][s][k])
      BY <2>3
    <3> QED
      BY <2>2, <3>1, <3>2
  <2> QED
    BY <1>1, <2>5, <2>6, Zenon DEF Verdict
<1> QED
  BY <1>5, <1>6

(* The check with its running reference accepts exactly the safe paths. *)
THEOREM PathVerdict ==
  ASSUME NEW path \in Seq(Configs), path # <<>>
  PROVE  check_path(path) <=> SafePath(path)
<1>1. PICK f : Passes(f, path) /\ check_path(path) = f[Len(path)].clear
  BY PathChecked
<1> DEFINE N == Len(path)
           S == {n \in Nat : n <= N => Verdict(f, path, n)}
<1>2. N \in Nat /\ 1 \in 1..N /\ path[1] \in Configs
  BY EmptySeq
<1>3. 0 \in S
  <2>1. f[0].clear /\ OwedUpTo(path, 0)
    BY <1>1 DEF Passes, OwedUpTo
  <2>2. ASSUME NEW s \in Rails, NEW k \in Pairs
        PROVE  Tracks(f[0].wl[s][k], Along(path, s, k), 1)
    <3>1. f[0].wl[s][k] = Reference(path[1][s][k])
      BY <1>1, <1>2 DEF Passes, Whitelist
    <3>2. Along(path, s, k)[1] = path[1][s][k] /\ path[1][s][k] \in Distances
      BY <1>2 DEF Along, Configs
    <3> QED
      BY <3>1, <3>2, FirstReference
  <2> QED
    BY <2>1, <2>2 DEF Verdict
<1>4. \A n \in Nat : n \in S => n + 1 \in S
  BY <1>1, <1>2, VerdictStep
<1>5. N \in S
  <2> HIDE DEF S
  <2> QED
    BY <1>2, <1>3, <1>4, NatSetInduction
<1> QED
  BY <1>1, <1>5, OwedIsSafe DEF Verdict

(* So VerdictIsSafe holds at every length a path grows to. *)
THEOREM SweepVerdict == WalkInit /\ [][Extend]_walk => []VerdictIsSafe
<1> DEFINE Inv == walk \in Seq(Configs) /\ walk # <<>>
<1>1. WalkInit => Inv
  BY DEF WalkInit
<1>2. Inv /\ [Extend]_walk => Inv'
  <2>1. ASSUME Inv, Extend
        PROVE  Inv'
    BY <2>1, AppendProperties DEF Extend
  <2> QED
    BY <2>1
<1>3. Inv => VerdictIsSafe
  BY PathVerdict DEF VerdictIsSafe
<1> QED
  BY <1>1, <1>2, <1>3, PTL

(* What is executed starts where the arm is, ends at the plan's candidate  *)
(* and is safe among the arms as they are; a move of somebody else is only *)
(* possible while nothing is.                                              *)
HomeInv ==
  /\ here \in Configs /\ target \in [Cands -> Configs] /\ cached \in Cands \cup {NoCand}
  /\ phase \in {"idle", "connecting", "positioning", "homing"}
  /\ phase \in {"connecting", "positioning"} =>
       plan \in Cands /\ route = <<here, target[plan]>> /\ SafePath(route)
  /\ phase = "homing" => /\ route \in Seq(Configs) /\ route # <<>>
                         /\ SafePath(route) /\ here = Last(route)

(* The end of a short list. *)
LEMMA LastOf == ASSUME NEW a, NEW b PROVE Last(<<a>>) = a /\ Last(<<a, b>>) = b
BY DEF Last

(* Whatever moved between the dry run and the confirmation, what is        *)
(* executed is safe at every rail position, and the carriage moves at its  *)
(* end (HomesSafely).                                                      *)
THEOREM RailHomesSafely == PlanInit /\ [][PlanNext]_planVars => []HomesSafely
<1>1. PlanInit => HomeInv
  BY PlanAssumption DEF PlanInit, HomeInv
<1>2. HomeInv /\ [PlanNext]_planVars => HomeInv'
  <2> SUFFICES ASSUME HomeInv, [PlanNext]_planVars
               PROVE  HomeInv'
    OBVIOUS
  <2>1. CASE MoveArm
    BY <2>1, PlanAssumption DEF MoveArm, HomeInv
  <2>2. CASE DryRun
    BY <2>2, PlanAssumption DEF DryRun, HomeInv, evaluate
  <2>3. CASE HomeNow
    <3>1. <<here>> \in Seq(Configs) /\ <<here>> # <<>>
      BY DEF HomeInv
    <3>2. SafePath(<<here>>)
      BY <2>3 DEF HomeNow, SweepClear, SafePath
    <3> QED
      BY <2>3, <3>1, <3>2, LastOf DEF HomeNow, HomeInv
  <2>4. CASE Confirm
    <3>1. PICK c \in Cands : _plan_for(c) /\ plan' = c /\ cached' = NoCand /\ route' = PathTo(c)
      BY <2>4 DEF Confirm
    <3>2. check_path(PathTo(c))
      BY <3>1, PlanAssumption DEF _plan_for, revalidate, evaluate, Suits, Cands
    <3>3. PathTo(c) = <<here, target[c]>> /\ PathTo(c) \in Seq(Configs) /\ PathTo(c) # <<>>
      BY DEF PathTo, HomeInv
    <3>4. SafePath(PathTo(c))
      BY <3>2, <3>3, PathVerdict
    <3>5. phase' = "connecting" /\ UNCHANGED <<here, target>>
      BY <2>4 DEF Confirm
    <3> QED
      BY <3>1, <3>3, <3>4, <3>5 DEF HomeInv
  <2>5. CASE _verify_start_posture
    BY <2>5 DEF _verify_start_posture, Fail, HomeInv
  <2>6. CASE ExecutePath
    <3>1. /\ phase = "positioning" /\ UNCHANGED <<target, cached>>
          /\ plan \in Cands /\ route = <<here, target[plan]>> /\ SafePath(route)
          /\ here \in Configs /\ target[plan] \in Configs
      BY <2>6 DEF ExecutePath, HomeInv
    <3>2. CASE here' = target[plan] /\ phase' = "homing" /\ UNCHANGED <<plan, route>>
      <4>1. here' = Last(route)
        BY <3>1, <3>2, LastOf, Zenon
      <4>2. route \in Seq(Configs) /\ route # <<>>
        BY <3>1
      <4> QED
        BY <3>1, <3>2, <4>1, <4>2 DEF HomeInv
    <3>3. CASE here' \in {here, target[plan]} /\ Fail
      BY <3>1, <3>3 DEF Fail, HomeInv
    <3> QED
      BY <2>6, <3>2, <3>3 DEF ExecutePath
  <2>7. CASE HomeRail
    BY <2>7 DEF HomeRail, Fail, HomeInv
  <2>8. CASE UNCHANGED planVars
    BY <2>8 DEF planVars, HomeInv
  <2> QED
    BY <2>1, <2>2, <2>3, <2>4, <2>5, <2>6, <2>7, <2>8 DEF PlanNext
<1>3. HomeInv => HomesSafely
  BY DEF HomeInv, HomesSafely
<1> QED
  BY <1>1, <1>2, <1>3, PTL

(***************************************************************************)
(* The controller's presses (devices/tracker.py), for every history kept   *)
(* and every age.                                                          *)
(***************************************************************************)
(* A press, and a list of presses in their order. *)
Edges == [seq : Nat, input : PadAt \cup {"menu"}]
Rising(list) == \A i, j \in 1..Len(list) : i < j => list[i].seq < list[j].seq

(* One more press at the end, newer than all. *)
LEMMA RisingAppend ==
  ASSUME NEW list \in Seq(Edges), Rising(list), NEW e \in Edges,
         \A i \in Range(list) : i.seq < e.seq
  PROVE  /\ Append(list, e) \in Seq(Edges) /\ Rising(Append(list, e))
         /\ Range(Append(list, e)) = Range(list) \cup {e}
         /\ Append(list, e) # <<>> /\ Last(Append(list, e)) = e
<1> DEFINE N == Len(list)
           u == Append(list, e)
<1>1. /\ N \in Nat /\ u \in Seq(Edges) /\ Len(u) = N + 1 /\ u[N + 1] = e
      /\ \A i \in 1..N : u[i] = list[i]
  BY AppendProperties
<1>2. \A i \in 1..N + 1 : i \in 1..N \/ i = N + 1
  BY <1>1
<1>3. \A i \in 1..N : list[i] \in Range(list)
  BY DEF Range
<1>4. Rising(u)
  <2> SUFFICES ASSUME NEW i \in 1..N + 1, NEW j \in 1..N + 1, i < j
               PROVE  u[i].seq < u[j].seq
    BY <1>1 DEF Rising
  <2>1. i \in 1..N
    BY <1>1
  <2>2. CASE j \in 1..N
    BY <1>1, <2>1, <2>2 DEF Rising
  <2>3. CASE j = N + 1
    BY <1>1, <1>3, <2>1, <2>3
  <2> QED
    BY <1>2, <2>2, <2>3
<1>5. Range(u) = Range(list) \cup {e}
  <2>1. DOMAIN u = 1..N + 1 /\ DOMAIN list = 1..N /\ N + 1 \in 1..N + 1
        /\ \A i \in 1..N : i \in 1..N + 1
    BY <1>1
  <2> QED
    BY <1>1, <1>2, <2>1, Zenon DEF Range
<1>6. u # <<>> /\ Last(u) = e
  BY <1>1, EmptySeq DEF Last
<1> QED
  BY <1>1, <1>4, <1>5, <1>6

(* What the loop of Those has after k of the list. *)
ThosePass(list, S) ==
  [p \in (1..Len(list)) \X Seq(Edges) |->
     Keep(p[2], list[p[1]], S)]
KeptUpTo(f, list, S, k) ==
  f[k] \in Seq(Edges) /\ Rising(f[k]) /\ Range(f[k]) = {list[i] : i \in 1..k} \cap S

(* What Those returns is the end of a run of its loop. *)
LEMMA ThoseLoops ==
  ASSUME NEW list \in Seq(Edges), NEW S
  PROVE  \E f : /\ Those(list, S) = f[Len(list)] /\ f[0] = <<>>
                /\ \A k \in 1..Len(list) :
                     f[k] = Keep(f[k - 1], list[k], S)
<1> DEFINE N == Len(list)
           Body(f) == [k \in 0..N |-> IF k = 0 THEN <<>> ELSE Keep(f[k - 1], list[k], S)]
           upto == CHOOSE f : f = Body(f)
<1>1. N \in Nat /\ \A k \in 1..N : list[k] \in Edges
  OBVIOUS
<1>2. <<>> \in Seq(Edges)
  OBVIOUS
<1>3. ThosePass(list, S) \in [(1..N) \X Seq(Edges) -> Seq(Edges)]
  BY <1>1, AppendProperties DEF ThosePass, Keep
<1>4. PICK f \in [0..N -> Seq(Edges)] :
        f[0] = <<>> /\ \A k \in 1..N : f[k] = ThosePass(list, S)[<<k, f[k - 1]>>]
  <2>1. HasRun(N, Seq(Edges), <<>>, ThosePass(list, S))
    BY <1>1, <1>2, <1>3, LoopRuns
  <2> QED
    BY <2>1, Zenon DEF HasRun
<1>5. ASSUME NEW k \in 1..N
      PROVE  f[k] = Keep(f[k - 1], list[k], S)
  <2>1. k - 1 \in 0..N
    BY <1>1
  <2> QED
    BY <1>4, <2>1 DEF ThosePass
<1>6. f = Body(f)
  BY <1>4, <1>5
<1>7. upto = Body(upto)
  BY <1>6, Zenon
<1>8. Those(list, S) = upto[N]
  BY DEF Those
<1>9. upto[0] = <<>> /\ \A k \in 1..N : upto[k] = Keep(upto[k - 1], list[k], S)
  <2> HIDE DEF upto
  <2> QED
    BY <1>1, <1>7
<1> QED
  <2> HIDE DEF upto
  <2> QED
    BY <1>8, <1>9

(* The loop keeps the order, and what is in S. *)
LEMMA ThoseKept ==
  ASSUME NEW list \in Seq(Edges), Rising(list), NEW S
  PROVE  /\ Those(list, S) \in Seq(Edges) /\ Rising(Those(list, S))
         /\ Range(Those(list, S)) = Range(list) \cap S
<1> DEFINE N == Len(list)
<1>1. PICK f : /\ Those(list, S) = f[N] /\ f[0] = <<>>
               /\ \A k \in 1..N : f[k] = Keep(f[k - 1], list[k], S)
  BY ThoseLoops
<1> DEFINE T == {k \in Nat : k <= N => KeptUpTo(f, list, S, k)}
<1>2. N \in Nat /\ \A k \in 1..N : list[k] \in Edges
  OBVIOUS
<1>3. 0 \in T
  <2>1. {list[i] : i \in 1..0} = {}
    OBVIOUS
  <2>2. <<>> \in Seq(Edges) /\ Rising(<<>>) /\ Range(<<>>) = {}
    BY DEF Rising, Range
  <2> QED
    BY <1>1, <2>1, <2>2 DEF KeptUpTo
<1>4. ASSUME NEW k \in Nat, k \in T
      PROVE  k + 1 \in T
  <2> SUFFICES ASSUME k + 1 <= N
               PROVE  KeptUpTo(f, list, S, k + 1)
    OBVIOUS
  <2>1. /\ KeptUpTo(f, list, S, k) /\ k + 1 \in 1..N /\ (k + 1) - 1 = k
        /\ list[k + 1] \in Edges
    BY <1>2, <1>4
  <2>2. f[k + 1] = IF list[k + 1] \in S THEN Append(f[k], list[k + 1]) ELSE f[k]
    BY <1>1, <2>1 DEF Keep
  <2>3. {list[i] : i \in 1..k + 1} = {list[i] : i \in 1..k} \cup {list[k + 1]}
    <3>1. \A i : i \in 1..k + 1 <=> i \in 1..k \/ i = k + 1
      OBVIOUS
    <3> QED
      BY <3>1, Zenon
  <2>4. CASE list[k + 1] \in S
    <3>1. \A i \in 1..k : i \in 1..N /\ i < k + 1
      BY <1>2, <2>1
    <3>2. \A e \in Range(f[k]) : e.seq < list[k + 1].seq
      BY <2>1, <3>1 DEF KeptUpTo, Rising
    <3>3. /\ Append(f[k], list[k + 1]) \in Seq(Edges) /\ Rising(Append(f[k], list[k + 1]))
          /\ Range(Append(f[k], list[k + 1])) = Range(f[k]) \cup {list[k + 1]}
      BY <2>1, <3>2, RisingAppend DEF KeptUpTo
    <3>4. f[k + 1] = Append(f[k], list[k + 1])
      BY <2>2, <2>4
    <3>5. Range(f[k + 1]) = {list[i] : i \in 1..k + 1} \cap S
      BY <2>1, <2>3, <2>4, <3>3, <3>4, Zenon DEF KeptUpTo
    <3> QED
      BY <3>3, <3>4, <3>5 DEF KeptUpTo
  <2>5. CASE list[k + 1] \notin S
    <3>1. f[k + 1] = f[k]
      BY <2>2, <2>5
    <3>2. Range(f[k + 1]) = {list[i] : i \in 1..k + 1} \cap S
      BY <2>1, <2>3, <2>5, <3>1, Zenon DEF KeptUpTo
    <3> QED
      BY <2>1, <3>1, <3>2 DEF KeptUpTo
  <2> QED
    BY <2>4, <2>5
<1>5. N \in T
  <2> HIDE DEF T
  <2> QED
    BY <1>2, <1>3, <1>4, NatSetInduction
<1>6. Range(list) = {list[i] : i \in 1..N}
  BY DEF Range
<1> QED
  BY <1>1, <1>5, <1>6 DEF KeptUpTo

(* What the reader holds of the controller. *)
PadOK(c) ==
  /\ c \in [click : BOOLEAN, at : PadAt, dir : PadAt, menu : BOOLEAN, edges : Seq(Edges)]
  /\ Rising(c.edges)

(* The counter is the newest press's number. *)
LEMMA NewestCounter ==
  ASSUME NEW c, PadOK(c)
  PROVE  EdgeSeq(c) \in Nat /\ \A i \in Range(c.edges) : i \in Edges /\ i.seq <= EdgeSeq(c)
<1>1. c.edges \in Seq(Edges) /\ Rising(c.edges)
  BY DEF PadOK
<1> DEFINE N == Len(c.edges)
<1>2. CASE c.edges = <<>>
  <2>1. EdgeSeq(c) = 0 /\ Range(c.edges) = {}
    BY <1>2 DEF EdgeSeq, Range
  <2> QED
    BY <2>1
<1>3. CASE c.edges # <<>>
  <2>1. N \in Nat \ {0} /\ \A i \in 1..N : c.edges[i] \in Edges
    BY <1>1, <1>3, EmptySeq
  <2>2. EdgeSeq(c) = c.edges[N].seq /\ N \in 1..N
    BY <1>3, <2>1 DEF EdgeSeq, Last
  <2>3. EdgeSeq(c) \in Nat
    BY <2>1, <2>2 DEF Edges
  <2>4. ASSUME NEW i \in 1..N
        PROVE  c.edges[i].seq <= EdgeSeq(c)
    <3>1. CASE i = N
      BY <2>2, <2>3, <3>1
    <3>2. CASE i < N
      <4>1. c.edges[i].seq < c.edges[N].seq
        BY <1>1, <2>2, <3>2 DEF Rising
      <4>2. c.edges[i].seq \in Nat
        BY <2>1 DEF Edges
      <4> QED
        BY <2>2, <2>3, <4>1, <4>2
    <3> QED
      BY <2>1, <3>1, <3>2
  <2>5. Range(c.edges) = {c.edges[i] : i \in 1..N}
    BY <1>1 DEF Range
  <2> QED
    BY <2>1, <2>3, <2>4, <2>5
<1> QED
  BY <1>2, <1>3

(* A press remembered is the newest, and forgets none but older ones. *)
LEMMA Remembered ==
  ASSUME NEW c, PadOK(c), NEW input \in PadAt \cup {"menu"}
  PROVE  /\ Remember(c, input) \in Seq(Edges) /\ Rising(Remember(c, input))
         /\ Remember(c, input) # <<>> /\ Last(Remember(c, input)).seq = EdgeSeq(c) + 1
         /\ \A i \in Range(Remember(c, input)) : i \in Range(c.edges) \/ i.seq = EdgeSeq(c) + 1
<1> DEFINE e == [seq |-> EdgeSeq(c) + 1, input |-> input]
           all == Append(c.edges, e)
           N == Len(all)
           new == Newest(all)
<1>1. c.edges \in Seq(Edges) /\ Rising(c.edges) /\ EdgeSeq(c) \in Nat
  BY NewestCounter DEF PadOK
<1>2. e \in Edges /\ e.seq = EdgeSeq(c) + 1
  BY <1>1 DEF Edges
<1>3. \A i \in Range(c.edges) : i.seq < e.seq
  <2> SUFFICES ASSUME NEW i \in Range(c.edges)
               PROVE  i.seq < e.seq
    OBVIOUS
  <2>1. i.seq \in Nat /\ i.seq <= EdgeSeq(c)
    BY NewestCounter DEF Edges
  <2> QED
    BY <1>1, <1>2, <2>1
<1>4. /\ all \in Seq(Edges) /\ Rising(all) /\ Range(all) = Range(c.edges) \cup {e}
      /\ all # <<>> /\ Last(all) = e
  <2> HIDE DEF e
  <2> QED
    BY <1>1, <1>2, <1>3, RisingAppend
<1>5. CASE ~ (N > EdgeHistory)
  <2>1. Remember(c, input) = all
    BY <1>5 DEF Remember
  <2> QED
    BY <1>2, <1>4, <2>1
<1>6. CASE N > EdgeHistory
  <2> HIDE DEF e
  <2> DEFINE H == EdgeHistory
  <2>1. Remember(c, input) = new
    BY <1>6 DEF Remember, e
  <2>2. N \in Nat /\ H \in Nat /\ H >= 1 /\ N > H
    BY <1>4, <1>6, TrackerAssumption
  <2> HIDE DEF all, H
  <2>3. /\ new \in Seq(Edges) /\ Len(new) = H /\ \A i \in 1..H : new[i] = all[i + (N - H)]
    <3>1. new = SubSeq(all, N - H + 1, N)
      BY DEF Newest, H
    <3>2. N - H + 1 \in 1..N + 1 /\ N \in N - H..N /\ N - (N - H + 1) + 1 = H
      BY <2>2
    <3> QED
      BY <1>4, <2>2, <3>1, <3>2, SubSeqProperties
  <2>4. \A i \in 1..H : i + (N - H) \in 1..N
    BY <2>2
  <2>5. Rising(new)
    <3> SUFFICES ASSUME NEW i \in 1..H, NEW j \in 1..H, i < j
                 PROVE  new[i].seq < new[j].seq
      BY <2>3 DEF Rising
    <3>1. i + (N - H) < j + (N - H)
      BY <2>2
    <3> QED
      BY <1>4, <2>3, <2>4, <3>1 DEF Rising
  <2>6. new # <<>> /\ Last(new) = e
    <3>1. H \in 1..H /\ H + (N - H) = N
      BY <2>2
    <3>2. new[H] = all[N] /\ all[N] = e
      BY <1>4, <2>3, <3>1 DEF Last
    <3> QED
      BY <2>2, <2>3, <3>2, EmptySeq DEF Last
  <2>7. Range(new) \subseteq Range(all)
    <3>1. DOMAIN new = 1..H /\ DOMAIN all = 1..N
      BY <1>4, <2>3
    <3> QED
      BY <2>3, <2>4, <3>1 DEF Range
  <2> QED
    BY <1>2, <1>4, <2>1, <2>3, <2>5, <2>6, <2>7
<1> QED
  BY <1>5, <1>6

(* What an event makes of the reader's controller. *)
Advances(r, c) ==
  /\ PadOK(r) /\ EdgeSeq(r) >= EdgeSeq(c)
  /\ \A i \in Range(r.edges) : i \in Range(c.edges) \/ i.seq > EdgeSeq(c)

(* The controller with the press of an input remembered, whatever else of it changes. *)
LEMMA PressFollows ==
  ASSUME NEW c, PadOK(c), NEW input \in PadAt \cup {"menu"}, NEW r,
         r \in [click : BOOLEAN, at : PadAt, dir : PadAt, menu : BOOLEAN, edges : Seq(Edges)],
         r.edges = Remember(c, input)
  PROVE  Advances(r, c)
<1>1. EdgeSeq(c) \in Nat
  BY NewestCounter
<1>2. EdgeSeq(r) = EdgeSeq(c) + 1
  BY Remembered DEF EdgeSeq
<1>3. PadOK(r)
  BY Remembered DEF PadOK
<1> QED
  BY <1>1, <1>2, <1>3, Remembered DEF Advances

(* The events of the controller. *)
PadEvents == [click : BOOLEAN, at : PadAt, menu : BOOLEAN]

(* An event only adds presses, newer than the counter. *)
LEMMA NotedFollows ==
  ASSUME NEW c, PadOK(c), NEW e \in PadEvents
  PROVE  Advances(note_edges(c, e), c)
<1> DEFINE moved == [c EXCEPT !.click = e.click, !.at = e.at, !.menu = e.menu]
           pressed == e.click /\ (~c.click \/ (c.dir = "centre" /\ e.at # "centre"))
           pad == IF pressed THEN [moved EXCEPT !.dir = e.at, !.edges = Remember(c, e.at)]
                  ELSE [moved EXCEPT !.dir = IF e.click THEN @ ELSE "centre"]
           Records == [click : BOOLEAN, at : PadAt, dir : PadAt, menu : BOOLEAN, edges : Seq(Edges)]
<1>1. c \in Records /\ "centre" \in PadAt /\ e.at \in PadAt
  BY DEF PadOK, PadAt, PadEvents
<1>2. EdgeSeq(c) \in Nat
  BY NewestCounter
<1>3. Advances(pad, c)
  <2>1. CASE pressed
    <3>1. pad.edges = Remember(c, e.at)
      BY <1>1, <2>1
    <3>2. pad \in Records
      BY <1>1, <2>1, Remembered DEF PadEvents
    <3> HIDE DEF pad
    <3> QED
      BY <1>1, <3>1, <3>2, PressFollows
  <2>2. CASE ~ pressed
    <3>1. pad.edges = c.edges /\ pad \in Records
      BY <1>1, <2>2 DEF PadEvents
    <3>2. EdgeSeq(pad) = EdgeSeq(c)
      BY <3>1 DEF EdgeSeq
    <3> HIDE DEF pad
    <3> QED
      BY <1>2, <3>1, <3>2 DEF Advances, PadOK
  <2> QED
    BY <2>1, <2>2
<1>4. CASE e.menu /\ ~c.menu
  <2> DEFINE r == [pad EXCEPT !.edges = Remember(pad, "menu")]
  <2>1. note_edges(c, e) = r
    BY <1>4 DEF note_edges
  <2> HIDE DEF pad
  <2>2. PadOK(pad) /\ "menu" \in PadAt \cup {"menu"}
    BY <1>3 DEF Advances
  <2>3. r.edges = Remember(pad, "menu") /\ r \in Records
    BY <2>2, Remembered DEF PadOK
  <2> HIDE DEF r
  <2>4. Advances(r, pad)
    BY <2>2, <2>3, PressFollows
  <2>5. EdgeSeq(pad) \in Nat /\ EdgeSeq(r) \in Nat
    BY <2>2, <2>4, NewestCounter DEF Advances
  <2>6. Advances(r, c)
    <3>1. \A i \in Range(r.edges) : i \in Edges
      BY <2>4, NewestCounter DEF Advances
    <3>2. \A i \in Range(r.edges) : i.seq \in Nat
      BY <3>1 DEF Edges
    <3> QED
      BY <1>2, <1>3, <2>4, <2>5, <3>2 DEF Advances
  <2> QED
    BY <2>1, <2>6
<1>5. CASE ~ (e.menu /\ ~c.menu)
  <2>1. note_edges(c, e) = pad
    BY <1>5 DEF note_edges
  <2> QED
    BY <1>3, <2>1
<1> QED
  BY <1>4, <1>5

(* A sample lists presses in their order, none newer than its counter, and *)
(* of those the reader remembers every one up to it that fires.            *)
SampleOK(s) ==
  /\ s.seq \in Nat /\ s.has \in BOOLEAN
  /\ s.actions \in Seq(Edges) /\ Rising(s.actions)
  /\ \A i \in Range(s.actions) : i.seq <= s.seq

Covers(s, c) ==
  s.seq <= EdgeSeq(c) /\ \A i \in Range(c.edges) : Fires(i.input)
       /\ i.seq <= s.seq => i \in Range(s.actions)

(* The presses fired or passed over. *)
Settled == Range(fired) \cup dropped

(* The inductive invariant: the counter the loop saw last is behind every  *)
(* sample and ahead of every press it settled.                             *)
TrkInv ==
  /\ PadOK(ctl) /\ poseAge = realAge
  /\ \A s \in slotted : SampleOK(s) /\ Covers(s, ctl) /\ (s.has => adopted)
  /\ \A s, t \in slotted : s = t
  /\ adopted \in BOOLEAN /\ seenSeq \subseteq Nat /\ \A m, n \in seenSeq : m = n
  /\ \A n \in seenSeq : /\ adopted /\ n <= EdgeSeq(ctl)
                        /\ \A s \in slotted : s.has /\ n <= s.seq
  /\ fired \in Seq(Nat) /\ dropped \subseteq Nat
  /\ \A d \in Settled : \E n \in seenSeq : d <= n
  /\ \A i, j \in 1..Len(fired) : i < j => fired[i] < fired[j]
  /\ Range(fired) \cap dropped = {}
  /\ \A i \in Range(ctl.edges) : Fires(i.input)
       /\ (\E n \in seenSeq : i.seq <= n) => i.seq \in Settled

(* What is published is such a sample. *)
LEMMA SampleHolds ==
  ASSUME NEW c, PadOK(c), NEW has \in BOOLEAN, NEW ok
  PROVE  /\ SampleOK(Sample(c, has, ok)) /\ Covers(Sample(c, has, ok), c)
         /\ Sample(c, has, ok).seq = EdgeSeq(c) /\ Sample(c, has, ok).has = has
<1> DEFINE S == {i \in Range(c.edges) : Fires(i.input)}
           s == Sample(c, has, ok)
<1>1. EdgeSeq(c) \in Nat /\ \A i \in Range(c.edges) : i \in Edges /\ i.seq <= EdgeSeq(c)
  BY NewestCounter
<1>2. /\ Those(c.edges, S) \in Seq(Edges) /\ Rising(Those(c.edges, S))
      /\ Range(Those(c.edges, S)) = Range(c.edges) \cap S
  <2> HIDE DEF S
  <2> QED
    BY ThoseKept DEF PadOK
<1>3. s.seq = EdgeSeq(c) /\ s.has = has /\ s.actions = Those(c.edges, S)
  BY DEF Sample, derive_click_actions
<1> HIDE DEF s
<1>4. SampleOK(s)
  BY <1>1, <1>2, <1>3, Zenon DEF SampleOK
<1>5. Covers(s, c)
  <2>1. \A i \in Range(c.edges) : Fires(i.input) => i \in Range(s.actions)
    BY <1>2, <1>3, Zenon
  <2>2. s.seq <= EdgeSeq(c)
    BY <1>1, <1>3
  <2> QED
    BY <2>1, <2>2, Zenon DEF Covers
<1> QED
  BY <1>3, <1>4, <1>5 DEF s

(* What is fired or passed over from a sample. *)
LEMMA NewActions ==
  ASSUME NEW s, SampleOK(s), NEW past, past \subseteq Nat
  PROVE  LET new == Those(s.actions, {i \in Range(s.actions) : \A n \in past : i.seq > n})
         IN  /\ new \in Seq(Edges) /\ Rising(new)
             /\ Range(new) = {i \in Range(s.actions) : \A n \in past : i.seq > n}
<1> DEFINE S == {i \in Range(s.actions) : \A n \in past : i.seq > n}
<1>1. /\ Those(s.actions, S) \in Seq(Edges) /\ Rising(Those(s.actions, S))
      /\ Range(Those(s.actions, S)) = Range(s.actions) \cap S
  <2> HIDE DEF S
  <2> QED
    BY ThoseKept DEF SampleOK
<1> QED
  BY <1>1

(* The numbers of a rising list of presses, after older numbers. *)
LEMMA FiredInOrder ==
  ASSUME NEW old \in Seq(Nat), \A i, j \in 1..Len(old) : i < j => old[i] < old[j],
         NEW new \in Seq(Edges), Rising(new),
         \A d \in Range(old), i \in Range(new) : d < i.seq
  PROVE  LET all == old \o [n \in 1..Len(new) |-> new[n].seq]
         IN  /\ all \in Seq(Nat) /\ Range(all) = Range(old) \cup {i.seq : i \in Range(new)}
             /\ \A i, j \in 1..Len(all) : i < j => all[i] < all[j]
<1> DEFINE M == Len(old)
           N == Len(new)
           nums == [n \in 1..N |-> new[n].seq]
           all == old \o nums
<1>1. M \in Nat /\ N \in Nat /\ (\A i \in 1..M : old[i] \in Nat) /\ \A i \in 1..N : new[i] \in Edges
  OBVIOUS
<1>2. nums \in Seq(Nat) /\ Len(nums) = N
  BY <1>1 DEF Edges
<1>3. /\ all \in Seq(Nat) /\ Len(all) = M + N
      /\ \A i \in 1..M + N : all[i] = IF i <= M THEN old[i] ELSE nums[i - M]
  <2> HIDE DEF nums
  <2> QED
    <3>1. /\ old \o nums \in Seq(Nat) /\ Len(old \o nums) = Len(old) + Len(nums)
          /\ \A i \in 1..Len(old) + Len(nums) :
               (old \o nums)[i] = IF i <= Len(old) THEN old[i] ELSE nums[i - Len(old)]
      BY <1>2, ConcatProperties
    <3> QED
      BY <1>2, <3>1, Zenon
<1>4. \A i \in 1..M + N : \/ i \in 1..M /\ all[i] = old[i]
                          \/ i - M \in 1..N /\ i > M /\ all[i] = new[i - M].seq
  <2> SUFFICES ASSUME NEW i \in 1..M + N
               PROVE  \/ i \in 1..M /\ all[i] = old[i]
                      \/ i - M \in 1..N /\ i > M /\ all[i] = new[i - M].seq
    OBVIOUS
  <2>1. CASE i <= M
    BY <1>1, <1>3, <2>1
  <2>2. CASE i > M
    <3>1. i - M \in 1..N
      BY <1>1, <2>2
    <3>2. all[i] = nums[i - M]
      BY <1>1, <1>3, <2>2
    <3> QED
      BY <2>2, <3>1, <3>2
  <2> QED
    BY <1>1, <2>1, <2>2
<1> HIDE DEF all, nums
<1>5. (\A i \in 1..M : old[i] \in Range(old)) /\ \A i \in 1..N : new[i] \in Range(new)
  BY DEF Range
<1>6. \A i, j \in 1..M + N : i < j => all[i] < all[j]
  <2> SUFFICES ASSUME NEW i \in 1..M + N, NEW j \in 1..M + N, i < j
               PROVE  all[i] < all[j]
    OBVIOUS
  <2>1. CASE i \in 1..M /\ j \in 1..M /\ all[i] = old[i] /\ all[j] = old[j]
    BY <2>1
  <2>2. CASE i \in 1..M /\ all[i] = old[i] /\ j - M \in 1..N /\ all[j] = new[j - M].seq
    BY <1>5, <2>2
  <2>3. CASE i > M /\ i - M \in 1..N /\ all[i] = new[i - M].seq /\ j - M \in 1..N
       /\ all[j] = new[j - M].seq
    <3>1. i - M < j - M
      BY <1>1
    <3> QED
      BY <2>3, <3>1 DEF Rising
  <2>4. ~ (i > M /\ j \in 1..M)
    BY <1>1
  <2> QED
    BY <1>4, <2>1, <2>2, <2>3, <2>4
<1>7. Range(all) = Range(old) \cup {i.seq : i \in Range(new)}
  <2>1. DOMAIN all = 1..M + N /\ DOMAIN old = 1..M /\ DOMAIN new = 1..N
    BY <1>1, <1>3
  <2>2. \A i \in 1..M : i \in 1..M + N /\ ~ (i > M)
    BY <1>1
  <2>3. \A i \in 1..N : i + M \in 1..M + N /\ ~ (i + M \in 1..M) /\ (i + M) - M = i
    BY <1>1
  <2>4. ASSUME NEW x \in Range(all)
        PROVE  x \in Range(old) \cup {i.seq : i \in Range(new)}
    <3>1. PICK i \in 1..M + N : x = all[i]
      BY <2>1 DEF Range
    <3> QED
      BY <1>4, <1>5, <3>1
  <2>5. ASSUME NEW x \in Range(old)
        PROVE  x \in Range(all)
    <3>1. PICK i \in 1..M : x = old[i]
      BY <2>1 DEF Range
    <3>2. x = all[i] /\ i \in 1..M + N
      BY <1>4, <2>2, <3>1
    <3> QED
      BY <2>1, <3>2 DEF Range
  <2>6. ASSUME NEW e \in Range(new)
        PROVE  e.seq \in Range(all)
    <3>1. PICK i \in 1..N : e = new[i]
      BY <2>1 DEF Range
    <3>2. e.seq = all[i + M] /\ i + M \in 1..M + N
      BY <1>4, <2>3, <3>1
    <3> QED
      BY <2>1, <3>2 DEF Range
  <2> QED
    BY <2>4, <2>5, <2>6
<1> QED
  BY <1>3, <1>6, <1>7 DEF all, nums

(* A button event keeps the invariant: what it adds the loop has not seen. *)
LEMMA EventKeeps ==
  ASSUME TrkInv, NEW e \in PadEvents, _on_controller(e)
  PROVE  TrkInv'
<1>1. /\ ctl' = note_edges(ctl, e) /\ adopted' = TRUE
      /\ UNCHANGED <<seenSeq, fired, dropped>> /\ UNCHANGED <<poseAge, realAge>>
      /\ \/ slotted' = {Sample(ctl', TRUE, poseOk /\ poseAge <= StaleAfter)}
         \/ slotted' = slotted
  BY Zenon DEF _on_controller, _publish_edge, EdgeAges, poseVars, loopSideVars
<1>2. PadOK(ctl) /\ Advances(ctl', ctl)
  BY <1>1, NotedFollows DEF TrkInv
<1>3. /\ PadOK(ctl') /\ EdgeSeq(ctl) \in Nat /\ EdgeSeq(ctl') \in Nat
      /\ EdgeSeq(ctl) <= EdgeSeq(ctl')
      /\ \A i \in Range(ctl'.edges) : i \in Range(ctl.edges) \/ i.seq > EdgeSeq(ctl)
      /\ \A i \in Range(ctl'.edges) : i.seq \in Nat
  <2>1. PadOK(ctl')
    BY <1>2 DEF Advances
  <2>2. EdgeSeq(ctl) \in Nat /\ EdgeSeq(ctl') \in Nat /\ \A i \in Range(ctl'.edges) : i \in Edges
    BY <1>2, <2>1, NewestCounter
  <2> QED
    BY <1>2, <2>1, <2>2 DEF Advances, Edges
<1>4. ASSUME NEW s \in slotted'
      PROVE  /\ SampleOK(s) /\ Covers(s, ctl') /\ \A n \in seenSeq : s.has /\ n <= s.seq
  <2>1. CASE s \in slotted
    <3>1. /\ SampleOK(s) /\ Covers(s, ctl) /\ \A n \in seenSeq : s.has /\ n <= s.seq
      BY <2>1 DEF TrkInv
    <3>2. s.seq \in Nat /\ s.seq <= EdgeSeq(ctl)
      BY <3>1 DEF SampleOK, Covers
    <3>3. s.seq <= EdgeSeq(ctl')
      BY <1>3, <3>2
    <3>4. \A i \in Range(ctl'.edges) : i.seq <= s.seq => i \in Range(ctl.edges)
      BY <1>3, <3>2
    <3> QED
      BY <3>1, <3>3, <3>4 DEF Covers
  <2>2. CASE s = Sample(ctl', TRUE, poseOk /\ poseAge <= StaleAfter)
    <3>1. SampleOK(s) /\ Covers(s, ctl') /\ s.seq = EdgeSeq(ctl') /\ s.has
      BY <1>3, <2>2, SampleHolds
    <3>2. \A n \in seenSeq : n \in Nat /\ n <= EdgeSeq(ctl)
      BY DEF TrkInv
    <3> QED
      BY <1>3, <3>1, <3>2
  <2> QED
    BY <1>1, <2>1, <2>2
<1>5. \A n \in seenSeq : n \in Nat /\ n <= EdgeSeq(ctl) /\ n <= EdgeSeq(ctl')
  <2>1. \A n \in seenSeq : n \in Nat /\ n <= EdgeSeq(ctl)
    BY DEF TrkInv
  <2> QED
    BY <1>3, <2>1
<1>6. ASSUME NEW i \in Range(ctl'.edges), Fires(i.input), \E n \in seenSeq : i.seq <= n
      PROVE  i.seq \in Settled
  <2>1. i \in Range(ctl.edges)
    BY <1>3, <1>5, <1>6
  <2> QED
    BY <1>6, <2>1 DEF TrkInv
<1>7. Settled' = Settled
  BY <1>1 DEF Settled
<1> QED
  BY <1>1, <1>3, <1>4, <1>5, <1>6, <1>7, Zenon DEF TrkInv

(* So does a pose, which publishes the presses as they are. *)
LEMMA PoseKeeps == ASSUME TrkInv, PoseEvent PROVE TrkInv'
<1>1. /\ poseAge' = realAge' /\ slotted' = {Sample(ctl, adopted, poseOk')}
      /\ UNCHANGED <<ctl, adopted, seenSeq, fired, dropped>>
  BY DEF PoseEvent, padVars, loopSideVars
<1> DEFINE s == Sample(ctl, adopted, poseOk')
<1>2. SampleOK(s) /\ Covers(s, ctl) /\ s.seq = EdgeSeq(ctl) /\ s.has = adopted
  BY SampleHolds DEF TrkInv
<1>3. Settled' = Settled
  BY <1>1 DEF Settled
<1>4. slotted' = {s}
  BY <1>1
<1> HIDE DEF s
<1>5. ASSUME NEW n \in seenSeq
      PROVE  s.has /\ n <= s.seq
  BY <1>2 DEF TrkInv
<1> QED
  BY <1>1, <1>2, <1>3, <1>4, <1>5, Zenon DEF TrkInv

(* A read of a sample fires, or passes over, all that is new up to its counter. *)
LEMMA ReadKeeps ==
  ASSUME TrkInv, NEW s \in slotted, s.has, _device_click_edge(s),
         UNCHANGED <<padVars, slotted, sampleAge, poseVars>>
  PROVE  TrkInv'
<1> DEFINE S == {i \in Range(s.actions) : \A n \in seenSeq : i.seq > n}
           new == Those(s.actions, S)
           old == Range(fired) \cup dropped
<1>1. SampleOK(s) /\ Covers(s, ctl) /\ adopted /\ seenSeq \subseteq Nat
  BY DEF TrkInv
<1>2. new \in Seq(Edges) /\ Rising(new) /\ Range(new) = S
  BY <1>1, NewActions
<1>3. /\ seenSeq' = {s.seq}
      /\ \/ /\ seenSeq # {} /\ dropped' = dropped
            /\ fired' = fired \o [n \in 1..Len(new) |-> new[n].seq]
         \/ fired' = fired /\ dropped' = dropped \cup {i.seq : i \in Range(new)}
      /\ UNCHANGED <<ctl, adopted, slotted, poseAge, realAge>>
  BY DEF _device_click_edge, SeesAny, padVars, poseVars
<1>4. s.seq \in Nat /\ \A i \in S : i.seq \in Nat /\ i.seq <= s.seq
  <2>1. \A i \in S : i \in Edges
    BY <1>2 DEF Range
  <2> QED
    BY <1>1, <2>1 DEF SampleOK, Edges
<1>11. \A d \in old : d \in Nat
  <2>1. fired \in Seq(Nat) /\ dropped \subseteq Nat
    BY DEF TrkInv
  <2>2. ASSUME NEW d \in Range(fired)
        PROVE  d \in Nat
    <3>1. PICK i \in DOMAIN fired : d = fired[i]
      BY DEF Range
    <3> QED
      BY <2>1, <3>1
  <2> QED
    BY <2>1, <2>2
<1> HIDE DEF new
<1>5. ASSUME NEW d \in old, NEW i \in S
      PROVE  d < i.seq /\ seenSeq # {}
  <2>1. PICK n \in seenSeq : d <= n
    BY DEF TrkInv, Settled
  <2>2. d \in Nat /\ n \in Nat /\ n < i.seq
    BY <1>1, <1>4, <1>11
  <2> QED
    BY <1>4, <2>1, <2>2
<1>6. /\ fired' \in Seq(Nat) /\ dropped' \subseteq Nat
      /\ \A i, j \in 1..Len(fired') : i < j => fired'[i] < fired'[j]
      /\ Range(fired') \cup dropped' = old \cup {i.seq : i \in S}
      /\ Range(fired') \cap dropped' = {}
  <2>1. CASE /\ dropped' = dropped /\ fired' = fired \o [n \in 1..Len(new) |-> new[n].seq]
    <3>1. /\ fired' \in Seq(Nat) /\ Range(fired') = Range(fired) \cup {i.seq : i \in S}
          /\ \A i, j \in 1..Len(fired') : i < j => fired'[i] < fired'[j]
      BY <1>2, <1>5, <2>1, FiredInOrder DEF TrkInv
    <3>2. ASSUME NEW i \in S
          PROVE  i.seq \notin dropped
      BY <1>4, <1>5
    <3>3. Range(fired) \cap dropped = {} /\ dropped \subseteq Nat
      BY DEF TrkInv
    <3>4. {i.seq : i \in S} \cap dropped = {}
      BY <3>2
    <3>5. Range(fired') \cup dropped' = old \cup {i.seq : i \in S}
      BY <2>1, <3>1, Zenon
    <3>6. Range(fired') \cap dropped' = {}
      BY <2>1, <3>1, <3>3, <3>4
    <3> QED
      BY <2>1, <3>1, <3>3, <3>5, <3>6, Zenon
  <2>2. CASE fired' = fired /\ dropped' = dropped \cup {i.seq : i \in Range(new)}
    <3>1. dropped' = dropped \cup {i.seq : i \in S}
      BY <1>2, <2>2
    <3>2. ASSUME NEW i \in S
          PROVE  i.seq \notin Range(fired)
      BY <1>4, <1>5
    <3>3. /\ Range(fired) \cap dropped = {} /\ dropped \subseteq Nat /\ fired \in Seq(Nat)
          /\ \A i, j \in 1..Len(fired) : i < j => fired[i] < fired[j]
      BY DEF TrkInv
    <3> QED
      BY <1>4, <2>2, <3>1, <3>2, <3>3
  <2> QED
    BY <1>3, <2>1, <2>2
<1>7. \A n \in seenSeq : n \in Nat /\ n <= s.seq
  BY <1>1 DEF TrkInv
<1>8. ASSUME NEW d \in old \cup {i.seq : i \in S}
      PROVE  d <= s.seq
  <2>1. CASE d \in old
    <3>1. PICK n \in seenSeq : d <= n
      BY <2>1 DEF TrkInv, Settled
    <3>2. d \in Nat
      BY <1>11, <2>1
    <3> QED
      BY <1>4, <1>7, <3>1, <3>2
  <2>2. CASE d \in {i.seq : i \in S}
    BY <1>4, <2>2
  <2> QED
    BY <2>1, <2>2
<1>9. ASSUME NEW i \in Range(ctl.edges), Fires(i.input), i.seq <= s.seq
      PROVE  i.seq \in old \cup {j.seq : j \in S}
  <2>1. i \in Range(s.actions)
    BY <1>1, <1>9 DEF Covers
  <2>2. CASE \A n \in seenSeq : i.seq > n
    BY <2>1, <2>2
  <2>3. CASE \E n \in seenSeq : ~ (i.seq > n)
    <3>1. i.seq \in Nat
      BY NewestCounter DEF TrkInv, Edges
    <3>2. \E n \in seenSeq : i.seq <= n
      BY <1>7, <2>3, <3>1
    <3> QED
      BY <1>9, <3>2 DEF TrkInv, Settled
  <2> QED
    BY <2>2, <2>3
<1>10. ASSUME NEW t \in slotted
       PROVE  t.has /\ s.seq <= t.seq
  <2>1. t = s
    BY DEF TrkInv
  <2> QED
    BY <1>4, <2>1
<1>12. Settled' = old \cup {i.seq : i \in S}
  BY <1>6 DEF Settled
<1>13. s.seq <= EdgeSeq(ctl)
  BY <1>1 DEF Covers
<1>14. /\ PadOK(ctl) /\ poseAge = realAge /\ adopted \in BOOLEAN
       /\ \A t \in slotted : SampleOK(t) /\ Covers(t, ctl) /\ (t.has => adopted)
       /\ \A t, u \in slotted : t = u
  BY DEF TrkInv
<1> HIDE DEF old, S
<1>15. /\ \A d \in Settled' : \E n \in seenSeq' : d <= n
       /\ \A i \in Range(ctl.edges) : Fires(i.input) /\ (\E n \in seenSeq' : i.seq <= n)
            => i.seq \in Settled'
  BY <1>3, <1>8, <1>9, <1>12, Zenon
<1>16. /\ seenSeq' \subseteq Nat /\ \A m, n \in seenSeq' : m = n
       /\ \A n \in seenSeq' : /\ adopted /\ n <= EdgeSeq(ctl)
                              /\ \A t \in slotted : t.has /\ n <= t.seq
  BY <1>1, <1>3, <1>4, <1>10, <1>13, Zenon
<1> QED
  BY <1>3, <1>6, <1>14, <1>15, <1>16, Zenon DEF TrkInv

(* Any read keeps it. *)
LEMMA ReadsKeep == ASSUME TrkInv, LoopReads PROVE TrkInv'
<1>1. PICK s \in slotted : IF s.has THEN _device_click_edge(s)
                           ELSE seenSeq' = {} /\ UNCHANGED <<fired, dropped>>
  BY DEF LoopReads
<1>2. UNCHANGED <<padVars, slotted, sampleAge, poseVars>>
  BY DEF LoopReads
<1>3. CASE s.has
  BY <1>1, <1>2, <1>3, ReadKeeps
<1>4. CASE ~ s.has
  <2>1. seenSeq = {}
    BY <1>4 DEF TrkInv
  <2>2. /\ UNCHANGED <<seenSeq, fired, dropped>>
        /\ UNCHANGED <<ctl, adopted, slotted, poseAge, realAge>>
    BY <1>1, <1>2, <1>4, <2>1 DEF padVars, poseVars
  <2>3. Settled' = Settled
    BY <2>2 DEF Settled
  <2> QED
    BY <2>2, <2>3, Zenon DEF TrkInv
<1> QED
  BY <1>3, <1>4

(* A press fires once, in the order of the presses, never after it was     *)
(* passed over, and none the loop has seen the counter of is left; an edge *)
(* lends no pose a freshness it has not (EdgesFireOnce).                   *)
THEOREM PressesFireOnce == TrkInit /\ [][TrkNext]_trkVars => []EdgesFireOnce
<1>1. TrkInit => TrkInv
  <2> SUFFICES ASSUME TrkInit
               PROVE  TrkInv
    OBVIOUS
  <2>1. /\ ctl = NoPad /\ adopted = FALSE /\ slotted = {} /\ poseAge = 0 /\ realAge = 0
        /\ seenSeq = {} /\ fired = <<>> /\ dropped = {}
    BY DEF TrkInit
  <2>2. PadOK(NoPad)
    BY DEF NoPad, PadOK, PadAt, Rising
  <2>3. Range(fired) = {} /\ fired \in Seq(Nat) /\ Len(fired) = 0
    BY <2>1 DEF Range
  <2>4. Settled = {}
    BY <2>1, <2>3 DEF Settled
  <2>5. \A i, j \in 1..Len(fired) : i < j => fired[i] < fired[j]
    BY <2>3
  <2> QED
    BY <2>1, <2>2, <2>3, <2>4, <2>5 DEF TrkInv
<1>2. TrkInv /\ [TrkNext]_trkVars => TrkInv'
  <2> SUFFICES ASSUME TrkInv, [TrkNext]_trkVars
               PROVE  TrkInv'
    OBVIOUS
  <2>1. CASE ButtonEvent
    <3>1. PICK b \in BOOLEAN, m \in BOOLEAN, p \in PadAt :
            _on_controller([click |-> b, menu |-> m, at |-> p])
      BY <2>1 DEF ButtonEvent
    <3>2. [click |-> b, menu |-> m, at |-> p] \in PadEvents
      BY DEF PadEvents
    <3> QED
      BY <3>1, <3>2, EventKeeps
  <2>2. CASE PoseEvent
    BY <2>2, PoseKeeps
  <2>3. CASE LoopReads
    BY <2>3, ReadsKeep
  <2>4. CASE TimePasses
    <3>1. /\ UNCHANGED <<ctl, adopted, slotted, seenSeq, fired, dropped>>
          /\ poseAge' = realAge'
      BY <2>4 DEF TimePasses, padVars, loopSideVars, TrkInv
    <3>2. Settled' = Settled
      BY <3>1 DEF Settled
    <3> QED
      BY <3>1, <3>2, Zenon DEF TrkInv
  <2>5. CASE UNCHANGED trkVars
    <3>1. UNCHANGED <<ctl, adopted, slotted, seenSeq, fired, dropped, poseAge, realAge>>
      BY <2>5 DEF trkVars, padVars, poseVars, loopSideVars
    <3>2. Settled' = Settled
      BY <3>1 DEF Settled
    <3> QED
      BY <3>1, <3>2, Zenon DEF TrkInv
  <2> QED
    BY <2>1, <2>2, <2>3, <2>4, <2>5 DEF TrkNext
<1>3. TrkInv => EdgesFireOnce
  BY Zenon DEF TrkInv, EdgesFireOnce, Settled
<1> QED
  BY <1>1, <1>2, <1>3, PTL
=============================================================================
