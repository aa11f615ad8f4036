------------------------------ MODULE Boxes ------------------------------
(***************************************************************************)
(* Who holds the arms' control boxes: the read-only monitor                *)
(* (devices/hardware_monitor.py), a session's drivers (session/manager.py) *)
(* or a rail-homing job (devices/rail_homing.py).  The monitor's           *)
(* supervisor follows a predicate it reads before it takes a lock, a       *)
(* session and a job hand over under the manager's lock, and the homing    *)
(* requests reserve the cell under a third one.                            *)
(***************************************************************************)
EXTENDS Naturals, FiniteSets

CONSTANTS HwArms,
          Requests,     \* REST calls in flight at once
          Plans,        \* pre-positioning plans an evaluation may find
          NoPlan, NoArm,
          MaxSessions, MaxAsks   \* bounds

VARIABLES
  lock,        \* manager._lock: free, or what its holder does next
  creating, creatingHw, session, rig,     \* of the manager
  paused, client, op, seen,   \* of the monitor; seen: what its supervisor has read and not applied
  pending, job, shown,        \* of the homing service
  req, reqArm, reqOp,         \* the calls: where, for which arm, what
  made, asked

managerVars == <<lock, creating, creatingHw, session, rig, made>>
monitorVars == <<paused, client, op>>
homingVars == <<pending, job, shown>>
reqVars == <<req, reqArm, reqOp, asked>>
boxVars == <<managerVars, monitorVars, seen, homingVars, reqVars>>

Nothing == "none"

BoxInit ==
  /\ lock = "free" /\ creating = FALSE /\ creatingHw = FALSE /\ session = Nothing /\ rig = FALSE
  /\ paused = FALSE /\ client = [a \in HwArms |-> "on"] /\ op = [a \in HwArms |-> Nothing]
  /\ seen = {}
  /\ pending = {} /\ job = [a \in HwArms |-> Nothing] /\ shown = [a \in HwArms |-> NoPlan]
  /\ req = [r \in Requests |-> "idle"] /\ reqArm = [r \in Requests |-> NoArm]
  /\ reqOp = [r \in Requests |-> Nothing]
  /\ made = 0 /\ asked = 0

BoxTypeOK ==
  /\ lock \in {"free", "create", "validate", "pause", "join", "publish", "sim", "abort",
               "resume", "job"}
  /\ creating \in BOOLEAN /\ creatingHw \in BOOLEAN /\ rig \in BOOLEAN
  /\ session \in {Nothing, "sim", "hardware"}
  /\ paused \in BOOLEAN /\ client \in [HwArms -> {"on", "leaving", "off"}]
  /\ op \in [HwArms -> {Nothing, "write", "home"}] /\ seen \subseteq BOOLEAN
  /\ pending \subseteq HwArms
  /\ job \in [HwArms -> {Nothing, "queued", "pause", "join", "moving", "homing", "stop",
                         "resume"}]
  /\ shown \in [HwArms -> Plans \cup {NoPlan}]
  /\ req \in [Requests -> {"idle", "asked", "admitted", "reserved", "checked", "execute",
                           "waiting"}]
  /\ reqArm \in [Requests -> HwArms \cup {NoArm}]
  /\ reqOp \in [Requests -> {Nothing, "write", "home", "dry"}]

------------------------------------------------------------------------------
session_active == creating \/ session # Nothing

OwnsBox(a) == job[a] \in {"pause", "join", "moving", "homing", "stop"}
Drives(a) == job[a] \in {"moving", "homing", "stop"}
Busy(a) == op[a] # Nothing \/ job[a] # Nothing

hardware_session_active == creatingHw \/ session = "hardware"

(* The hand-over predicate the monitor polls. *)
HandedOver == hardware_session_active \/ \E a \in HwArms : OwnsBox(a)

ActiveArms == pending \cup {a \in HwArms : job[a] # Nothing}

(* A client inside an SDK call lets the box go when the call returns. *)
Released == [a \in HwArms |-> IF client[a] # "on" THEN client[a]
                              ELSE IF op[a] = Nothing THEN "off" ELSE "leaving"]

_apply_paused(flag) ==
  /\ paused' = flag
  /\ client' = IF flag = paused THEN client
               ELSE IF flag THEN Released ELSE [a \in HwArms |-> "on"]
  /\ UNCHANGED op

(* The supervisor: the predicate first, the lock and the walk afterwards. *)
Look == /\ seen = {} /\ seen' = {HandedOver}
        /\ UNCHANGED <<managerVars, monitorVars, homingVars, reqVars>>

(* mutant: the predicate is evaluated once, before the loop. *)
ReadOnce == /\ \E flag \in seen : _apply_paused(flag)
            /\ UNCHANGED <<seen, managerVars, homingVars, reqVars>>

_run_monitor == /\ \E flag \in seen : _apply_paused(flag)
                /\ seen' = {}
                /\ UNCHANGED <<managerVars, homingVars, reqVars>>

(* The arm's poll thread finishes an operation, or comes back from the SDK. *)
OpEnds(a) ==
  /\ op[a] # Nothing /\ op' = [op EXCEPT ![a] = Nothing]
  /\ client' = [client EXCEPT ![a] = IF @ = "leaving" THEN "off" ELSE @]
  /\ UNCHANGED <<managerVars, paused, seen, homingVars, reqVars>>

------------------------------------------------------------------------------
(* The session manager, under its lock. *)
Create == /\ lock = "free" /\ made < MaxSessions /\ made' = made + 1
          /\ lock' = "create" /\ creating' = TRUE
          /\ UNCHANGED <<creatingHw, session, rig, monitorVars, seen, homingVars, reqVars>>

Refused == lock' = "free" /\ creating' = FALSE /\ UNCHANGED <<creatingHw, session, rig, made>>

GuardSession ==
  /\ lock = "create"
  /\ IF ActiveArms = {}
     THEN lock' = "validate" /\ UNCHANGED <<creating, creatingHw, session, rig, made>>
     ELSE Refused
  /\ UNCHANGED <<monitorVars, seen, homingVars, reqVars>>

(* A hardware session needs every arm's monitor connected and no operation on any. *)
_validate_hardware == \A a \in HwArms : client[a] = "on" /\ ~Busy(a)

Validate ==
  /\ lock = "validate"
  /\ \/ Refused
     \/ /\ session = Nothing /\ lock' = "sim"
        /\ UNCHANGED <<creating, creatingHw, session, rig, made>>
     \/ /\ session = Nothing /\ _validate_hardware
        /\ creatingHw' = TRUE /\ lock' = "pause"
        /\ UNCHANGED <<creating, session, rig, made>>
  /\ UNCHANGED <<monitorVars, seen, homingVars, reqVars>>

PauseForSession ==
  /\ lock = "pause" /\ _apply_paused(TRUE) /\ lock' = "join"
  /\ UNCHANGED <<creating, creatingHw, session, rig, made, seen, homingVars, reqVars>>

ReleasedAll == \A a \in HwArms : client[a] = "off"   \* join() found no poll thread alive

connect_hardware_rig ==
  /\ lock = "join" /\ ReleasedAll
  /\ rig' = TRUE /\ lock' = "publish"
  /\ UNCHANGED <<creating, creatingHw, session, made, monitorVars, seen, homingVars, reqVars>>

_abort_hardware_bringup ==
  /\ lock \in {"join", "publish"}
  /\ rig' = FALSE /\ creatingHw' = FALSE /\ lock' = "abort"
  /\ UNCHANGED <<creating, session, made, monitorVars, seen, homingVars, reqVars>>

Resume == _apply_paused(HandedOver)

AbortResumes ==
  /\ lock = "abort" /\ Resume /\ creating' = FALSE /\ lock' = "free"
  /\ UNCHANGED <<creatingHw, session, rig, made, seen, homingVars, reqVars>>

Publish ==
  /\ lock \in {"publish", "sim"} /\ lock' = "free"
  /\ creating' = FALSE /\ creatingHw' = FALSE
  /\ \/ session' = IF lock = "sim" THEN "sim" ELSE "hardware"
     \/ lock = "sim" /\ UNCHANGED session             \* the simulation did not come up
  /\ UNCHANGED <<rig, made, monitorVars, seen, homingVars, reqVars>>

teardown ==
  /\ lock = "free" /\ session # Nothing
  /\ rig' = FALSE /\ session' = Nothing
  /\ lock' = IF session = "hardware" THEN "resume" ELSE "free"
  /\ UNCHANGED <<creating, creatingHw, made, monitorVars, seen, homingVars, reqVars>>

TeardownResumes ==
  /\ lock = "resume" /\ Resume /\ lock' = "free"
  /\ UNCHANGED <<creating, creatingHw, session, rig, made, seen, homingVars, reqVars>>

ManagerStep == \/ GuardSession \/ Validate \/ PauseForSession \/ connect_hardware_rig
               \/ _abort_hardware_bringup \/ AbortResumes \/ Publish \/ TeardownResumes

------------------------------------------------------------------------------
(* A REST call: who is homing, who owns the boxes, and only then the reservation. *)
Ask(r, a, what) ==
  /\ req[r] = "idle" /\ asked < MaxAsks /\ asked' = asked + 1
  /\ ActiveArms = {}
  /\ req' = [req EXCEPT ![r] = "asked"]
  /\ reqArm' = [reqArm EXCEPT ![r] = a] /\ reqOp' = [reqOp EXCEPT ![r] = what]
  /\ UNCHANGED <<managerVars, monitorVars, seen, homingVars>>

Answered(r) == /\ req' = [req EXCEPT ![r] = "idle"] /\ reqArm' = [reqArm EXCEPT ![r] = NoArm]
               /\ reqOp' = [reqOp EXCEPT ![r] = Nothing] /\ UNCHANGED asked

Goes(r, at) == req' = [req EXCEPT ![r] = at] /\ UNCHANGED <<reqArm, reqOp, asked>>

arm_maintenance(r) ==
  /\ req[r] = "asked"
  /\ IF HandedOver \/ (reqOp[r] # "write" /\ session_active) THEN Answered(r)
                                                           ELSE Goes(r, "admitted")
  /\ UNCHANGED <<managerVars, monitorVars, seen, homingVars>>

(* One write on a connected monitor. *)
maintenance(r) ==
  LET a == reqArm[r] IN
  /\ req[r] = "admitted" /\ reqOp[r] = "write"
  /\ IF client[a] = "on" /\ ~Busy(a)
     THEN op' = [op EXCEPT ![a] = "write"] /\ Goes(r, "waiting")
     ELSE Answered(r) /\ UNCHANGED op
  /\ UNCHANGED <<managerVars, paused, client, seen, homingVars>>

OwnArmOnly(a) == a \notin ActiveArms   \* mutant: only the arm's own reservation counts
Reservable(a) == ActiveArms = {}

_reserve(r) ==
  /\ req[r] = "admitted" /\ reqOp[r] # "write"
  /\ IF Reservable(reqArm[r]) THEN pending' = pending \cup {reqArm[r]} /\ Goes(r, "reserved")
                              ELSE Answered(r) /\ UNCHANGED pending
  /\ UNCHANGED <<managerVars, monitorVars, seen, job, shown>>

Release(r) == pending' = pending \ {reqArm[r]} /\ Answered(r)

home_rail_preflight(a) == client[a] = "on" /\ \A b \in HwArms : ~Busy(b)

Preflight(r) ==
  /\ req[r] = "reserved"
  /\ \/ home_rail_preflight(reqArm[r]) /\ Goes(r, "checked") /\ UNCHANGED pending
     \/ Release(r)
  /\ UNCHANGED <<managerVars, monitorVars, seen, job, shown>>

(* The sweep is clear, or a plan is found, or there is none.  A plan other than the one the
   dry run showed is not executed. *)
_request_reserved(r) ==
  LET a == reqArm[r] IN
  /\ req[r] = "checked"
  /\ \/ /\ shown' = [shown EXCEPT ![a] = NoPlan] /\ UNCHANGED job
        /\ IF reqOp[r] = "dry" THEN Release(r) ELSE Goes(r, "execute") /\ UNCHANGED pending
     \/ Release(r) /\ UNCHANGED <<job, shown>>
     \/ /\ Release(r)
        /\ \E p \in Plans :
           \/ reqOp[r] = "dry" /\ shown' = [shown EXCEPT ![a] = p] /\ UNCHANGED job
           \/ /\ reqOp[r] = "home" /\ shown[a] \in {NoPlan, p}
              /\ job' = [job EXCEPT ![a] = "queued"] /\ shown' = [shown EXCEPT ![a] = NoPlan]
  /\ UNCHANGED <<managerVars, monitorVars, seen>>

home_rail_execute(r) ==
  LET a == reqArm[r] IN
  /\ req[r] = "execute"
  /\ IF client[a] = "on" /\ ~Busy(a)
     THEN op' = [op EXCEPT ![a] = "home"] /\ Goes(r, "waiting") /\ UNCHANGED pending
     ELSE Release(r) /\ UNCHANGED op
  /\ UNCHANGED <<managerVars, paused, client, seen, job, shown>>

(* The operation ended, or the caller waited long enough: the box goes on either way. *)
Outcome(r) == /\ req[r] = "waiting"
              /\ IF reqOp[r] = "write" THEN Answered(r) /\ UNCHANGED pending ELSE Release(r)
              /\ UNCHANGED <<managerVars, monitorVars, seen, job, shown>>

------------------------------------------------------------------------------
(* The job: a driver for its arm alone, connected under the manager's lock. *)
JobGoes(a, phase) == job' = [job EXCEPT ![a] = phase]
JobOnly == UNCHANGED <<pending, shown, reqVars, seen>>
KeepsManager == UNCHANGED <<creating, creatingHw, session, rig, made>>

JobFails(a) ==    \* before its connect: it did not pause the monitor
  /\ job[a] = "queued" /\ JobGoes(a, Nothing)
  /\ JobOnly /\ UNCHANGED <<managerVars, monitorVars>>

_connect(a) ==
  /\ job[a] = "queued" /\ lock = "free" /\ ~session_active
  /\ \A b \in HwArms : ~OwnsBox(b)
  /\ ActiveArms = {a}
  /\ JobGoes(a, "pause") /\ lock' = "job"
  /\ JobOnly /\ KeepsManager /\ UNCHANGED monitorVars

JobPauses(a) == /\ job[a] = "pause" /\ _apply_paused(TRUE) /\ JobGoes(a, "join")
                /\ JobOnly /\ UNCHANGED managerVars

JobJoins(a) ==
  /\ job[a] = "join" /\ lock' = "free"
  /\ \/ ReleasedAll /\ JobGoes(a, "moving")
     \/ JobGoes(a, "resume")
  /\ JobOnly /\ KeepsManager /\ UNCHANGED monitorVars

_execute_plan(a) == /\ job[a] = "moving" /\ (JobGoes(a, "homing") \/ JobGoes(a, "stop"))
                    /\ JobOnly /\ UNCHANGED <<managerVars, monitorVars>>

JobHomes(a) == /\ job[a] = "homing" /\ JobGoes(a, "stop")
               /\ JobOnly /\ UNCHANGED <<managerVars, monitorVars>>

_teardown(a) == /\ job[a] = "stop" /\ JobGoes(a, "resume")
                /\ JobOnly /\ UNCHANGED <<managerVars, monitorVars>>

_resume_monitor(a) == /\ job[a] = "resume" /\ Resume /\ JobGoes(a, Nothing)
                      /\ JobOnly /\ UNCHANGED managerVars

JobStep(a) == \/ JobFails(a) \/ _connect(a) \/ JobPauses(a) \/ JobJoins(a) \/ _execute_plan(a)
              \/ JobHomes(a) \/ _teardown(a) \/ _resume_monitor(a)

------------------------------------------------------------------------------
RequestStep(r) == \/ arm_maintenance(r) \/ maintenance(r) \/ _reserve(r) \/ Preflight(r)
                  \/ _request_reserved(r) \/ home_rail_execute(r) \/ Outcome(r)

Supervisor == Look \/ _run_monitor

BoxNext == \/ Create \/ ManagerStep \/ teardown \/ Supervisor
           \/ \E a \in HwArms : OpEnds(a) \/ JobStep(a)
           \/ \E r \in Requests : RequestStep(r)
           \/ \E r \in Requests, a \in HwArms, what \in {"write", "home", "dry"} : Ask(r, a, what)

BoxSpec == BoxInit /\ [][BoxNext]_boxVars

(* The session's drivers and a job's are never connected together, the predicate is up as long
   as any of them is, and only one carriage moves. *)
OneOwner ==
  /\ ~(rig /\ \E a \in HwArms : Drives(a))
  /\ rig \/ (\E a \in HwArms : Drives(a)) => HandedOver
  /\ Cardinality({a \in HwArms : op[a] = "home" \/ job[a] = "homing"}) <= 1

(* Whatever the supervisor saw too late, it follows in the end: the monitor is paused exactly
   while its boxes are handed over. *)
MonitorFollows == []<>(paused <=> HandedOver)

(* What the comment above hardware_session_active says: the supervisor never connects the
   monitor to the boxes in the middle of a hardware bring-up. The code does not keep it (README,
   part 5). *)
NoSecondClient == rig => \A a \in HwArms : client[a] # "on"
==========================================================================
