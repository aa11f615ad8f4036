----------------------------- MODULE Calibration -----------------------------
(***************************************************************************)
(* The tracker's calibration (devices/tracker_calibration.py) with the     *)
(* reader it restarts (devices/tracker.py) and the sessions it excludes    *)
(* (server/rest.py).  A command checks and changes the flow under a lock   *)
(* and returns; a worker runs the restarts and the install it queued, each *)
(* taking seconds, whatever became of the flow meanwhile.                  *)
(***************************************************************************)
EXTENDS Naturals, Sequences

CONSTANTS Posts,                \* calls of POST /api/session
          YawPoints,            \* clicks of the yaw gesture
          MaxFlows, MaxJobs     \* bounds: flows, jobs queued at once

VARIABLES
  flowOn, kind, stage, passed, force, points,   \* of the flow; passed: its validation
  flows, restarted, hasPose,    \* flows begun; _restart_mono is set; a pose since
  official, yawValid, sound,    \* the installed configuration's flow; history: flows validated
  jobs, work, workTmp,          \* of the worker: its queue, where it is, the install's file
  handle, contexts, args,       \* of the reader: _thread, its open contexts, its arguments
  sess, post                    \* the session; each call

flowVars == <<flowOn, kind, stage, passed, force, points, flows>>
fileVars == <<official, yawValid, sound>>
sampleVars == <<restarted, hasPose>>
workVars == <<jobs, work, workTmp>>
readerVars == <<handle, contexts, args>>
postVars == <<sess, post>>
calVars == <<flowVars, fileVars, sampleVars, workVars, readerVars, postVars>>

CalInit ==
  /\ flowOn = FALSE /\ kind = "none" /\ stage = "idle" /\ passed = FALSE /\ force = FALSE
  /\ points = 0 /\ flows = 0 /\ restarted = FALSE /\ hasPose = FALSE
  /\ official = 0 /\ yawValid = TRUE /\ sound = {0}
  /\ jobs = <<>> /\ work = "idle" /\ workTmp = 0
  /\ handle = TRUE /\ contexts = 1 /\ args = "normal"
  /\ sess = "none" /\ post = [p \in Posts |-> "idle"]

has_session == sess # "none"

------------------------------------------------------------------------------
(* Commands, under the lock. *)
_enqueue(job) == jobs' = Append(jobs, job) /\ Len(jobs) < MaxJobs

Begin(k, p) == /\ flows < MaxFlows /\ flows' = flows + 1
               /\ flowOn' = TRUE /\ kind' = k /\ stage' = p
               /\ passed' = FALSE /\ points' = 0
               /\ restarted' = FALSE /\ hasPose' = FALSE

_finish(p) == flowOn' = FALSE /\ stage' = p /\ UNCHANGED <<kind, force, flows>>

BaseFlow(ps) == flowOn /\ kind = "base_station" /\ stage \in ps

BaseStart == /\ ~has_session /\ ~flowOn
             /\ Begin("base_station", "starting") /\ force' = TRUE
             /\ _enqueue("capture")
             /\ UNCHANGED <<fileVars, work, workTmp, readerVars, postVars>>

BaseCapture == /\ BaseFlow({"done", "validating"})
               /\ stage' = "starting" /\ force' = FALSE /\ passed' = FALSE
               /\ _enqueue("capture")
               /\ UNCHANGED <<flowOn, kind, points, flows, sampleVars, fileVars, work, workTmp,
                              readerVars, postVars>>

(* Once the solver has scenes enough. *)
BaseValidate == /\ BaseFlow({"capturing", "done"})
                /\ stage' = "validating" /\ passed' = FALSE
                /\ _enqueue("validation")
                /\ UNCHANGED <<flowOn, kind, force, points, flows, sampleVars, fileVars, work,
                               workTmp, readerVars, postVars>>

BaseInstall == /\ BaseFlow({"done"}) /\ passed
               /\ stage' = "installing" /\ _enqueue("install")
               /\ UNCHANGED <<flowOn, kind, passed, force, points, flows, sampleVars, fileVars,
                              work, workTmp, readerVars, postVars>>

(* Taken in every stage, the install's included. *)
BaseAbort == /\ flowOn /\ kind = "base_station"
             /\ _finish("aborted") /\ _enqueue("normal")
             /\ UNCHANGED <<passed, points, sampleVars, fileVars, work, workTmp, readerVars, postVars>>

YawStart == /\ ~has_session /\ (flowOn => kind = "yaw")
            /\ Begin("yaw", "capturing") /\ force' = FALSE
            /\ UNCHANGED <<fileVars, workVars, readerVars, postVars>>

_capture_point ==
  /\ flowOn /\ kind = "yaw" /\ stage = "capturing" /\ hasPose
  /\ points' = points + 1
  /\ \/ points' < YawPoints /\ UNCHANGED <<stage, passed>>
     \/ points' = YawPoints /\ stage' = "done" /\ passed' \in BOOLEAN   \* the fit's checks
  /\ UNCHANGED <<flowOn, kind, force, flows, sampleVars, fileVars, workVars, readerVars, postVars>>

(* The file may refuse: the flow stays, and what is in memory is already valid. *)
YawApply == /\ flowOn /\ kind = "yaw" /\ stage = "done" /\ passed
            /\ yawValid' = TRUE
            /\ \/ _finish("done") \/ UNCHANGED <<flowOn, stage, kind, force, flows>>
            /\ UNCHANGED <<passed, points, sampleVars, official, sound, workVars, readerVars, postVars>>

YawAbort == /\ flowOn /\ kind = "yaw" /\ _finish("aborted") /\ points' = 0 /\ passed' = FALSE
            /\ UNCHANGED <<sampleVars, fileVars, workVars, readerVars, postVars>>

Commands == \/ BaseStart \/ BaseCapture \/ BaseValidate \/ BaseInstall \/ BaseAbort
            \/ YawStart \/ _capture_point \/ YawApply \/ YawAbort

------------------------------------------------------------------------------
(* The reader.  stop() joins its thread; if the close hangs, the handle stays with it. *)
DropsHandle == handle' = FALSE   \* mutant: the handle is given up at the time-out
KeepsHandle == UNCHANGED handle

StopsReader == handle' = FALSE /\ contexts' = contexts - (IF handle THEN 1 ELSE 0)
StopTimesOut == handle /\ KeepsHandle /\ UNCHANGED contexts

(* restart(): nothing is started unless the old thread is gone. *)
Restarts(a) == handle' = TRUE /\ args' = a
               /\ contexts' = contexts + (IF handle THEN 0 ELSE 1)

(* A thread that was slow to close, or found no library, ends by itself. *)
ReaderEnds == /\ contexts > 0 /\ contexts' = contexts - 1 /\ handle' = FALSE
              /\ UNCHANGED <<args, flowVars, fileVars, sampleVars, workVars, postVars>>

------------------------------------------------------------------------------
(* The worker. *)
WorkGoes(at) == work' = at /\ UNCHANGED <<jobs, workTmp>>
KeepsFlow == UNCHANGED <<flowVars, sampleVars>>

(* _tmp: the file of the flow begun last; a yaw flow begins with none, and the install that an
   aborted flow left behind then fails its assertion, and that flow with it. *)
HasTmp == kind = "base_station"

PopJob == /\ work = "idle" /\ jobs # <<>>
          /\ jobs' = Tail(jobs) /\ workTmp' = flows
          /\ \/ Head(jobs) = "install" /\ work' = IF HasTmp THEN "install" ELSE "fail"
             \/ Head(jobs) # "install" /\ work' = "restart " \o Head(jobs)
          /\ KeepsFlow /\ UNCHANGED <<fileVars, readerVars, postVars>>

RestartJob(a) ==
  /\ work = "restart " \o a
  /\ \/ StopsReader /\ UNCHANGED args /\ WorkGoes("start " \o a)
     \/ StopTimesOut /\ UNCHANGED args /\ WorkGoes("fail")
  /\ KeepsFlow /\ UNCHANGED <<fileVars, postVars>>

StartJob(a) ==
  /\ work = "start " \o a /\ Restarts(a) /\ WorkGoes("idle")
  /\ restarted' = TRUE /\ hasPose' = FALSE
  /\ UNCHANGED <<flowVars, fileVars, postVars>>

(* Whatever flow there is now is failed. *)
_fail == /\ work = "fail"
         /\ _finish("failed") /\ UNCHANGED <<passed, points>>
         /\ WorkGoes(IF kind = "base_station" THEN "restore" ELSE "idle")
         /\ UNCHANGED <<sampleVars, fileVars, readerVars, postVars>>

(* Back to the normal arguments; when that fails too it is only logged. *)
Restore == /\ work = "restore" /\ WorkGoes("idle")
           /\ \/ /\ handle' = TRUE /\ args' = "normal" /\ contexts' = contexts + (IF handle THEN 0 ELSE 1)
              \/ StopTimesOut /\ UNCHANGED args
           /\ KeepsFlow /\ UNCHANGED <<fileVars, postVars>>

InstallStops == /\ work = "install"
                /\ \/ StopsReader /\ WorkGoes("write")
                   \/ StopTimesOut /\ WorkGoes("undo")
                /\ UNCHANGED args /\ KeepsFlow /\ UNCHANGED <<fileVars, postVars>>

InstallWrites == /\ work = "write"
                 /\ \/ /\ official' = workTmp /\ yawValid' = FALSE /\ WorkGoes("installed")
                       /\ UNCHANGED sound
                    \/ UNCHANGED fileVars /\ WorkGoes("undo")      \* the disk refuses
                 /\ KeepsFlow /\ UNCHANGED <<readerVars, postVars>>

(* The restart in the finally clause, after a failure: its own outcome changes nothing more. *)
InstallUndone == /\ work = "undo" /\ WorkGoes("fail")
                 /\ \/ Restarts("normal") \/ UNCHANGED readerVars
                 /\ KeepsFlow /\ UNCHANGED <<fileVars, postVars>>

InstallEnds == /\ work = "installed" /\ Restarts("normal") /\ WorkGoes("idle")
               /\ _finish("done") /\ UNCHANGED <<passed, points>>
               /\ UNCHANGED <<sampleVars, fileVars, postVars>>

PoseArrives == /\ contexts > 0 /\ ~hasPose /\ hasPose' = TRUE
               /\ UNCHANGED <<flowVars, restarted, fileVars, workVars, readerVars, postVars>>

(* The worker's look at the flow, between two jobs or before one queued meanwhile. *)
_bs_tick ==
  /\ work = "idle" /\ flowOn /\ kind = "base_station"
  /\ \/ /\ stage = "starting" /\ stage' = "capturing"
        /\ force \/ (restarted /\ hasPose)
        /\ UNCHANGED <<passed, sound>>
     \/ /\ stage = "validating" /\ restarted /\ stage' = "done"
        /\ passed' \in {FALSE, hasPose}
        /\ sound' = IF passed' THEN sound \cup {flows} ELSE sound
  /\ UNCHANGED <<flowOn, kind, force, points, flows, sampleVars, official, yawValid, workVars,
                 readerVars, postVars>>

Modes == {"normal", "capture", "validation"}

WorkerStep == \/ PopJob \/ _fail \/ Restore \/ InstallStops \/ InstallWrites \/ InstallUndone
              \/ InstallEnds \/ _bs_tick
              \/ \E a \in Modes : RestartJob(a) \/ StartJob(a)

------------------------------------------------------------------------------
(* POST /api/session: the check, the create, and the check once more. *)
PostGoes(p, at) == post' = [post EXCEPT ![p] = at]
PostOnly == UNCHANGED <<flowVars, fileVars, sampleVars, workVars, readerVars>>

PostCheck(p) == /\ post[p] = "idle" /\ ~flowOn /\ PostGoes(p, "create")
                /\ UNCHANGED sess /\ PostOnly

PostCreate(p) == /\ post[p] = "create"
                 /\ IF has_session THEN PostGoes(p, "idle") /\ UNCHANGED sess
                                      ELSE PostGoes(p, "creating") /\ sess' = "creating"
                 /\ PostOnly

PostCreated(p) == /\ post[p] = "creating"
                  /\ \/ sess' = "up" /\ PostGoes(p, "again")
                     \/ sess' = "none" /\ PostGoes(p, "idle")
                  /\ PostOnly

(* mutant: the second look is only taken. *)
PostTrusts(p) == post[p] = "again" /\ PostGoes(p, "idle") /\ UNCHANGED sess /\ PostOnly

PostAgain(p) == /\ post[p] = "again" /\ PostGoes(p, "idle")
                /\ \/ flowOn /\ sess # "creating" /\ sess' = "none"
                   \/ ~flowOn /\ UNCHANGED sess
                /\ PostOnly

EndOfSession == sess = "up" /\ sess' = "none" /\ UNCHANGED post /\ PostOnly

CalNext == \/ Commands \/ WorkerStep \/ ReaderEnds \/ PoseArrives \/ EndOfSession
           \/ \E p \in Posts : PostCheck(p) \/ PostCreate(p) \/ PostCreated(p) \/ PostAgain(p)

CalSpec == CalInit /\ [][CalNext]_calVars

------------------------------------------------------------------------------
(* A session that was answered for and a calibration never run together, though neither side
   holds the other's lock from its check to its start. *)
GuardsExclude == (sess = "up" /\ \A p \in Posts : post[p] = "idle") => ~flowOn

(* A second context of the receiver is never opened, however long the first takes to close. *)
OneContext == contexts <= 1

(* What the class comment says: a reader restart must never hit a running session. The code does
   not keep it (README, part 5). *)
NoRestartInSession == sess = "up" => \A a \in Modes : work # "start " \o a
==========================================================================
