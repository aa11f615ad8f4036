--------------------------- MODULE SessionMotions ---------------------------
(***************************************************************************)
(* The threads of a session that take no lock: its control loop (as the    *)
(* manager sees it), the start_from worker, the profile-motion workers     *)
(* and the loop's plan workers (session/manager.py, control/loop.py).      *)
(* Worker w walks pc[w]:                                                   *)
(*   start_from   begin judge mark plan <legs> settle settled rows         *)
(*   profile      asked plan <legs> release                                *)
(*   <legs>       leg acking polling stopped reason arrive                 *)
(***************************************************************************)
EXTENDS Session

loopFrame == <<session, lock, bringup, specVars, rigVars, wired, planner, claim, leg, of, asks>>
workerFrame == <<session, lock, specVars, rigVars, faultVars, motionVars, planner, gotos>>
workerData == <<bringup, state, queue, claim, leg, of, ack, asks>>

LegPcs == {"leg", "acking", "reacking", "polling", "overdue", "stopped", "reason", "arrive"}
InMotion(w) == pc[w] \in {"plan", "release"} \union LegPcs

-----------------------------------------------------------------------------
(* The control loop of s.  While it is in the manager's callback it does   *)
(* nothing else.                                                           *)
Turn(s) == loop[s] = "on" /\ callback[s] = None

Load(s, c) ==
  /\ moving' = [moving EXCEPT ![s] = c]
  /\ cancelled' = [cancelled EXCEPT ![s] = FALSE]
  /\ UNCHANGED planning

Cancel(s) ==
  /\ moving' = [moving EXCEPT ![s] = None]
  /\ cancelled' = [cancelled EXCEPT ![s] = TRUE]
  /\ UNCHANGED planning

Ack(w, answer) ==          \* to a worker that still waits for it
  ack' = IF pc[w] \in {"acking", "reacking"} THEN [ack EXCEPT ![w] = answer] ELSE ack

Busy(s) == moving[s] # None \/ planning[s]

(* One queued command; which arm a plan moves is not modelled, so an arm   *)
(* that is not ok may refuse it or not.                                    *)
DrainExecute(s, c) ==
  /\ c.op = "execute"
  /\ \/ ~ Busy(s) /\ Load(s, c) /\ Ack(c.by, "ok")
     \/ (Busy(s) \/ arms[s] # "ok") /\ Ack(c.by, "nak") /\ UNCHANGED motionVars

DrainCancel(s, c) ==
  /\ c.op = "cancel"
  /\ IF moving[s] # None THEN Cancel(s) ELSE UNCHANGED motionVars
  /\ UNCHANGED ack

(* A goto's plan, whoever asked for it; it may have failed. *)
DrainReady(s, c) ==
  /\ c.op = "ready"
  /\ planning' = [planning EXCEPT ![s] = FALSE]
  /\ \E found \in BOOLEAN :
        moving' = IF found /\ moving[s] = None THEN [moving EXCEPT ![s] = c] ELSE moving
  /\ UNCHANGED <<cancelled, ack>>

Drain(s) ==
  /\ Turn(s) /\ queue # <<>>
  /\ queue' = Tail(queue)
  /\ LET c == Head(queue) IN DrainExecute(s, c) \/ DrainCancel(s, c) \/ DrainReady(s, c)
  /\ UNCHANGED <<loopFrame, state, arms, reported, callback, faults, gotos, pc>>

(* joint_target, mode goto: the plan worker answers when it is done, to    *)
(* whichever loop drains the bus then.                                     *)
Goto(s) ==
  /\ Turn(s) /\ session = s /\ gotos < MaxGotos
  /\ ~ Busy(s)
  /\ planning' = [planning EXCEPT ![s] = TRUE]
  /\ planner' = planner \union {s} /\ gotos' = gotos + 1
  /\ UNCHANGED <<session, lock, bringup, specVars, state, rigVars, faultVars, moving, cancelled,
                 queue, workerVars>>

PlannerDone(s) ==
  /\ s \in planner /\ planner' = planner \ {s}
  /\ queue' = Append(queue, [op |-> "ready", by |-> s])
  /\ UNCHANGED <<session, lock, bringup, specVars, state, rigVars, gotos, threads>>

(* The motion arrives, or the gate's hold limit or an operator stops it.   *)
Arrive(s) ==
  /\ Turn(s) /\ moving[s] # None
  /\ moving' = [moving EXCEPT ![s] = None]
  /\ UNCHANGED <<loopFrame, state, faultVars, cancelled, planning, queue, gotos, pc, ack>>

Interrupt(s) ==
  /\ Turn(s) /\ moving[s] # None
  /\ Cancel(s)
  /\ UNCHANGED <<loopFrame, state, faultVars, queue, gotos, pc, ack>>

(* A driver fault ends a profile motion; another motion only if it moves   *)
(* the arm that faulted.                                                   *)
ProfileMoves == [op : {"execute"}, by : Motions]

ArmFault(s) ==
  /\ Turn(s) /\ arms[s] # "fault" /\ faults < MaxFaults
  /\ faults' = faults + 1 /\ arms' = [arms EXCEPT ![s] = "fault"]
  /\ \/ moving[s] # None /\ Cancel(s)
     \/ moving[s] \notin ProfileMoves /\ UNCHANGED motionVars
  /\ UNCHANGED <<loopFrame, state, reported, callback, queue, gotos, pc, ack>>

ArmRecovers(s) ==
  /\ Turn(s) /\ arms[s] # "ok"
  /\ arms' = [arms EXCEPT ![s] = IF @ = "fault" THEN "recovering" ELSE "ok"]
  /\ UNCHANGED <<loopFrame, state, reported, callback, faults, motionVars, queue, gotos, pc, ack>>

(* _publish_fault_state calls _on_arm_fault_state, which reads the state   *)
(* and then writes it.                                                     *)
Word(arm) == IF arm = "ok" THEN "running" ELSE arm

GivesWay(arm) ==
  IF arm = "ok" THEN {"fault", "recovering"}
  ELSE {"bringup", "start_from", "running", "fault", "recovering"} \ {arm}

PublishFault(s) ==
  /\ Turn(s) /\ wired[s] /\ arms[s] # reported[s]
  /\ reported' = [reported EXCEPT ![s] = arms[s]]
  /\ callback' = IF session = s /\ state[s] \in GivesWay(arms[s])
                 THEN [callback EXCEPT ![s] = Word(arms[s])] ELSE callback
  /\ UNCHANGED <<loopFrame, state, arms, faults, motionVars, queue, gotos, pc, ack>>

CallbackWrites(s) ==
  /\ loop[s] = "on" /\ callback[s] # None
  /\ state' = [state EXCEPT ![s] = callback[s]]
  /\ callback' = [callback EXCEPT ![s] = None]
  /\ UNCHANGED <<loopFrame, arms, reported, faults, motionVars, queue, gotos, pc, ack>>

LoopStep(s) == Drain(s) \/ Arrive(s) \/ Interrupt(s) \/ PublishFault(s) \/ CallbackWrites(s)
OutsideStep(s) == Goto(s) \/ PlannerDone(s) \/ ArmFault(s) \/ ArmRecovers(s)

-----------------------------------------------------------------------------
(* A worker's step from p to r.                                            *)
Steps(w, p, r) == pc[w] = p /\ pc' = [pc EXCEPT ![w] = r]
Only(w) == UNCHANGED <<workerFrame, workerData>>
StateOf(w) == state[of[w]]
Running(w) == IF w \in Ids THEN StateOf(w) # "teardown" ELSE StateOf(w) = "running"
Ends(w) == IF w \in Ids THEN "settle" ELSE "release"

(* _start_from_worker *)
BeginKeep(s) ==
  /\ startFrom[s] = "keep"
  /\ Steps(s, "begin", IF state[s] = "bringup" THEN "settled" ELSE "off")
  /\ Only(s)

BeginProfile(s) ==
  /\ startFrom[s] = "profile"
  /\ Steps(s, "begin", IF state[s] = "teardown" THEN "off" ELSE "judge")
  /\ Only(s)

(* after the grace of _await_arms_clear, whatever it waited for *)
Judge(s) ==
  /\ Steps(s, "judge", IF state[s] = "teardown" THEN "off"
                       ELSE IF state[s] \in {"bringup", "running"} THEN "mark" ELSE "plan")
  /\ Only(s)

WriteState(s, p, new, r) ==
  /\ Steps(s, p, r) /\ state' = [state EXCEPT ![s] = new]
  /\ UNCHANGED <<workerFrame, bringup, queue, claim, leg, of, ack, asks>>

Mark(s) == WriteState(s, "mark", "start_from", "plan")

SettleAlways(s) ==          \* mutant: the motion's end only drops the rows
  /\ Steps(s, "settle", "rows")
  /\ Only(s)

Settle(s) ==
  /\ Steps(s, "settle", IF state[s] = "start_from" THEN "settled" ELSE "rows")
  /\ Only(s)

Settled(s) == WriteState(s, "settled", "running", "rows")
Crashed(s) == WriteState(s, "crashed", "fault", "rows")

DropRows(s) ==
  /\ Steps(s, "rows", "off") /\ bringup' = 0
  /\ UNCHANGED <<workerFrame, state, queue, claim, leg, of, ack, asks>>

(* Both: the twin plans, from the measured posture; an unexpected error    *)
(* ends a start_from in FAULT.                                             *)
Plan(w) ==
  /\ pc[w] = "plan"
  /\ \E r \in {"leg", Ends(w)} \union (IF w \in Ids THEN {"crashed"} ELSE {}) :
        pc' = [pc EXCEPT ![w] = r]
  /\ leg' = [leg EXCEPT ![w] = 1]
  /\ UNCHANGED <<workerFrame, bringup, state, queue, claim, of, ack, asks>>

StartStep(s) ==
  BeginKeep(s) \/ BeginProfile(s) \/ Judge(s) \/ Mark(s) \/ Settle(s) \/ Settled(s) \/ Crashed(s)
  \/ DropRows(s)

-----------------------------------------------------------------------------
(* _start_profile_motion, return_to_initial, the episode playback: what    *)
(* blocks the motion, then the claim.                                      *)
Ask(w) ==
  /\ session # 0 /\ state[session] = "running" /\ arms[session] = "ok"
  /\ moving[session] = None /\ claim = None
  /\ asks < MaxAsks /\ asks' = asks + 1
  /\ Steps(w, "off", "asked")
  /\ of' = [of EXCEPT ![w] = session]
  /\ UNCHANGED <<workerFrame, bringup, state, queue, claim, leg, ack>>

Claim(w) ==
  /\ Steps(w, "asked", IF claim = None THEN "plan" ELSE "off")
  /\ claim' = IF claim = None THEN w ELSE claim
  /\ UNCHANGED <<workerFrame, bringup, state, queue, leg, of, ack, asks>>

Release(w) ==
  /\ Steps(w, "release", "off")
  /\ claim' = IF claim = w THEN None ELSE claim
  /\ of' = [of EXCEPT ![w] = 0] /\ leg' = [leg EXCEPT ![w] = 0]
  /\ UNCHANGED <<workerFrame, bringup, state, queue, ack, asks>>

ProfileStep(w) == Ask(w) \/ Claim(w) \/ Release(w)

-----------------------------------------------------------------------------
(* _execute_arms: one arm at a time through the loop.                      *)
Submits(w) == queue' = Append(queue, [op |-> "execute", by |-> w])

Submit(w) ==
  /\ pc[w] = "leg" /\ Running(w) /\ Steps(w, "leg", "acking") /\ Submits(w)
  /\ UNCHANGED <<workerFrame, bringup, state, claim, leg, of, ack, asks>>

GivesUp(w) == pc[w] = "leg" /\ ~ Running(w) /\ Steps(w, "leg", Ends(w)) /\ Only(w)

(* A refused start_from plan is tried once more when the arms clear.       *)
Retry(w) ==
  /\ w \in Ids /\ ack[w] = "nak" /\ StateOf(w) # "teardown"
  /\ Steps(w, "acking", "reacking")
  /\ Submits(w) /\ ack' = [ack EXCEPT ![w] = None]
  /\ UNCHANGED <<workerFrame, bringup, state, claim, leg, of, asks>>

Acked(w) ==
  /\ \/ ack[w] = "ok" /\ (Steps(w, "acking", "polling") \/ Steps(w, "reacking", "polling"))
     \/ ack[w] = "nak" /\ (Steps(w, "acking", Ends(w)) \/ Steps(w, "reacking", Ends(w)))
  /\ ack' = [ack EXCEPT ![w] = None]
  /\ UNCHANGED <<workerFrame, bringup, state, queue, claim, leg, of, asks>>

(* .result(timeout=5.0) raises only when no loop drains the bus. *)
AckTimeout(w) ==
  /\ ack[w] = None /\ \A s \in Ids : loop[s] # "on"
  /\ LET r == IF w \in Ids THEN "crashed" ELSE "release"
     IN Steps(w, "acking", r) \/ Steps(w, "reacking", r)
  /\ Only(w)

Moves(w) == moving[of[w]] # None

(* The wait for plans.active_arms to empty. *)
Poll(w) == Steps(w, "polling", "reason") /\ ~ Moves(w) /\ Only(w)

StopNever(w) == FALSE       \* mutant: only the executor ends the wait

(* The session left its motion state, or the leg's budget is over. *)
Stop(w) ==
  /\ pc[w] = "polling" /\ Moves(w)
  /\ Steps(w, "polling", IF Running(w) THEN "overdue" ELSE "stopped")
  /\ CancelViaLoop(w)
  /\ UNCHANGED <<workerFrame, bringup, state, claim, leg, of, ack, asks>>

Stopped(w) ==
  /\ Answered(CancelOf(w))
  /\ Steps(w, "stopped", "reason") \/ Steps(w, "overdue", Ends(w))
  /\ Only(w)

Reason(w) ==
  /\ pc[w] = "reason"
  /\ Steps(w, "reason", IF cancelled[of[w]] THEN Ends(w) ELSE "arrive") /\ Only(w)

(* _await_arrival: the measured arm is there, or the sequence ends. *)
Arrived(w) ==
  /\ pc[w] = "arrive"
  /\ \/ /\ leg[w] < Legs /\ leg' = [leg EXCEPT ![w] = @ + 1]
        /\ pc' = [pc EXCEPT ![w] = "leg"]
     \/ /\ leg' = leg /\ pc' = [pc EXCEPT ![w] = Ends(w)]
  /\ UNCHANGED <<workerFrame, bringup, state, queue, claim, of, ack, asks>>

LegStep(w) ==
  Plan(w) \/ Submit(w) \/ GivesUp(w) \/ Retry(w) \/ Acked(w) \/ AckTimeout(w) \/ Poll(w) \/ Stop(w)
  \/ Stopped(w) \/ Reason(w) \/ Arrived(w)

-----------------------------------------------------------------------------
WorkerStep(w) == LegStep(w) \/ (w \in Ids /\ StartStep(w)) \/ (w \in Motions /\ ProfileStep(w))

Creates == Create \/ \E s \in Ids, k \in Kinds : \E f \in Starts[s] : BringUp(s, k, f)

SessionNext ==
  \/ Creates \/ CreateStep \/ Teardown \/ EndStep
  \/ \E s \in Ids : LoopStep(s) \/ OutsideStep(s)
  \/ \E w \in Workers : WorkerStep(w)

(* Whoever holds _lock and every thread goes on, and the loop ends what it *)
(* moves (the gate's hold limit); nobody need ask, tear down or plan.      *)
SessionSpec ==
  /\ SessionInit /\ [][SessionNext]_sessionVars
  /\ WF_sessionVars(CreateStep) /\ WF_sessionVars(EndStep)
  /\ \A s \in Ids : WF_sessionVars(LoopStep(s))
  /\ \A w \in Workers : WF_sessionVars(LegStep(w))
  /\ \A s \in Ids : WF_sessionVars(StartStep(s))
  /\ \A m \in Motions : WF_sessionVars(Claim(m) \/ Release(m))

-----------------------------------------------------------------------------
Pcs == {"off", "begin", "judge", "mark", "asked", "plan", "settle", "settled", "crashed", "rows",
        "release"} \union LegPcs
States == {"bringup", "start_from", "running", "fault", "recovering", "teardown"}
Locks == {"free", "validate", "connect", "rigged", "looped", "built", "published",
          "cancel", "cancelling", "stop", "stopped"}
Commands == [op : {"execute", "cancel"}, by : Workers \union {0}] \union [op : {"ready"}, by : Ids]

TypeOK ==
  /\ {session, born, bringup} \subseteq Ids \union {0} /\ lock \in Locks
  /\ kind \in [Ids -> Kinds \union {None}] /\ startFrom \in [Ids -> {"keep", "profile", None}]
  /\ state \in [Ids -> States \union {None}]
  /\ rig \in [Ids -> BOOLEAN] /\ loop \in [Ids -> {"off", "on", "stopped"}]
  /\ left \subseteq Ids /\ failures \in 0..MaxFailures
  /\ wired \in [Ids -> BOOLEAN] /\ callback \in [Ids -> States \union {None}]
  /\ {arms, reported} \subseteq [Ids -> {"ok", "fault", "recovering"}]
  /\ moving \in [Ids -> Commands \union {None}]
  /\ {cancelled, planning} \subseteq [Ids -> BOOLEAN]
  /\ queue \in Seq(Commands) /\ planner \subseteq Ids /\ claim \in Motions \union {None}
  /\ pc \in [Workers -> Pcs] /\ leg \in [Workers -> 0..Legs] /\ of \in [Workers -> Ids \union {0}]
  /\ ack \in [Workers -> {"ok", "nak", None}]
  /\ faults \in 0..MaxFaults /\ gotos \in 0..MaxGotos /\ asks \in 0..MaxAsks

(* Drivers that are connected and a loop that runs are those of the live   *)
(* session, or of the one coming up under _lock; any other session's were  *)
(* left by a step of its taking down that raised, since nothing remembers  *)
(* them then.  No loop runs without its drivers, not even a left one.      *)
(* Rows shown are of the session coming up or live.                        *)
RigOwned ==
  /\ \A s \in Ids : rig[s] \/ loop[s] = "on" =>
       \/ s = session \/ s \in left
       \/ session = 0 /\ s = born /\ lock \in {"rigged", "looped", "built"}
  /\ \A s \in Ids : loop[s] = "on" => rig[s]
  /\ bringup # 0 => bringup = session \/ (session = 0 /\ bringup = born /\ lock # "free")

(* A live session whose start_from worker is through is not left in        *)
(* BRINGUP or START_FROM, whatever fault, refusal, failed plan or recovery *)
(* it met.                                                                 *)
StartSettled ==
  session # 0 /\ lock = "free" /\ pc[session] = "off" =>
    state[session] \notin {"bringup", "start_from"}

(* Every worker ends: a motion cut by a teardown, a command no loop reads, *)
(* a plan another thread cancelled.                                        *)
WorkersEnd == \A w \in Workers : pc[w] # "off" ~> pc[w] = "off"

=============================================================================
