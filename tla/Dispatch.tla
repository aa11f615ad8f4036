------------------------------ MODULE Dispatch ------------------------------
(***************************************************************************)
(* The end of the control tick against the threads it feeds: driver events *)
(* and re-seeds (loop.py step 3b), the gate (step 8), the q_cmd slots      *)
(* (step 9) and the sender thread behind each of them.  What the operator  *)
(* and the policies ask for is any step of at most MaxStep per arm.        *)
(***************************************************************************)
EXTENDS SafetyGate, ArmSender, Integers, Sequences

CONSTANTS
  MaxStep,     \* dq_max: the joint step cap, applied before the gate
  MaxFaults,   \* bound: driver faults
  MaxGrips     \* bound: gripper targets put

ASSUME DispatchAssumption ==
  /\ Watched \subseteq Arms
  /\ MaxStep \in Nat /\ MaxFaults \in Nat /\ MaxGrips \in Nat
  /\ None \notin Pos /\ None \notin Grips

VARIABLES
  pc,        \* "begin", or "tick": between step 3 and step 9
  queue,     \* driver events nobody drained yet
  pending,   \* the events this tick drained, still to be handled
  reseeded,  \* arms re-seeded in this tick
  meas,      \* the states step 3 sampled
  cmd,       \* _last_cmd
  faulted,   \* _faulted
  down,      \* arms whose driver is stopped
  faults, grips,   \* what MaxFaults and MaxGrips bound
  old,       \* history: what each sender still holds from before its last fault
  drained    \* history: how far it drained since ("no", "taken", "yes"), while
             \* it holds an old target

driverVars == <<queue, down, faults>>
tickVars == <<pc, pending, reseeded, meas>>
historyVars == <<old, drained>>
vars == <<gateVars, senderVars, tickVars, cmd, faulted, driverVars, grips, historyVars>>

Events == [kind : {"fault", "recovered"}, arm : Watched]

Init ==
  /\ \E f \in Postures : GateInit(f) /\ SenderInit(f) /\ cmd = f /\ meas = f
  /\ pc = "begin" /\ queue = <<>> /\ pending = <<>>
  /\ reseeded = {} /\ faulted = {} /\ down = {}
  /\ faults = 0 /\ grips = 0
  /\ old = [a \in Watched |-> {}] /\ drained = [a \in Watched |-> "no"]

-----------------------------------------------------------------------------
(* The driver (hardware package): it stops an arm anywhere, and later      *)
(* holds the measured position again.                                      *)
DriverFault(a) ==
  /\ a \notin down /\ faults < MaxFaults
  /\ faults' = faults + 1
  /\ down' = down \union {a}
  /\ queue' = Append(queue, [kind |-> "fault", arm |-> a])
  /\ \E p \in Pos : robot' = [robot EXCEPT ![a] = p]
  /\ UNCHANGED <<gateVars, slotVars, gripVars, paused, tickVars, cmd, faulted, grips,
                 historyVars>>

DriverRecovers(a) ==
  /\ a \in down
  /\ down' = down \ {a}
  /\ queue' = Append(queue, [kind |-> "recovered", arm |-> a])
  /\ UNCHANGED <<gateVars, senderVars, tickVars, cmd, faulted, faults, grips, historyVars>>

-----------------------------------------------------------------------------
(* Step 3 samples the states, step 3b drains the events.                   *)
BeginTick ==
  /\ pc = "begin"
  /\ pc' = "tick"
  /\ meas' = robot
  /\ pending' = queue /\ queue' = <<>>
  /\ UNCHANGED <<gateVars, senderVars, cmd, reseeded, faulted, down, faults, grips, historyVars>>

Handles(kind) == pc = "tick" /\ pending # <<>> /\ Head(pending).kind = kind

(* What a sender holds at its pause was put before the fault.              *)
InHand(a) ==
  {w \in {"slot", "got", "grip", "mark"} :
     \/ w = "slot" /\ slot[a] # None
     \/ w = "got"  /\ got[a] # None
     \/ w = "grip" /\ gripSlot[a] # None
     \/ w = "mark" /\ sender[a] = "mark"}

(* _on_fault_event *)
HandleFault ==
  /\ Handles("fault")
  /\ LET a == Head(pending).arm
     IN /\ faulted' = faulted \union {a}
        /\ Pause(a)
        /\ old' = [old EXCEPT ![a] = InHand(a)]
        /\ drained' = [drained EXCEPT ![a] = "no"]
  /\ pending' = Tail(pending)
  /\ UNCHANGED <<gateVars, slotVars, gripSlot, gripRead, robot, pc, reseeded, meas,
                 cmd, driverVars, grips>>

(* _on_recovered_event: one re-seed per arm and tick; without one the arm  *)
(* stays faulted.  reseed_arm asks the driver again.                       *)
Reseeds(a) ==
  IF a \in reseeded THEN UNCHANGED <<cmd, gateVars, reseeded>>
  ELSE /\ cmd' = [cmd EXCEPT ![a] = robot[a]]
       /\ GateReseed(a, robot[a])
       /\ reseeded' = reseeded \union {a}

HandleRecovered ==
  /\ Handles("recovered")
  /\ LET a == Head(pending).arm
     IN /\ Reseeds(a)
        /\ faulted' = faulted \ {a}
        /\ Resume(a)
  /\ pending' = Tail(pending)
  /\ UNCHANGED <<slotVars, gripVars, robot, pc, meas, driverVars, grips, historyVars>>

ReseedFails ==
  /\ Handles("recovered")
  /\ Head(pending).arm \notin reseeded
  /\ pending' = Tail(pending)
  /\ UNCHANGED <<gateVars, senderVars, pc, reseeded, meas, cmd, faulted, driverVars,
                 grips, historyVars>>

(* A command asks each arm for at most MaxStep; a faulted arm and one      *)
(* re-seeded in this tick (RECOVERING) hold.                               *)
Commands ==
  {f \in Postures : \A a \in Arms :
      /\ f[a] - cmd[a] \in -MaxStep..MaxStep
      /\ a \in faulted \union reseeded => f[a] = cmd[a]}

(* Steps 8 and 9.  An arm without a modelled sender follows at once.       *)
PutMoving(S) == {a \in Watched \ S : cmd'[a] # cmd[a]}   \* mutant: only what changed
Put(S) == Watched \ S

(* The twin is stale or not; stale, what was asked for does not matter.    *)
Command(f, stale) ==
  /\ pc = "tick" /\ pending = <<>>
  /\ pc' = "begin"
  /\ GateFilter(f, meas, stale)
  /\ cmd' = GateOut(f, meas, stale)
  /\ PutTarget(cmd', Put(faulted))
  /\ robot' = [a \in Arms |-> IF a \in Watched THEN robot[a] ELSE cmd'[a]]
  /\ old' = [a \in Watched |-> IF a \in Put(faulted) THEN old[a] \ {"slot"} ELSE old[a]]
  /\ meas' = cmd' /\ reseeded' = {}      \* dead until the next tick
  /\ UNCHANGED <<sender, got, gripVars, paused, pending, faulted, driverVars, grips, drained>>

(* _apply_gripper_target, for an arm that takes inputs. *)
PutGripper(a, g) ==
  /\ pc = "tick" /\ pending = <<>> /\ a \notin faulted \union reseeded
  /\ grips < MaxGrips
  /\ grips' = grips + 1
  /\ gripSlot' = [gripSlot EXCEPT ![a] = g]
  /\ old' = [old EXCEPT ![a] = @ \ {"grip", "mark"}]
  /\ UNCHANGED <<gateVars, slotVars, lastGrip, gripRead, paused, robot, tickVars, cmd,
                 faulted, driverVars, drained>>

-----------------------------------------------------------------------------
(* The sender threads. *)
Elsewhere == UNCHANGED <<gateVars, tickVars, cmd, faulted, driverVars, grips>>

SenderTakes(a) ==
  /\ Take(a)
  /\ old' = [old EXCEPT ![a] = IF "slot" \in @ /\ slot'[a] = None
                                   THEN (@ \ {"slot"}) \union {"got"} ELSE @]
  /\ drained' = [drained EXCEPT ![a] = IF @ = "no" /\ paused[a] THEN "taken" ELSE @]
  /\ Elsewhere

SenderChecks(a) ==
  /\ Check(a)
  /\ old' = [old EXCEPT ![a] = IF paused[a] THEN @ \ {"got"} ELSE @]
  /\ drained' = [drained EXCEPT ![a] = IF old'[a] \intersect {"slot", "got"} = {} THEN "no"
                                       ELSE IF @ = "taken" /\ paused[a] THEN "yes" ELSE @]
  /\ Elsewhere

SenderSends(a) ==
  /\ Send(a, a \notin down)
  /\ old' = [old EXCEPT ![a] = @ \ {"got"}]
  /\ UNCHANGED drained /\ Elsewhere

SenderReadsGrip(a) == ReadGrip(a) /\ UNCHANGED historyVars /\ Elsewhere
SenderMarksGrip(a) == MarkGrip(a) /\ UNCHANGED historyVars /\ Elsewhere
SenderSendsGrip(a) == SendGrip(a) /\ UNCHANGED historyVars /\ Elsewhere

-----------------------------------------------------------------------------
Tick ==
  \/ BeginTick \/ HandleFault \/ HandleRecovered \/ ReseedFails
  \/ \E f \in Commands : Command(f, FALSE)
  \/ Command(cmd, TRUE)

SenderStep(a) ==
  \/ SenderTakes(a) \/ SenderChecks(a) \/ SenderSends(a)
  \/ SenderReadsGrip(a) \/ SenderMarksGrip(a) \/ SenderSendsGrip(a)

Next ==
  \/ Tick
  \/ \E a \in Watched : \/ DriverFault(a) \/ DriverRecovers(a) \/ SenderStep(a)
                        \/ \E g \in Grips : PutGripper(a, g)

(* The tick loop and the sender threads never end (both catch every        *)
(* exception); the driver owes nothing.                                    *)
Spec == Init /\ [][Next]_vars /\ WF_vars(Tick) /\ \A a \in Watched : WF_vars(SenderStep(a))

-----------------------------------------------------------------------------
(* Every variable has its type. *)
TypeOK ==
  /\ safe \in Postures /\ blocked \in BOOLEAN /\ pairs \subseteq Pairs
  /\ slot \in [Watched -> Pos \union {None}] /\ got \in [Watched -> Pos \union {None}]
  /\ sender \in [Watched -> {"wait", "check", "send", "grip", "mark", "gripsend"}]
  /\ paused \in [Watched -> BOOLEAN]
  /\ gripSlot \in [Watched -> Grips \union {None}] /\ lastGrip \in [Watched -> Grips \union {None}]
  /\ gripRead \in [Watched -> Grips \union {None}]
  /\ robot \in Postures /\ meas \in Postures /\ cmd \in Postures
  /\ pc \in {"begin", "tick"}
  /\ queue \in Seq(Events) /\ pending \in Seq(Events)
  /\ reseeded \subseteq Watched /\ faulted \subseteq Watched /\ down \subseteq Watched
  /\ faults \in 0..MaxFaults /\ grips \in 0..MaxGrips
  /\ old \in [Watched -> SUBSET {"slot", "got", "grip", "mark"}]
  /\ drained \in [Watched -> {"no", "taken", "yes"}]

(* The gate's hold point of an arm is the loop's last command for it: the  *)
(* two copies of "where this arm is held" (gate.py _last_safe, loop.py     *)
(* _last_cmd) agree through holds, escapes, a stale twin and re-seeds.     *)
(* Only an arm that moved on while another was blocked has left its own.   *)
Bystanders == IF blocked /\ pairs # {} THEN Arms \ (UNION pairs) ELSE {}
SafeIsCommand == \A a \in Arms \ Bystanders : safe[a] = cmd[a]

(* The tick that re-seeds an arm leaves it at the posture it was re-seeded *)
(* from, whatever the gate held it at before the fault and whatever its    *)
(* siblings do.                                                            *)
RecoveredArmStays ==
  [][\A a \in reseeded \ faulted : pending = <<>> => cmd'[a] = cmd[a]]_vars

(* A sender that went round once under the pause sends no target from      *)
(* before the fault any more (arm_sender.py: the thread keeps draining the *)
(* slot but forwards nothing).                                             *)
DrainedIsClean ==
  [][\A a \in Watched : sender[a] = "send" /\ sender'[a] = "grip" /\ "got" \in old[a] =>
        drained[a] # "yes"]_vars

(* An arm that stays in service reaches the command that stays, whatever   *)
(* the driver refused before and however the slot was overwritten.         *)
InService(a) == a \notin faulted \union down
Delivered ==
  \A a \in Watched :
     (<>[]InService(a) /\ <>[][cmd'[a] = cmd[a]]_vars) => []<>(robot[a] = cmd[a])
=============================================================================
