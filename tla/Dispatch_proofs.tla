-------------------------- MODULE Dispatch_proofs --------------------------
(***************************************************************************)
(* Proofs about the dispatch, for every set of arms, every geometry and    *)
(* every bound.                                                            *)
(***************************************************************************)
EXTENDS Dispatch, SequenceTheorems, TLAPS

(* A sender that is about to send has a target in hand. *)
HandHolds == \A a \in Watched : sender[a] = "send" => got[a] # None

LEMMA EmptyEvents == <<>> \in Seq(Events)
  BY EmptySeq

(* The first event of a queue is one of a modelled arm, the rest a queue. *)
LEMMA HeadOfEvents ==
  ASSUME NEW q \in Seq(Events), q # <<>>
  PROVE  Head(q).arm \in Watched /\ Tail(q) \in Seq(Events)
<1>1. Head(q) \in Events /\ Tail(q) \in Seq(Events)
  BY HeadTailProperties
<1> QED BY <1>1 DEF Events

(* What the gate lets out and what it keeps are postures. *)
LEMMA GateTyped ==
  ASSUME NEW f \in Postures, safe \in Postures, NEW m, NEW S
  PROVE  /\ \A stale \in BOOLEAN : GateOut(f, m, stale) \in Postures
         /\ [a \in Arms |-> IF a \in S THEN f[a] ELSE safe[a]] \in Postures
<1>1. \A a \in Arms : f[a] \in Pos /\ safe[a] \in Pos
  BY DEF Postures
<1>2. \A T : [a \in Arms |-> IF a \in T THEN safe[a] ELSE f[a]] \in Postures
  BY <1>1 DEF Postures
<1>3. [a \in Arms |-> IF a \in S THEN f[a] ELSE safe[a]] \in Postures
  BY <1>1 DEF Postures
<1> QED BY <1>2, <1>3 DEF GateOut

(* The driver's steps keep the types. *)
LEMMA TypeDriver ==
  ASSUME TypeOK, NEW a \in Watched, DriverFault(a) \/ DriverRecovers(a)
  PROVE  TypeOK'
<1> USE DispatchAssumption
<1>1. CASE DriverFault(a)
  <2>1. [kind |-> "fault", arm |-> a] \in Events
    BY DEF Events
  <2>2. queue' \in Seq(Events) /\ robot' \in Postures
    BY <1>1, <2>1, AppendProperties DEF DriverFault, TypeOK, Postures
  <2>3. down' \subseteq Watched /\ faults' \in 0..MaxFaults
    BY <1>1 DEF DriverFault, TypeOK
  <2> QED BY <1>1, <2>2, <2>3 DEF DriverFault, TypeOK, gateVars, slotVars, gripVars,
                                  tickVars, historyVars
<1>2. CASE DriverRecovers(a)
  <2>1. [kind |-> "recovered", arm |-> a] \in Events
    BY DEF Events
  <2>2. queue' \in Seq(Events) /\ down' \subseteq Watched
    BY <1>2, <2>1, AppendProperties DEF DriverRecovers, TypeOK
  <2> QED BY <1>2, <2>2 DEF DriverRecovers, TypeOK, gateVars, senderVars, slotVars, gripVars,
                            tickVars, historyVars
<1> QED BY <1>1, <1>2

(* So does the handling of the driver's events... *)
LEMMA TypeEvents ==
  ASSUME TypeOK, HandleFault \/ HandleRecovered \/ ReseedFails
  PROVE  TypeOK'
<1> USE DispatchAssumption
<1> DEFINE a == Head(pending).arm
<1>1. a \in Watched /\ Tail(pending) \in Seq(Events)
  BY HeadOfEvents DEF HandleFault, HandleRecovered, ReseedFails, Handles, TypeOK
<1>2. CASE HandleFault
  <2>1. faulted' \subseteq Watched /\ paused' \in [Watched -> BOOLEAN]
    BY <1>1, <1>2 DEF HandleFault, Pause, TypeOK
  <2>2. lastGrip' \in [Watched -> Grips \union {None}]
    BY <1>1, <1>2 DEF HandleFault, Pause, TypeOK
  <2>3. old' \in [Watched -> SUBSET {"slot", "got", "grip", "mark"}]
    BY <1>1, <1>2 DEF HandleFault, InHand, TypeOK
  <2>4. drained' \in [Watched -> {"no", "taken", "yes"}]
    BY <1>1, <1>2 DEF HandleFault, TypeOK
  <2> QED BY <1>1, <1>2, <2>1, <2>2, <2>3, <2>4
          DEF HandleFault, TypeOK, gateVars, slotVars, driverVars
<1>3. CASE HandleRecovered
  <2>1. robot[a] \in Pos
    BY <1>1 DEF TypeOK, Postures
  <2>2. cmd' \in Postures /\ safe' \in Postures /\ reseeded' \subseteq Watched
    <3>1. Reseeds(a)
      BY <1>3 DEF HandleRecovered
    <3>2. CASE a \in reseeded
      BY <3>1, <3>2 DEF Reseeds, gateVars, TypeOK
    <3>3. CASE a \notin reseeded
      BY <1>1, <2>1, <3>1, <3>3, SMTT(20) DEF Reseeds, GateReseed, TypeOK, Postures
    <3> QED BY <3>2, <3>3
  <2>3. UNCHANGED <<blocked, pairs>>
    BY <1>3 DEF HandleRecovered, Reseeds, GateReseed, gateVars
  <2>4. faulted' \subseteq Watched /\ paused' \in [Watched -> BOOLEAN]
    BY <1>1, <1>3 DEF HandleRecovered, Resume, TypeOK
  <2> QED BY <1>1, <1>3, <2>2, <2>3, <2>4
          DEF HandleRecovered, TypeOK, slotVars, gripVars, driverVars, historyVars
<1>4. CASE ReseedFails
  BY <1>1, <1>4 DEF ReseedFails, TypeOK, gateVars, senderVars, slotVars, gripVars, driverVars,
                    historyVars
<1> QED BY <1>2, <1>3, <1>4

(* ...the command through the gate... *)
LEMMA TypeCommand ==
  ASSUME TypeOK, NEW f \in Postures, NEW stale \in BOOLEAN, Command(f, stale)
  PROVE  TypeOK'
<1> USE DispatchAssumption
<1>1. cmd' \in Postures /\ safe' \in Postures
  BY GateTyped, ZenonT(40) DEF Command, GateFilter, TypeOK
<1>2. blocked' \in BOOLEAN /\ pairs' \subseteq Pairs
  BY DEF Command, GateFilter, Viols, TypeOK
<1>3. \A a \in Watched : cmd'[a] \in Pos
  BY <1>1 DEF Postures
<1>4. slot' \in [Watched -> Pos \union {None}]
  BY <1>3 DEF Command, PutTarget, TypeOK
<1>5. robot' \in Postures
  BY <1>1 DEF Command, TypeOK, Postures
<1>6. old' \in [Watched -> SUBSET {"slot", "got", "grip", "mark"}]
  BY DEF Command, TypeOK
<1> QED BY <1>1, <1>2, <1>4, <1>5, <1>6 DEF Command, TypeOK, gripVars, driverVars

(* ...the other steps of the tick... *)
LEMMA TypeTick ==
  ASSUME TypeOK, BeginTick \/ \E a \in Watched, g \in Grips : PutGripper(a, g)
  PROVE  TypeOK'
<1> USE DispatchAssumption
<1>1. CASE BeginTick
  BY <1>1, EmptyEvents DEF BeginTick, TypeOK, gateVars, senderVars, slotVars, gripVars, historyVars
<1>2. ASSUME NEW a \in Watched, NEW g \in Grips, PutGripper(a, g)
      PROVE  TypeOK'
  <2>1. gripSlot' \in [Watched -> Grips \union {None}] /\ grips' \in 0..MaxGrips
    BY <1>2 DEF PutGripper, TypeOK
  <2>2. old' \in [Watched -> SUBSET {"slot", "got", "grip", "mark"}]
    BY <1>2 DEF PutGripper, TypeOK
  <2> QED BY <1>2, <2>1, <2>2 DEF PutGripper, TypeOK, gateVars, slotVars, tickVars, driverVars
<1> QED BY <1>1, <1>2

(* ...and the sender threads. *)
LEMMA TypeSender ==
  ASSUME TypeOK, HandHolds, NEW a \in Watched, SenderStep(a)
  PROVE  TypeOK' /\ HandHolds'
<1> USE DispatchAssumption DEF TypeOK, Elsewhere, gateVars, tickVars, driverVars, gripVars,
                               historyVars
<1>1. CASE SenderTakes(a)
  BY <1>1 DEF SenderTakes, Take, HandHolds
<1>2. CASE SenderChecks(a)
  BY <1>2 DEF SenderChecks, Check, HandHolds
<1>3. CASE SenderSends(a)
  <2>1. got[a] \in Pos
    BY <1>3 DEF SenderSends, Send, HandHolds
  <2>2. robot' \in Postures
    BY <1>3, <2>1 DEF SenderSends, Send, Postures
  <2>3. got' \in [Watched -> Pos \union {None}]
    BY <1>3 DEF SenderSends, Send
  <2>4. HandHolds'
    BY <1>3 DEF SenderSends, Send, HandHolds
  <2> QED BY <1>3, <2>2, <2>3, <2>4 DEF SenderSends, Send
<1>4. CASE SenderReadsGrip(a)
  BY <1>4 DEF SenderReadsGrip, ReadGrip, HandHolds
<1>5. CASE SenderMarksGrip(a)
  BY <1>5 DEF SenderMarksGrip, MarkGrip, HandHolds
<1>6. CASE SenderSendsGrip(a)
  BY <1>6 DEF SenderSendsGrip, SendGrip, HandHolds
<1> QED BY <1>1, <1>2, <1>3, <1>4, <1>5, <1>6 DEF SenderStep

LEMMA InitTyped == Init => TypeOK /\ HandHolds
<1> SUFFICES ASSUME Init PROVE TypeOK /\ HandHolds
  OBVIOUS
<1> USE DispatchAssumption DEF Init
<1>1. PICK f \in Postures : GateInit(f) /\ SenderInit(f) /\ cmd = f /\ meas = f
  OBVIOUS
<1>2. safe \in Postures /\ blocked \in BOOLEAN /\ pairs \subseteq Pairs
  BY <1>1 DEF GateInit
<1>3. robot \in Postures /\ cmd \in Postures /\ meas \in Postures
  BY <1>1 DEF SenderInit
<1> QED BY <1>1, <1>2, <1>3, EmptyEvents DEF TypeOK, HandHolds, SenderInit

(* Every step but the senders' leaves what they have in hand alone. *)
LEMMA HandStep ==
  ASSUME HandHolds, UNCHANGED <<sender, got>>
  PROVE  HandHolds'
  BY DEF HandHolds

LEMMA TypeStep ==
  ASSUME TypeOK, HandHolds, [Next]_vars
  PROVE  TypeOK' /\ HandHolds'
<1>1. CASE UNCHANGED vars
  BY <1>1 DEF vars, TypeOK, HandHolds, gateVars, senderVars, slotVars, gripVars, tickVars,
              driverVars, historyVars
<1>2. ASSUME NEW a \in Watched, DriverFault(a) \/ DriverRecovers(a)
      PROVE  TypeOK' /\ HandHolds'
  BY <1>2, TypeDriver, HandStep DEF DriverFault, DriverRecovers, senderVars, slotVars
<1>3. CASE HandleFault \/ HandleRecovered \/ ReseedFails
  BY <1>3, TypeEvents, HandStep DEF HandleFault, HandleRecovered, ReseedFails, senderVars, slotVars
<1>4. CASE BeginTick \/ \E a \in Watched, g \in Grips : PutGripper(a, g)
  BY <1>4, TypeTick, HandStep DEF BeginTick, PutGripper, senderVars, slotVars
<1>5. ASSUME NEW f \in Postures, NEW stale \in BOOLEAN, Command(f, stale)
      PROVE  TypeOK' /\ HandHolds'
  BY <1>5, TypeCommand, HandStep DEF Command
<1>6. cmd \in Postures /\ Commands \subseteq Postures
  BY DEF TypeOK, Commands
<1> QED BY <1>1, <1>2, <1>3, <1>4, <1>5, <1>6, TypeSender DEF Next, Tick

(* The dispatch never leaves its types, for every value of the constants:  *)
(* the loop's tick, the gate, the sender threads and the driver (loop.py,  *)
(* gate.py, arm_sender.py).                                                *)
THEOREM DispatchTypeCorrect == Spec => []TypeOK
<1>1. TypeOK /\ HandHolds /\ [Next]_vars => (TypeOK /\ HandHolds)'
  BY TypeStep
<1> QED BY InitTyped, <1>1, PTL DEF Spec

-----------------------------------------------------------------------------
(* Hold points: the copy of the gate and that of the loop move together,   *)
(* but for the arms that pass while another one is blocked.                *)

LEMMA CommandAligns ==
  ASSUME NEW f \in Postures, NEW stale \in BOOLEAN, Command(f, stale), TypeOK
  PROVE  SafeIsCommand'
<1>1. CASE stale
  BY <1>1 DEF Command, GateFilter, GateOut, SafeIsCommand, Bystanders, TypeOK, Postures
<1>2. CASE ~ stale
  <2> DEFINE v == Viols(f)
             held == Held(f, meas, v)
  <2>1. /\ cmd' = [a \in Arms |-> IF a \in held THEN safe[a] ELSE f[a]]
        /\ safe' = [a \in Arms |-> IF a \in Keeps(f, meas, v) THEN f[a] ELSE safe[a]]
        /\ pairs' = v /\ blocked' = (v # {})
    BY <1>2 DEF Command, GateFilter, GateOut
  <2>2. Keeps(f, meas, v) = IF v = {} THEN Arms ELSE (UNION v) \ held
    BY DEF Keeps
  <2>3. held \subseteq UNION v
    BY DEF Held
  <2>4. CASE v = {}
    <3>1. held = {} /\ Keeps(f, meas, v) = Arms
      BY <2>2, <2>3, <2>4
    <3>2. \A a \in Arms : cmd'[a] = f[a]
      BY <2>1, <3>1
    <3>3. \A a \in Arms : safe'[a] = f[a]
      BY <2>1, <3>1
    <3> QED BY <3>2, <3>3 DEF SafeIsCommand
  <2>5. CASE v # {}
    <3>1. Bystanders' = Arms \ (UNION v)
      BY <2>1, <2>5 DEF Bystanders
    <3> SUFFICES ASSUME NEW a \in Arms, a \in UNION v PROVE safe'[a] = cmd'[a]
      BY <3>1 DEF SafeIsCommand
    <3>2. a \in Keeps(f, meas, v) <=> a \notin held
      BY <2>2, <2>5
    <3>3. safe'[a] = IF a \in Keeps(f, meas, v) THEN f[a] ELSE safe[a]
      BY <2>1
    <3>4. cmd'[a] = IF a \in held THEN safe[a] ELSE f[a]
      BY <2>1
    <3> QED BY <3>2, <3>3, <3>4
  <2> QED BY <2>4, <2>5
<1> QED BY <1>1, <1>2

(* A re-seed sets both copies to the measured posture. *)
LEMMA ReseedAligns ==
  ASSUME TypeOK, HandleRecovered
  PROVE  \A b \in Arms : \/ safe'[b] = cmd'[b] /\ b \in reseeded'
                         \/ safe'[b] = safe[b] /\ cmd'[b] = cmd[b]
                              /\ (b \in reseeded' <=> b \in reseeded)
<1> DEFINE a == Head(pending).arm
<1>1. a \in Watched
  BY HeadOfEvents DEF HandleRecovered, Handles, TypeOK
<1>2. Reseeds(a)
  BY DEF HandleRecovered
<1> HIDE DEF a
<1>3. CASE a \in reseeded
  BY <1>2, <1>3 DEF Reseeds, gateVars
<1>4. CASE a \notin reseeded
  <2>1. safe' = [safe EXCEPT ![a] = robot[a]] /\ cmd' = [cmd EXCEPT ![a] = robot[a]]
    BY <1>2, <1>4 DEF Reseeds, GateReseed
  <2>2. reseeded' = reseeded \union {a}
    BY <1>2, <1>4 DEF Reseeds
  <2> QED BY <1>1, <2>1, <2>2, DispatchAssumption DEF TypeOK, Postures
<1> QED BY <1>3, <1>4

(* What no other step touches. *)
LEMMA HoldPointsKept ==
  ASSUME [Next]_vars
  PROVE  \/ HandleRecovered
         \/ Command(cmd, TRUE)
         \/ \E f \in Commands : Command(f, FALSE)
         \/ /\ UNCHANGED <<safe, blocked, pairs, cmd, reseeded>>
            /\ \/ pc' = pc
               \/ pc = "begin" /\ BeginTick
<1>1. CASE UNCHANGED vars
  BY <1>1 DEF vars, gateVars, tickVars
<1>2. ASSUME NEW a \in Watched, DriverFault(a) \/ DriverRecovers(a)
      PROVE  UNCHANGED <<safe, blocked, pairs, cmd, reseeded, pc>>
  BY <1>2 DEF DriverFault, DriverRecovers, gateVars, tickVars
<1>3. CASE HandleFault \/ ReseedFails
  BY <1>3 DEF HandleFault, ReseedFails, gateVars
<1>4. CASE BeginTick
  BY <1>4 DEF BeginTick, gateVars
<1>5. ASSUME NEW a \in Watched, NEW g \in Grips, PutGripper(a, g)
      PROVE  UNCHANGED <<safe, blocked, pairs, cmd, reseeded, pc>>
  BY <1>5 DEF PutGripper, gateVars, tickVars
<1>6. ASSUME NEW a \in Watched, SenderStep(a)
      PROVE  UNCHANGED <<safe, blocked, pairs, cmd, reseeded, pc>>
  BY <1>6 DEF SenderStep, SenderTakes, SenderChecks, SenderSends, SenderReadsGrip,
              SenderMarksGrip, SenderSendsGrip, Elsewhere, gateVars, tickVars
<1> QED BY <1>1, <1>2, <1>3, <1>4, <1>5, <1>6 DEF Next, Tick

(* The gate's hold point is the loop's last command, whatever the geometry *)
(* and the number of arms (gate.py _last_safe, loop.py _last_cmd).         *)
THEOREM HoldPointIsCommand == Spec => []SafeIsCommand
<1>1. Init => SafeIsCommand
  BY DEF Init, GateInit, SafeIsCommand
<1>2. TypeOK /\ SafeIsCommand /\ [Next]_vars => SafeIsCommand'
  <2> SUFFICES ASSUME TypeOK, SafeIsCommand, [Next]_vars PROVE SafeIsCommand'
    OBVIOUS
  <2>1. CASE HandleRecovered
    <3>1. UNCHANGED <<blocked, pairs>>
      BY <2>1 DEF HandleRecovered, Reseeds, GateReseed, gateVars
    <3> QED BY <2>1, <3>1, ReseedAligns DEF SafeIsCommand, Bystanders
  <2>2. cmd \in Postures /\ Commands \subseteq Postures
    BY DEF TypeOK, Commands
  <2>3. CASE Command(cmd, TRUE) \/ \E f \in Commands : Command(f, FALSE)
    BY <2>2, <2>3, CommandAligns
  <2>4. CASE UNCHANGED <<safe, blocked, pairs, cmd, reseeded>>
    BY <2>4 DEF SafeIsCommand, Bystanders
  <2> QED BY <2>1, <2>3, <2>4, HoldPointsKept
<1> QED BY <1>1, <1>2, DispatchTypeCorrect, PTL DEF Spec

-----------------------------------------------------------------------------
(* Between the re-seed and the command both copies stand at the measured   *)
(* posture; between ticks nothing is re-seeded.                            *)
ReseedStands ==
  /\ \A a \in reseeded : safe[a] = cmd[a]
  /\ pc = "begin" => reseeded = {}

LEMMA ReseedStep ==
  ASSUME TypeOK, ReseedStands, [Next]_vars
  PROVE  ReseedStands'
<1>1. CASE HandleRecovered
  <2>1. pc' = "tick"
    BY <1>1 DEF HandleRecovered, Handles
  <2>2. reseeded' \subseteq Arms
    BY <1>1, TypeEvents, DispatchAssumption DEF TypeOK
  <2> QED BY <1>1, <2>1, <2>2, ReseedAligns DEF ReseedStands
<1>2. CASE Command(cmd, TRUE) \/ \E f \in Commands : Command(f, FALSE)
  BY <1>2 DEF Command, ReseedStands
<1>3. CASE /\ UNCHANGED <<safe, blocked, pairs, cmd, reseeded>>
           /\ pc' = pc \/ (pc = "begin" /\ BeginTick)
  BY <1>3 DEF ReseedStands, BeginTick
<1> QED BY <1>1, <1>2, <1>3, HoldPointsKept

(* A held arm of the command the gate lets through stays where both copies *)
(* agree.                                                                  *)
LEMMA HeldStays ==
  ASSUME NEW f \in Postures, NEW stale \in BOOLEAN, Command(f, stale), ReseedStands,
         NEW a \in reseeded, a \in Arms, f[a] = cmd[a]
  PROVE  cmd'[a] = cmd[a]
  BY DEF Command, GateOut, ReseedStands

(* The tick that re-seeds an arm leaves it where it is (loop.py            *)
(* reseed_arm, gate.py reseed), whatever its siblings ask for.             *)
THEOREM RecoveredStays == Spec => RecoveredArmStays
<1>1. Init => ReseedStands
  BY DEF Init, ReseedStands
<1>2. TypeOK /\ ReseedStands /\ [Next]_vars => ReseedStands'
  BY ReseedStep
<1>3. TypeOK /\ ReseedStands /\ [Next]_vars =>
        [\A a \in reseeded \ faulted : pending = <<>> => cmd'[a] = cmd[a]]_vars
  <2> SUFFICES ASSUME TypeOK, ReseedStands, [Next]_vars,
                      NEW a \in reseeded \ faulted, pending = <<>>
               PROVE  cmd'[a] = cmd[a]
    OBVIOUS
  <2>1. a \in Arms
    BY DispatchAssumption DEF TypeOK
  <2>2. ~ HandleRecovered
    BY DEF HandleRecovered, Handles
  <2>3. CASE Command(cmd, TRUE)
    BY <2>1, <2>3, HeldStays DEF TypeOK
  <2>4. ASSUME NEW f \in Commands, Command(f, FALSE) PROVE cmd'[a] = cmd[a]
    <3>1. f \in Postures /\ f[a] = cmd[a]
      BY <2>1 DEF Commands
    <3> QED BY <2>1, <2>4, <3>1, HeldStays
  <2> QED BY <2>2, <2>3, <2>4, HoldPointsKept
<1> QED BY <1>1, <1>2, <1>3, DispatchTypeCorrect, PTL DEF Spec, RecoveredArmStays

-----------------------------------------------------------------------------
(* A sender that took under the pause has nothing old left in its slot, so *)
(* it is clean as soon as it drops what it took.                           *)
TakenIsLast ==
  \A a \in Watched : /\ drained[a] # "yes"
                     /\ drained[a] = "taken" => "slot" \notin old[a]

LEMMA TakenStep ==
  ASSUME TypeOK, TakenIsLast, [Next]_vars
  PROVE  TakenIsLast'
<1> USE DEF TypeOK, TakenIsLast
<1>1. CASE UNCHANGED historyVars
  BY <1>1 DEF historyVars
<1>2. CASE HandleFault
  BY <1>2 DEF HandleFault
<1>3. ASSUME NEW f, NEW stale, Command(f, stale) PROVE TakenIsLast'
  BY <1>3 DEF Command
<1>4. ASSUME NEW a \in Watched, NEW g \in Grips, PutGripper(a, g) PROVE TakenIsLast'
  BY <1>4 DEF PutGripper
<1>5. ASSUME NEW a \in Watched, SenderStep(a) PROVE TakenIsLast'
  <2>1. CASE SenderTakes(a)
    <3>1. slot'[a] = None
      BY <2>1 DEF SenderTakes, Take
    <3> QED BY <2>1, <3>1 DEF SenderTakes
  <2>2. CASE SenderChecks(a)
    BY <2>2 DEF SenderChecks
  <2>3. CASE SenderSends(a)
    BY <2>3 DEF SenderSends
  <2>4. CASE UNCHANGED historyVars
    BY <2>4, <1>1
  <2> QED BY <1>5, <2>1, <2>2, <2>3, <2>4
          DEF SenderStep, SenderReadsGrip, SenderMarksGrip, SenderSendsGrip
<1>6. CASE UNCHANGED vars
  BY <1>1, <1>6 DEF vars
<1>7. CASE \/ BeginTick \/ HandleRecovered \/ ReseedFails
           \/ \E a \in Watched : DriverFault(a) \/ DriverRecovers(a)
  <2> UNCHANGED historyVars
    BY <1>7 DEF BeginTick, HandleRecovered, ReseedFails, DriverFault, DriverRecovers
  <2> QED BY <1>1
<1> QED BY <1>2, <1>3, <1>4, <1>5, <1>6, <1>7 DEF Next, Tick

(* A sender that went round under the pause sends nothing from before the  *)
(* fault (arm_sender.py _run drains the slot while it is paused).          *)
THEOREM DrainedForgets == Spec => DrainedIsClean
<1>1. Init => TakenIsLast
  BY DEF Init, TakenIsLast
<1>2. TypeOK /\ TakenIsLast /\ [Next]_vars => TakenIsLast'
  BY TakenStep
<1>3. TakenIsLast => [\A a \in Watched : sender[a] = "send" /\ sender'[a] = "grip"
                        /\ "got" \in old[a] => drained[a] # "yes"]_vars
  BY DEF TakenIsLast
<1> QED BY <1>1, <1>2, <1>3, DispatchTypeCorrect, PTL DEF Spec, DrainedIsClean
=============================================================================
