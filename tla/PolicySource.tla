----------------------------- MODULE PolicySource -----------------------------
(***************************************************************************)
(* The policy node's actions on their way to the control loop               *)
(* (dora_bridge/policy_source.py, SnapshotPublisher in publishers.py):      *)
(* observations are numbered per session, the node answers them in its own  *)
(* time, the bus thread checks an answer and then stores it, and the        *)
(* control thread asks for a fresh start at every handback and boundary.    *)
(***************************************************************************)
EXTENDS Naturals, FiniteSets

CONSTANTS Arms,      \* the session's arms
          Driven,    \* those the policy drives
          MaxObs,    \* observations in a session
          MaxResets  \* requeries and pauses in a session

ASSUME DrivenAssumption == Driven \subseteq Arms

(* Bound of the model: two answers on the wire. *)
VARIABLES facts,      \* the publisher knows the session
          attached,   \* the bridge is attached
          obs,        \* observation_id
          known,      \* observation_times
          watermark,
          rows,       \* per driven arm, the observation its chunk answers, or 0
          paused,
          seen,       \* the node: the newest observation that reached it
          nodeMark,   \* the node: its own watermark
          wire,       \* answers on their way: [obs, arms]
          inHand,     \* the bus thread: an answer past the checks, not yet stored
          resets      \* how many, so far

sourceVars == <<facts, attached, obs, known, watermark, rows, paused, seen,
                nodeMark, wire, inHand, resets>>

Answers == [obs : 1 .. MaxObs, arms : SUBSET Driven]

Blank == [a \in Driven |-> 0]

(* A session starts: ids begin at one, nothing is stored, the node hears session_start. *)
SourceInit == /\ facts = FALSE /\ attached = TRUE
              /\ obs = 0 /\ known = {} /\ watermark = 0
              /\ rows = Blank /\ paused = FALSE
              /\ seen = 0 /\ nodeMark = 0
              /\ wire = {} /\ inHand = {} /\ resets = 0

SourceTypeOK == /\ {facts, attached, paused} \subseteq BOOLEAN
                /\ {obs, watermark, seen, nodeMark} \subseteq 0 .. MaxObs
                /\ known \subseteq 1 .. obs
                /\ rows \in [Driven -> 0 .. MaxObs]
                /\ wire \subseteq Answers /\ inHand \subseteq Answers
                /\ Cardinality(inHand) <= 1 /\ resets \in 0 .. MaxResets

nodeVars == <<seen, nodeMark, wire>>

(* The manager announces the session to the publisher. *)
session_started == /\ ~facts /\ facts' = TRUE
                   /\ obs' = 0 /\ known' = {}
                   /\ UNCHANGED <<attached, watermark, rows, paused, nodeVars,
                                  inHand, resets>>

(* An observation gets its number and, unless the slot is overwritten, reaches the node. *)
_publish_obs_state ==
    /\ facts /\ attached /\ obs < MaxObs
    /\ obs' = obs + 1 /\ known' = known \cup {obs'}
    /\ seen' \in {seen, obs'}
    /\ UNCHANGED <<facts, attached, watermark, rows, paused, nodeMark,
                   wire, inHand, resets>>

(* The node answers the newest observation it has, unless it is not after its watermark. *)
_on_obs == /\ seen > nodeMark /\ Cardinality(wire) < 2
           /\ \E arms \in {Driven} \cup {{a} : a \in Driven} :
                wire' = wire \cup {[obs |-> seen, arms |-> arms]}
           /\ UNCHANGED <<facts, attached, obs, known, watermark, rows, paused,
                          seen, nodeMark, inHand, resets>>

Current(m) == m.obs > watermark /\ m.obs \in known

(* on_action: the checks (an answer too old in time is dropped too) ... *)
Checked == /\ attached /\ inHand = {}
           /\ \E m \in wire : /\ wire' = wire \ {m}
                              /\ inHand' \in {{}} \cup (IF Current(m) THEN {{m}} ELSE {})
           /\ UNCHANGED <<facts, attached, obs, known, watermark, rows, paused,
                          seen, nodeMark, resets>>

(* ... and the store, under the lock the checks did not hold. *)
on_action == \E m \in inHand :
    /\ inHand' = {}
    /\ rows' = [a \in Driven |-> IF a \in m.arms THEN m.obs ELSE rows[a]]
    /\ UNCHANGED <<facts, attached, obs, known, watermark, paused, nodeVars, resets>>

Reset == resets < MaxResets /\ resets' = resets + 1

(* Handback or boundary, on the control thread; the reset may not reach the node. *)
drop_and_requery ==
    /\ Reset
    /\ rows' = Blank /\ watermark' = obs
    /\ nodeMark' \in {nodeMark} \cup (IF attached THEN {obs} ELSE {})
    /\ UNCHANGED <<facts, attached, obs, known, paused, seen, wire,
                   inHand>>

pause == /\ Reset /\ ~paused /\ paused' = TRUE /\ rows' = Blank
         /\ UNCHANGED <<facts, attached, obs, known, watermark, nodeVars, inHand>>

resume == /\ paused /\ paused' = FALSE
          /\ UNCHANGED <<facts, attached, obs, known, watermark, rows, nodeVars,
                         inHand, resets>>

(* What the executor gets: nothing while paused or while no driven arm has a chunk; an arm
   without one holds. *)
latest == IF paused THEN {} ELSE {a \in Driven : rows[a] # 0}

(* The bridge detaches and attaches again: what is on the wire is lost. *)
Reattach == /\ attached' = ~attached
            /\ wire' = {} /\ UNCHANGED <<facts, obs, known, watermark, rows, paused,
                                         seen, nodeMark, inHand, resets>>

SourceNext == \/ session_started \/ _publish_obs_state \/ _on_obs
              \/ Checked \/ on_action \/ drop_and_requery \/ pause \/ resume \/ Reattach

SourceSpec == SourceInit /\ [][SourceNext]_sourceVars

(******************************* properties *******************************)
(* What drop_and_requery is for: a row the loop can use was computed from an observation after
   the last requery. The code does not keep it (README, part 5). *)
FreshAfterRequery == \A a \in latest : rows[a] > watermark
=============================================================================
