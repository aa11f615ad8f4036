---------------------------- MODULE TrackerInput ----------------------------
(***************************************************************************)
(* The controller of the tracker on its way to the loop                    *)
(* (devices/tracker.py, ControlLoop._device_inputs): button events and     *)
(* poses arrive on the reader's thread, both publish into a slot of depth  *)
(* one, and the loop reads the slot once per tick.  A press is an edge with *)
(* a number, remembered so that none is lost and none fires twice; a       *)
(* sample published for an edge carries the last pose, and its age.        *)
(***************************************************************************)
EXTENDS Naturals, Sequences, SequencesExt

CONSTANTS EdgeHistory,   \* press edges remembered
          StaleAfter,    \* the age of a stale sample or pose
          MaxEdges       \* bound

ASSUME TrackerAssumption == EdgeHistory \in Nat \ {0} /\ StaleAfter \in Nat /\ MaxEdges \in Nat

(* The pad's position names its direction; outside the dead zone one is bound to a key that is
   held, the other, like the menu button, to an action that fires once. *)
PadAt == {"centre", "held", "action"}
Fires(input) == input \in {"action", "menu"}

VARIABLES
  ctl, adopted,        \* the reader's _controller, and whether there is one
  slotted, sampleAge,  \* the newest sample, if any, and its age
  poseAge, poseOk,     \* the age the reader keeps of the last pose, and whether it jumped
  realAge,             \* history: the age of the last pose there really was
  seenSeq,             \* of the loop: {} or the counter it saw last
  fired, dropped       \* history: what the loop fired, in order, and what it passed over

padVars == <<ctl, adopted>>
poseVars == <<poseAge, poseOk, realAge>>
loopSideVars == <<seenSeq, fired, dropped>>
trkVars == <<padVars, slotted, sampleAge, poseVars, loopSideVars>>

NoPad == [click |-> FALSE, at |-> "centre", dir |-> "centre", menu |-> FALSE, edges |-> <<>>]

TrkInit ==
  /\ ctl = NoPad /\ adopted = FALSE /\ slotted = {} /\ sampleAge = 0
  /\ poseAge = 0 /\ poseOk = FALSE /\ realAge = 0
  /\ seenSeq = {} /\ fired = <<>> /\ dropped = {}

------------------------------------------------------------------------------
EdgeSeq(c) == IF c.edges = <<>> THEN 0 ELSE Last(c.edges).seq

Newest(edges) == SubSeq(edges, Len(edges) - EdgeHistory + 1, Len(edges))
Remember(c, input) ==
  LET all == Append(c.edges, [seq |-> EdgeSeq(c) + 1, input |-> input])
  IN  IF Len(all) > EdgeHistory THEN Newest(all) ELSE all

(* A press is an edge; a click that began in the dead zone is one more when the finger leaves
   it; a release drops the direction. *)
note_edges(c, e) ==
  LET moved == [c EXCEPT !.click = e.click, !.at = e.at, !.menu = e.menu]
      pad == IF e.click /\ (~c.click \/ (c.dir = "centre" /\ e.at # "centre"))
             THEN [moved EXCEPT !.dir = e.at, !.edges = Remember(c, e.at)]
             ELSE [moved EXCEPT !.dir = IF e.click THEN @ ELSE "centre"]
  IN  IF e.menu /\ ~c.menu THEN [pad EXCEPT !.edges = Remember(pad, "menu")] ELSE pad

derive_held_codes(c) == IF c.click /\ c.dir = "held" THEN {"held"} ELSE {}

(* A loop over a list that keeps what is in S, in the order of the list (a recursive function,
   which proofs can reason about). *)
Keep(out, item, S) == IF item \in S THEN Append(out, item) ELSE out
Those(list, S) ==
  LET upto[k \in 0..Len(list)] == IF k = 0 THEN <<>> ELSE Keep(upto[k - 1], list[k], S)
  IN  upto[Len(list)]

derive_click_actions(c) == Those(c.edges, {i \in Range(c.edges) : Fires(i.input)})

(* What a sample carries: whether there is a controller, the counter, the remembered actions,
   oldest first, the codes and the validity. *)
Sample(c, has, ok) == [has |-> has, seq |-> EdgeSeq(c), codes |-> derive_held_codes(c),
                       valid |-> ok, actions |-> derive_click_actions(c)]

(* mutant: an edge counts as a pose. *)
EdgeFreshens == poseAge' = 0 /\ UNCHANGED <<poseOk, realAge>>
EdgeAges == UNCHANGED poseVars

_publish_edge == /\ EdgeAges
                 /\ slotted' = {Sample(ctl', TRUE, poseOk /\ poseAge <= StaleAfter)}
                 /\ sampleAge' = 0

Buttons(c) == <<c.click, c.menu>>

(* One button per event; the axes come with any. *)
_on_controller(e) ==
  /\ e.click = ctl.click \/ e.menu = ctl.menu
  /\ ctl' = note_edges(ctl, e) /\ adopted' = TRUE
  /\ EdgeSeq(ctl') <= MaxEdges
  /\ \A n \in seenSeq : EdgeSeq(ctl') <= n + EdgeHistory   \* assumed: the loop reads in time
  /\ IF slotted # {} /\ (Buttons(ctl') # Buttons(ctl)
                         \/ derive_held_codes(ctl') # derive_held_codes(ctl))
     THEN _publish_edge
     ELSE UNCHANGED <<slotted, sampleAge, poseVars>>
  /\ UNCHANGED loopSideVars

ButtonEvent == \E b, m \in BOOLEAN, p \in PadAt : _on_controller([click |-> b, menu |-> m, at |-> p])

(* A pose is valid unless it jumps; the first has nothing to jump from. *)
PoseEvent == /\ poseOk' \in (IF slotted = {} THEN {TRUE} ELSE BOOLEAN)
             /\ poseAge' = 0 /\ realAge' = 0
             /\ slotted' = {Sample(ctl, adopted, poseOk')} /\ sampleAge' = 0
             /\ UNCHANGED <<padVars, loopSideVars>>

TimePasses == /\ slotted # {} /\ sampleAge <= StaleAfter
              /\ LET grows(a) == IF a > StaleAfter THEN a ELSE a + 1
                 IN  /\ sampleAge' = grows(sampleAge) /\ poseAge' = grows(poseAge)
                     /\ realAge' = grows(realAge)
              /\ UNCHANGED <<padVars, slotted, poseOk, loopSideVars>>

------------------------------------------------------------------------------
(* The loop: the counter is taken over whatever the sample's age, and only what is newer than
   the counter seen last fires, from a fresh sample. *)
SampleFresh == sampleAge <= StaleAfter

(* mutant: a stale sample is not looked at. *)
SeesFresh(s) == seenSeq' = IF SampleFresh THEN {s.seq} ELSE seenSeq
SeesAny(s) == seenSeq' = {s.seq}

_device_click_edge(s) ==
  LET new == Those(s.actions, {i \in Range(s.actions) : \A n \in seenSeq : i.seq > n}) IN
  /\ SeesAny(s)
  /\ IF SampleFresh /\ seenSeq # {}
     THEN fired' = fired \o [n \in 1..Len(new) |-> new[n].seq] /\ UNCHANGED dropped
     ELSE dropped' = dropped \cup {i.seq : i \in Range(new)} /\ UNCHANGED fired

LoopReads == /\ \E s \in slotted : IF s.has THEN _device_click_edge(s)
                                  ELSE seenSeq' = {} /\ UNCHANGED <<fired, dropped>>
             /\ UNCHANGED <<padVars, slotted, sampleAge, poseVars>>

TrkNext == ButtonEvent \/ PoseEvent \/ TimePasses \/ LoopReads

------------------------------------------------------------------------------
(* A press fires once, in the order of the presses, and never after it was passed over: none
   of those up to the counter the loop has seen is left.  And however many buttons are pressed,
   a sample the clutch may anchor on has a pose as young as it says. *)
EdgesFireOnce ==
  /\ \A i, j \in 1..Len(fired) : i < j => fired[i] < fired[j]
  /\ Range(fired) \cap dropped = {}
  /\ \A i \in Range(ctl.edges) : Fires(i.input) /\ (\E n \in seenSeq : i.seq <= n)
       => i.seq \in Range(fired) \cup dropped
  /\ \A s \in slotted : s.valid /\ poseAge <= StaleAfter => realAge <= StaleAfter
=============================================================================
