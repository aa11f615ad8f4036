----------------------------- MODULE SafetyGate -----------------------------
(***************************************************************************)
(* The hold-last-safe gate (safety/gate.py, asked through                  *)
(* safety/supervisor.py).  A posture is a point of 0..MaxPos per arm;      *)
(* Dist[p][f] is the clearance of the body pair p in the configuration f,  *)
(* and p is named by the arms it involves: {1, 2} two arms, {1} an arm and *)
(* its surroundings.                                                       *)
(***************************************************************************)
EXTENDS Naturals, FiniteSets

CONSTANTS
  Arms,      \* session_arms
  MaxPos,    \* the last posture
  Pairs,     \* body pairs the twin watches
  Dist,      \* their clearance in every configuration
  Delta,     \* inflation_m + min_clearance_m: blocked below
  Hyst       \* hysteresis_m: a blocked pair counts up to Delta + Hyst

Pos == 0..MaxPos
Postures == [Arms -> Pos]

ASSUME GateAssumption ==
  /\ MaxPos \in Nat /\ Delta \in Nat /\ Hyst \in Nat
  /\ Pairs \subseteq SUBSET Arms
  /\ Dist \in [Pairs -> [Postures -> Nat]]

VARIABLES
  safe,      \* _last_safe
  blocked,   \* _blocked
  pairs      \* _block_pairs

gateVars == <<safe, blocked, pairs>>

GateInit(f) == safe = f /\ blocked = FALSE /\ pairs = {}

(* Pairs too close in the commanded posture; a pair that blocks already    *)
(* must clear the hysteresis band too.                                     *)
Viols(f) == {p \in Pairs : \/ Dist[p][f] < Delta
                           \/ blocked /\ p \in pairs /\ Dist[p][f] < Delta + Hyst}

(* Violated already in the measured posture, by the same measure. *)
MeasuredViols(m) ==
  {p \in Pairs : Dist[p][m] < (IF blocked THEN Delta + Hyst ELSE Delta)}

(* The arms of the violated pairs v that are held: all but those whose     *)
(* every violated pair was violated before and opens (the escape).         *)
Escapes(a, f, m, v) ==
  \A p \in v : a \in p => p \in MeasuredViols(m) /\ Dist[p][f] > Dist[p][m]

Held(f, m, v) == {a \in UNION v : ~ Escapes(a, f, m, v)}

(* What goes out.  A stale twin fails closed. *)
GateOut(f, m, stale) ==
  LET held == Held(f, m, Viols(f))
  IN IF stale THEN safe ELSE [a \in Arms |-> IF a \in held THEN safe[a] ELSE f[a]]

KeepsNoEscape(f, m, v) == IF v = {} THEN Arms ELSE {}       \* mutant: escapes forgotten

(* Clear, the whole command is the new hold point; blocked, only an arm    *)
(* that escapes takes its own along.                                       *)
Keeps(f, m, v) == IF v = {} THEN Arms ELSE (UNION v) \ Held(f, m, v)

GateFilter(f, m, stale) ==
  LET v == IF stale THEN {} ELSE Viols(f)
      keeps == IF stale THEN {} ELSE Keeps(f, m, v)
  IN /\ blocked' = (stale \/ v # {})
     /\ pairs' = v
     /\ safe' = [a \in Arms |-> IF a \in keeps THEN f[a] ELSE safe[a]]

GateForgets(a, p) == UNCHANGED <<safe, blocked, pairs>>     \* mutant

(* reseed: the hold point of a recovered arm is where it is. *)
GateReseed(a, p) == safe' = [safe EXCEPT ![a] = p] /\ UNCHANGED <<blocked, pairs>>
=============================================================================
