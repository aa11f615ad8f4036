--------------------------- MODULE PolicyVersions ---------------------------
(***************************************************************************)
(* What the reloader promises (dagger/reloader.py): the weights that drive *)
(* change between episodes and only forwards; inside an episode the only   *)
(* change is back to the last version known to be good, which is one that  *)
(* drove an episode.                                                       *)
(***************************************************************************)
EXTENDS Naturals

CONSTANT Versions

VARIABLES
  running,    \* the version that drives
  good,       \* LAST_KNOWN_GOOD
  open        \* an episode is under way

VersionsInit == running = 0 /\ good = 0 /\ open = FALSE

Open == ~open /\ open' = TRUE /\ UNCHANGED <<running, good>>
Close == open /\ open' = FALSE /\ good' \in {good, running} /\ UNCHANGED running
Swap == ~open /\ running' \in {v \in Versions : v > running} /\ UNCHANGED <<good, open>>
RollBack == running' = good /\ UNCHANGED <<good, open>>

VersionsNext == Open \/ Close \/ Swap \/ RollBack

VersionsSpec == VersionsInit /\ [][VersionsNext]_<<running, good, open>>
=============================================================================
