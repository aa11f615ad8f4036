------------------------------ MODULE Reloader ------------------------------
(***************************************************************************)
(* The reloader (dagger/reloader.py) between the trainer, which publishes  *)
(* versions in a store (dagger/trainer/checkpoints.py), and the policy.    *)
(* Its thread stages the newest sane version; the control loop loads what  *)
(* is staged when an episode ends, and the last known good one when the    *)
(* policy has failed.                                                      *)
(***************************************************************************)
EXTENDS PolicyRunner

VARIABLES
  written,    \* the newest version written
  latest,     \* the pointer LATEST
  good,       \* the pointer LAST_KNOWN_GOOD
  current,    \* reloader.current_version
  staged,     \* version staged, or None
  found       \* what the thread's poll has in hand: a version, or None

storeVars == <<written, latest, good>>
reloaderVars == <<storeVars, current, staged, found>>

ReloaderTypeOK ==
  /\ written \in Versions
  /\ latest \in Versions \cup {None} /\ good \in Versions /\ current \in Versions
  /\ staged \in Versions \cup {None} /\ found \in Versions \cup {None}

(* Version 0 is the session's seed; nothing is LATEST yet. *)
ReloaderInit ==
  /\ written = 0 /\ latest = None /\ good = 0
  /\ current = 0 /\ staged = None /\ found = None

(* The trainer: LATEST only ever names a version that is sane. *)
WriteCheckpoint ==
  /\ written + 1 \in Versions
  /\ written' = written + 1
  /\ latest' \in {latest, written + 1}    \* not sane, or sane
  /\ UNCHANGED <<good, current, staged, found>>

(* poll, up to the test of what is staged already. *)
Poll ==
  /\ found = None /\ latest # None /\ latest > current
  /\ staged # None => staged < latest
  /\ found' = latest
  /\ UNCHANGED <<storeVars, current, staged>>

(* Manifest and weights read: the version may turn out not to fit. *)
Stage ==
  /\ found # None /\ found' = None
  /\ \/ staged' = IF staged = None \/ found > staged THEN found ELSE staged
     \/ UNCHANGED staged    \* refused
  /\ UNCHANGED <<storeVars, current>>

ReloaderStep == WriteCheckpoint \/ Poll \/ Stage

(* rollback: what the policy goes back to. *)
RollBackToNewest == IF latest = current THEN None ELSE latest    \* mutant: LATEST
RollbackTarget == IF good = current THEN None ELSE good

(* maybe_swap takes what is staged; it is loaded if it is newer. *)
Wanted == IF staged # None /\ staged > current THEN staged ELSE None
=============================================================================
