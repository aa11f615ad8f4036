---------------------------- MODULE Checkpoints ----------------------------
(***************************************************************************)
(* The store of checkpoints on disk (dagger/trainer/checkpoints.py): one   *)
(* directory per version, filled file by file, and the pointer LATEST.     *)
(***************************************************************************)
EXTENDS Naturals, FiniteSets, FiniteSetsExt

CONSTANTS
  MaxVersions,    \* bound: versions written
  None

ASSUME StoreAssumption == MaxVersions \in Nat \ {0} /\ None \notin Nat

VARIABLES
  dirs,       \* of each version there is: its files, its verdict, which process made it
  latest      \* LATEST: a version, or None

diskVars == <<dirs, latest>>

Files == {"weights", "state", "manifest"}
Dir == [files: SUBSET Files, sane: BOOLEAN, by: Nat]

StoreTypeOK ==
  /\ DOMAIN dirs \subseteq 0..MaxVersions /\ \A v \in DOMAIN dirs : dirs[v] \in Dir
  /\ latest \in 0..MaxVersions \cup {None}

(* The session's seed is version 0. *)
StoreInit == dirs = [v \in {0} |-> [files |-> Files, sane |-> TRUE, by |-> 0]] /\ latest = None

versions == DOMAIN dirs
LastOf(vs) == Max(vs)

MakeDir(v, n) ==
  dirs' = [u \in versions \cup {v} |->
             IF u = v THEN [files |-> {}, sane |-> FALSE, by |-> n] ELSE dirs[u]]
AddFile(v, f) == dirs' = [dirs EXCEPT ![v].files = @ \cup {f}]
WriteManifest(v, ok) == dirs' = [dirs EXCEPT ![v].files = @ \cup {"manifest"}, ![v].sane = ok]

Whole(v) == v \in versions /\ dirs[v].files = Files
=============================================================================
