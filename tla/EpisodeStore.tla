---------------------------- MODULE EpisodeStore ----------------------------
(***************************************************************************)
(* One dataset directory (recorder/manifest.py) and the operations clients *)
(* ask of it (recorder/datasets.py), while a recorder writes into it: a    *)
(* listing sweeps the directories of incomplete episodes, an episode is    *)
(* deleted, an export reads what is there.  A directory is removed file by *)
(* file, so its removal is several steps; a manifest is read, rebuilt from *)
(* the directories and written under MANIFEST_LOCK, where the code takes   *)
(* it.                                                                     *)
(***************************************************************************)
EXTENDS Naturals, FiniteSets

CONSTANTS
  MaxIds,       \* bound: episodes started
  Sessions,     \* numbers of the sessions recording here, 1..n
  MaxAsks,      \* bound: listings, deletions, exports, re-reads of the manifest
  None

ASSUME StoreAssumption ==
  /\ Sessions \subseteq Nat \ {0} /\ MaxIds \in Nat /\ MaxAsks \in Nat
  /\ None \notin Nat \union {"save", "discard"}

EpisodeIds == 1..MaxIds    \* mint_episode_id: ids sort by the time they were minted
Parts == {"video", "frames", "json"}    \* of an episode directory

VARIABLES
  place,      \* of an episode's directory: "none", "temp" (.tmp-<id>) or "saved"
  files,      \* what is in it
  manifest,   \* manifest.json; episodes of equal length, so it counts them only
  lock,       \* MANIFEST_LOCK: None, or the session whose recorder holds it
  rest,       \* where the one client handler is, and on which episodes
  job,        \* the export thread: where it is, what it took
  asks,       \* what the bound counts
  deleted,    \* history: ids deleted
  swept       \* history: ids swept by another than their owner

diskVars == <<place, files>>
askedVars == <<asks, deleted, swept>>
storeVars == <<diskVars, manifest, lock, rest, job, askedVars>>

NoManifest == [made |-> FALSE, episodes |-> 0, export |-> "none", took |-> {}]
Idle == [at |-> "idle", ids |-> {}]

StoreInit ==
  /\ place = [i \in EpisodeIds |-> "none"] /\ files = [i \in EpisodeIds |-> {}]
  /\ manifest = NoManifest /\ lock = None
  /\ rest = Idle /\ job = Idle
  /\ asks = 0 /\ deleted = {} /\ swept = {}

Temps == {i \in EpisodeIds : place[i] = "temp"}
Saved == {i \in EpisodeIds : place[i] = "saved" /\ "json" \in files[i]}    \* episode_dirs
Whole == {i \in Saved : files[i] = Parts}                           \* exportable_ids

Rebuilt(m) == [m EXCEPT !.made = TRUE, !.episodes = Cardinality(Saved)]
Stale(m) == [m EXCEPT !.export = IF @ = "fresh" THEN "stale" ELSE @]
Refreshed(m) == IF Cardinality(Saved) = m.episodes THEN Rebuilt(m) ELSE Stale(Rebuilt(m))

Erased(ids) ==
  /\ place' = [i \in EpisodeIds |-> IF i \in ids THEN "none" ELSE place[i]]
  /\ files' = [i \in EpisodeIds |-> IF i \in ids THEN {} ELSE files[i]]

Asked == asks < MaxAsks /\ asks' = asks + 1

-----------------------------------------------------------------------------
(* list: sweep() keeps the .tmp-* directories the running session has now, *)
(* and removes the others it then finds.                                   *)
List(inUse) ==
  /\ rest = Idle /\ Asked
  /\ rest' = [at |-> "sweep", ids |-> IF inUse THEN Temps ELSE {}]
  /\ UNCHANGED <<diskVars, manifest, lock, job, deleted, swept>>

SweepFiles ==
  /\ rest.at = "sweep"
  /\ rest' = [at |-> "rmdir", ids |-> Temps \ rest.ids]
  /\ files' = [i \in EpisodeIds |-> IF i \in Temps \ rest.ids THEN {} ELSE files[i]]
  /\ swept' = swept \union (Temps \ rest.ids)
  /\ UNCHANGED <<place, manifest, lock, job, asks, deleted>>

(* A directory that is no longer empty stays (ignore_errors). *)
SweepDirs ==
  /\ rest.at = "rmdir" /\ rest' = Idle
  /\ Erased({i \in rest.ids \intersect Temps : files[i] = {}})
  /\ UNCHANGED <<manifest, lock, job, askedVars>>

(* delete_episode *)
Delete(i, open) ==
  /\ rest = Idle /\ Asked
  /\ place[i] = "saved" /\ i # open
  /\ job = Idle
  /\ rest' = [at |-> "delete", ids |-> {i}]
  /\ deleted' = deleted \union {i}
  /\ UNCHANGED <<diskVars, manifest, lock, job, swept>>

(* In either order: episode.json goes first, or last. *)
DeleteFiles ==
  /\ rest.at = "delete" /\ rest' = [rest EXCEPT !.at = "rmtree"]
  /\ \E i \in rest.ids : \E left \in {{"json"}, Parts \ {"json"}} :
       files' = [files EXCEPT ![i] = @ \intersect left]
  /\ UNCHANGED <<place, manifest, lock, job, askedVars>>

DeleteDir ==
  /\ rest.at = "rmtree" /\ rest' = [rest EXCEPT !.at = "refresh"]
  /\ Erased(rest.ids)
  /\ UNCHANGED <<manifest, lock, job, askedVars>>

RefreshManifest ==
  /\ rest.at = "refresh" /\ lock = None /\ rest' = Idle
  /\ manifest' = Refreshed(manifest)
  /\ UNCHANGED <<diskVars, lock, job, askedVars>>

(* export: refused while a session records here or an export runs. *)
Export(inUse) ==
  /\ manifest.made /\ ~ inUse /\ job = Idle /\ Asked
  /\ job' = [at |-> "scan", ids |-> {}]
  /\ UNCHANGED <<diskVars, manifest, lock, rest, deleted, swept>>

(* export_lerobot_v3: what it took must still be there when it is read, or the export fails.  *)
ExportScan ==
  /\ job.at = "scan"
  /\ job' = [at |-> "read", ids |-> Whole]
  /\ UNCHANGED <<diskVars, manifest, lock, rest, askedVars>>

ExportRead ==
  /\ job.at = "read"
  /\ job' = [job EXCEPT !.at = IF @ = "read" /\ job.ids # {} /\ job.ids \subseteq Whole
                               THEN "record" ELSE "fail"]
  /\ UNCHANGED <<diskVars, manifest, lock, rest, askedVars>>

RecordExport ==
  /\ job.at \in {"record", "fail"} /\ lock = None /\ job' = Idle
  /\ manifest' = IF job.at = "fail" THEN [manifest EXCEPT !.export = IF @ = "none" THEN "stale" ELSE @]
                 ELSE [manifest EXCEPT !.export = IF Whole = job.ids THEN "fresh" ELSE "stale",
                                       !.took = job.ids]
  /\ UNCHANGED <<diskVars, lock, rest, askedVars>>

StoreStep ==
  \/ SweepFiles \/ SweepDirs \/ DeleteFiles \/ DeleteDir \/ RefreshManifest
  \/ ExportScan \/ ExportRead \/ RecordExport

=============================================================================
