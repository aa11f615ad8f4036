--------------------------- MODULE Recorder_proofs ---------------------------
(***************************************************************************)
(* Proofs about the recorded episodes, for every number of sessions, of    *)
(* episodes, of failures and of what clients ask for; and about their      *)
(* columns and their replay.                                               *)
(***************************************************************************)
EXTENDS Recorder, Playback, FiniteSetTheorems, SequenceTheorems, WellFoundedInduction, TLAPS

Published == {"count", "record", "saved"}
Busy == {"write", "json", "replace", "count", "record", "saved", "drop", "degrade"}

(* The recorder of s: what its thread is at, what is asked of it and the   *)
(* episode it has open agree, and the hooks heard of an open episode only  *)
(* when recording is degraded.                                             *)
Book(s) ==
  /\ rec[s].op # None <=> rec[s].state = "saving"
  /\ rec[s].prepare => rec[s].got = "nothing"
  /\ rec[s].op = "save" => rec[s].got # "nothing"
  /\ pc[s] \in Busy => buf[s] # None
  /\ pc[s] \in Busy \union {"hook", "flip"} => rec[s].state = "saving"
  /\ pc[s] \in {"write", "json", "replace"} => ~ rec[s].prepare
  /\ pc[s] \in {"loop", "shut"} /\ rec[s].state # "idle" => buf[s] # None
  /\ pc[s] = "discard" /\ rec[s].was => buf[s] # None
  /\ pc[s] \in {"off", "dead"} => buf[s] = None
  /\ life[s] \in {"none", "checked", "opened", "built"} <=> pc[s] = "off"
  /\ pc[s] = "off" => rec[s].state = "idle"
  /\ buf[s] # None /\ told[buf[s]] # "nothing" =>
       /\ rec[s].degraded /\ rec[s].state = "idle"
       /\ pc[s] \in {"loop", "shut", "discard", "finalize"}
       /\ pc[s] = "discard" => ~ rec[s].was

(* The directory of the episode s has open: how far its writing is, unless *)
(* somebody else swept it, and that no client deletes it before it has its *)
(* name.                                                                   *)
Progress(s) ==
  buf[s] # None =>
    /\ pc[s] \notin Published => place[buf[s]] # "saved" /\ buf[s] \notin deleted
    /\ pc[s] \in Published => place[buf[s]] = "saved" \/ buf[s] \in deleted
    /\ buf[s] \notin swept =>
         /\ \/ pc[s] = "write"
            \/ pc[s] = "loop" /\ rec[s].state # "idle" /\ ~ rec[s].prepare
            => place[buf[s]] = "temp" /\ "video" \in files[buf[s]]
         /\ pc[s] = "json" => place[buf[s]] = "temp" /\ {"video", "frames"} \subseteq files[buf[s]]
         /\ pc[s] = "replace" => place[buf[s]] = "temp" /\ files[buf[s]] = Parts

(* Whose an id is. *)
Ids ==
  /\ \A s \in Sessions : buf[s] # None => buf[s] <= minted
  /\ \A s, r \in Sessions : buf[s] = buf[r] /\ buf[s] # None => s = r
  /\ \A i \in EpisodeIds : i > minted => place[i] = "none" /\ told[i] = "nothing"
       /\ i \notin deleted

(* What a client handler removes was given up by its owner before. *)
Clients ==
  /\ rest.at = "rmdir" => rest.ids \subseteq swept
  /\ rest.at \in {"delete", "rmtree"} => rest.ids \subseteq deleted
  /\ \A i \in EpisodeIds \intersect deleted : place[i] # "temp"

Recorders == \A s \in Sessions : Book(s) /\ Progress(s)

RecInv == TypeOK /\ Recorders /\ Ids /\ Clients /\ SavedIsWhole /\ TempHasOwner

LEMMA EpisodeCount == IsFiniteSet(EpisodeIds) /\ Cardinality(EpisodeIds) \in Nat
<1>1. IsFiniteSet(EpisodeIds)
  BY StoreAssumption, FS_Interval DEF EpisodeIds
<1> QED BY <1>1, FS_CardinalityType

LEMMA RecorderStart == RecorderInit => RecInv
<1> SUFFICES ASSUME RecorderInit PROVE RecInv
  OBVIOUS
<1> USE StoreAssumption, RecorderAssumption DEF RecorderInit, StoreInit
<1>2. TypeOK
  BY EpisodeCount DEF TypeOK, Manifests, NoManifest, NewRec, Recs, Idle, EpisodeIds
<1>3. Recorders
  BY DEF Recorders, Book, Progress, NewRec, Busy, Published
<1>4. Ids /\ Clients /\ SavedIsWhole /\ TempHasOwner
  BY DEF Ids, Clients, SavedIsWhole, TempHasOwner, Temps, Idle
<1> QED BY <1>2, <1>3, <1>4 DEF RecInv

(***************************************************************************)
(* Types.                                                                  *)
(***************************************************************************)
LEMMA SavedCount == Cardinality(Saved) \in 0..Cardinality(EpisodeIds)
<1>1. Saved \subseteq EpisodeIds
  BY DEF Saved
<1> QED BY <1>1, EpisodeCount, FS_Subset, FS_CardinalityType

LEMMA ManifestTyped ==
  ASSUME NEW m \in Manifests
  PROVE  /\ Rebuilt(m) \in Manifests /\ Stale(m) \in Manifests /\ Refreshed(m) \in Manifests
         /\ NoManifest \in Manifests /\ [NoManifest EXCEPT !.made = TRUE] \in Manifests
<1>1. Rebuilt(m) \in Manifests
  BY SavedCount DEF Rebuilt, Manifests
<1>2. \A n \in Manifests : Stale(n) \in Manifests
  BY DEF Stale, Manifests
<1>3. NoManifest \in Manifests
  BY EpisodeCount DEF NoManifest, Manifests
<1>4. [NoManifest EXCEPT !.made = TRUE] \in Manifests
  BY <1>3 DEF Manifests
<1> QED BY <1>1, <1>2, <1>3, <1>4 DEF Refreshed

LEMMA ErasedTyped ==
  ASSUME TypeOK, NEW ids, Erased(ids)
  PROVE  place' \in [EpisodeIds -> {"none", "temp", "saved"}]
       /\ files' \in [EpisodeIds -> SUBSET Parts]
BY DEF Erased, TypeOK

(* Whatever a step makes of one recorder's fields. *)
LEMMA RecTyped ==
  ASSUME rec \in [Sessions -> Recs], NEW s \in Sessions
  PROVE  /\ NewRec \in Recs
         /\ \A state \in {"idle", "recording", "saving"}, op \in {None, "save", "discard"} :
              [rec[s] EXCEPT !.state = state, !.op = op] \in Recs
         /\ \A got \in {"nothing", "captures", "frames"} :
              [rec[s] EXCEPT !.got = got, !.prepare = FALSE] \in Recs
         /\ \A b \in BOOLEAN : [rec[s] EXCEPT !.returning = b] \in Recs
         /\ [rec[s] EXCEPT !.state = "recording", !.got = "nothing", !.prepare = TRUE] \in Recs
         /\ [rec[s] EXCEPT !.tries = 1] \in Recs
         /\ [rec[s] EXCEPT !.state = "idle", !.op = None, !.got = "nothing", !.tries = 0] \in Recs
         /\ [rec[s] EXCEPT !.state = "idle", !.op = None, !.degraded = TRUE] \in Recs
         /\ \A b \in BOOLEAN : [rec[s] EXCEPT !.state = "idle", !.op = None, !.was = b] \in Recs
<1> USE DEF Recs
<1>1. NewRec \in Recs
  BY DEF NewRec
<1>2. \A state \in {"idle", "recording", "saving"}, op \in {None, "save", "discard"} :
        [rec[s] EXCEPT !.state = state, !.op = op] \in Recs
  <2>1. rec[s] \in Recs
    OBVIOUS
  <2> QED BY <2>1
<1>3. \A got \in {"nothing", "captures", "frames"} :
        [rec[s] EXCEPT !.got = got, !.prepare = FALSE] \in Recs
  BY ZenonT(40)
<1>4. \A b \in BOOLEAN : [rec[s] EXCEPT !.returning = b] \in Recs
  OBVIOUS
<1>5. [rec[s] EXCEPT !.state = "recording", !.got = "nothing", !.prepare = TRUE] \in Recs
  BY ZenonT(40)
<1>6. [rec[s] EXCEPT !.tries = 1] \in Recs
  OBVIOUS
<1>7. [rec[s] EXCEPT !.state = "idle", !.op = None, !.got = "nothing", !.tries = 0] \in Recs
  <2>1. [rec[s] EXCEPT !.state = "idle", !.op = None] \in Recs
    BY ZenonT(40)
  <2>2. \A r \in Recs : [r EXCEPT !.got = "nothing"] \in Recs
    OBVIOUS
  <2>3. \A r \in Recs : [r EXCEPT !.tries = 0] \in Recs
    OBVIOUS
  <2> QED BY <2>1, <2>2, <2>3, Zenon
<1>8. [rec[s] EXCEPT !.state = "idle", !.op = None, !.degraded = TRUE] \in Recs
  BY ZenonT(40)
<1>9. \A b \in BOOLEAN : [rec[s] EXCEPT !.state = "idle", !.op = None, !.was = b] \in Recs
  BY ZenonT(40)
<1> QED BY <1>1, <1>2, <1>3, <1>4, <1>5, <1>6, <1>7, <1>8, <1>9

LEMMA ManagerTyped ==
  ASSUME TypeOK, NEW s \in Sessions,
         Check(s) \/ Stop(s) \/ StopTimesOut(s) \/ ReturnEnds(s) \/ ManagerStep(s)
  PROVE  TypeOK'
<1> USE StoreAssumption DEF TypeOK, storeVars, diskVars, askedVars, threadVars, memVars,
     managerVars, historyVars
<1>1. CASE Check(s)
  BY <1>1 DEF Check
<1>2. CASE Open(s)
  <2>1. diskVars' = diskVars \/ Erased(Temps)
    BY <1>2 DEF Open, SweepsOwn
  <2>2. place' \in [EpisodeIds -> {"none", "temp", "saved"}]
       /\ files' \in [EpisodeIds -> SUBSET Parts]
    BY <2>1, ErasedTyped
  <2>3. mem' \in [Sessions -> Manifests]
    BY <1>2, ManifestTyped DEF Open
  <2> QED BY <1>2, <2>2, <2>3 DEF Open, KeepClients
<1>3. CASE WriteOpened(s)
  BY <1>3, ManifestTyped DEF WriteOpened
<1>4. CASE Start(s)
  BY <1>4 DEF Start
<1>5. CASE Publish(s)
  BY <1>5 DEF Publish
<1>6. CASE Stop(s)
  BY <1>6 DEF Stop
<1>7. CASE StopReturns(s)
  BY <1>7, RecTyped DEF StopReturns, Ended, NewRec
<1>8. CASE StopTimesOut(s)
  BY <1>8 DEF StopTimesOut, Ended
<1>9. CASE ReturnEnds(s)
  BY <1>9, RecTyped DEF ReturnEnds
<1> QED BY <1>1, <1>2, <1>3, <1>4, <1>5, <1>6, <1>7, <1>8, <1>9 DEF ManagerStep

LEMMA LoopTyped ==
  ASSUME TypeOK, NEW s \in Sessions, Request(s) \/ ReadCounters(s) \/ PutCounters(s)
  PROVE  TypeOK'
<1> USE StoreAssumption DEF TypeOK, storeVars, diskVars, askedVars, threadVars, managerVars,
     memVars, historyVars
<1>1. CASE RequestNew(s)
  <2>1. buf' \in [Sessions -> EpisodeIds \union {None}] /\ minted' \in 0..MaxIds
    BY <1>1 DEF RequestNew, EpisodeIds
  <2> QED BY <1>1, <2>1, RecTyped DEF RequestNew, Asks
<1>2. CASE RequestSave(s) \/ RequestDiscard(s)
  <2>1. PICK op \in {"save", "discard"} :
          rec' = [rec EXCEPT ![s] = [rec[s] EXCEPT !.state = "saving", !.op = op]]
    BY <1>2 DEF RequestSave, RequestDiscard, Asks
  <2>2. rec' \in [Sessions -> Recs]
    BY <2>1, RecTyped
  <2> QED BY <1>2, <2>2 DEF RequestSave, RequestDiscard, Asks
<1>3. CASE ReadCounters(s)
  BY <1>3 DEF ReadCounters
<1>4. CASE PutCounters(s)
  BY <1>4, ManifestTyped DEF PutCounters
<1> QED BY <1>1, <1>2, <1>3, <1>4 DEF Request

LEMMA ThreadTyped ==
  ASSUME TypeOK, Recorders, NEW s \in Sessions, CaptureRaises(s) \/ ThreadStep(s)
  PROVE  TypeOK'
<1> USE StoreAssumption
        DEF TypeOK, storeVars, diskVars, askedVars, threadVars, managerVars, memVars, historyVars,
            At, KeepOthers, KeepStore, KeepClients, Writing
<1>1. CASE LoopEnds(s) \/ CaptureRaises(s) \/ TakeSave(s) \/ TakeDiscard(s)
  BY <1>1 DEF LoopEnds, CaptureRaises, TakeSave, TakeDiscard
<1>2. CASE Iterate(s)
  <2>1. place' \in [EpisodeIds -> {"none", "temp", "saved"}]
       /\ files' \in [EpisodeIds -> SUBSET Parts]
    BY <1>2 DEF Iterate, Parts
  <2>2. Captured(rec[s].got) \subseteq {"nothing", "captures", "frames"}
    BY DEF Captured, Recs
  <2>3. PICK got \in {"nothing", "captures", "frames"} :
          rec' = [rec EXCEPT ![s] = [rec[s] EXCEPT !.got = got, !.prepare = FALSE]]
    BY <1>2, <2>2 DEF Iterate
  <2>4. rec' \in [Sessions -> Recs]
    BY <2>3, RecTyped
  <2> QED BY <1>2, <2>1, <2>4 DEF Iterate
<1>3. CASE Write(s)
  BY <1>3 DEF Write, Parts
<1>4. CASE WriteJson(s)
  BY <1>4 DEF WriteJson, Parts
<1>5. CASE Replace(s)
  BY <1>5 DEF Replace
<1>6. CASE SaveFails(s)
  BY <1>6, RecTyped DEF SaveFails, AfterFailure
<1>7. CASE Recount(s)
  BY <1>7, ManifestTyped DEF Recount
<1>8. CASE WriteManifest(s)
  BY <1>8, ManifestTyped DEF WriteManifest
<1>9. CASE RecountFails(s)
  BY <1>9 DEF RecountFails
<1>10. CASE TellSaved(s)
  BY <1>10 DEF TellSaved, Tell
<1>11. CASE Drop(s)
  BY <1>11, ErasedTyped DEF Drop, RemoveTemp, Tell
<1>12. CASE Hook(s)
  <2>1. rec' = rec \/ (session \in Sessions /\ \E b \in BOOLEAN :
                           rec' = [rec EXCEPT ![session] = [@ EXCEPT !.returning = b]])
    BY <1>12 DEF Hook
  <2>2. CASE rec' = rec
    BY <1>12, <2>2 DEF Hook
  <2>3. ASSUME session \in Sessions, NEW b \in BOOLEAN,
               rec' = [rec EXCEPT ![session] = [rec[session] EXCEPT !.returning = b]]
        PROVE  TypeOK'
    <3>1. [rec[session] EXCEPT !.returning = b] \in Recs
      BY <2>3, RecTyped
    <3>2. rec' \in [Sessions -> Recs]
      BY <2>3, <3>1
    <3> QED BY <1>12, <3>2 DEF Hook
  <2> QED BY <2>1, <2>2, <2>3
<1>13. CASE Flip(s)
  BY <1>13, RecTyped DEF Flip
<1>14. CASE Degrade(s)
  BY <1>14, RecTyped DEF Degrade, Tell
<1>15. CASE Shutdown(s)
  BY <1>15, RecTyped DEF Shutdown
<1>16. CASE ShutdownDiscards(s)
  BY <1>16, ErasedTyped DEF ShutdownDiscards, RemoveTemp, Tell
<1>17. CASE Finalize(s)
  BY <1>17, ErasedTyped DEF Finalize, SweepsOwn
<1> QED BY <1>1, <1>2, <1>3, <1>4, <1>5, <1>6, <1>7, <1>8, <1>9, <1>10, <1>11, <1>12, <1>13, <1>14,
           <1>15, <1>16, <1>17 DEF ThreadStep

LEMMA ClientTyped ==
  ASSUME TypeOK, Client \/ Restart
  PROVE  TypeOK'
<1> USE StoreAssumption
        DEF TypeOK, storeVars, diskVars, askedVars, threadVars, managerVars, memVars, historyVars,
            recorderVars, Idle
<1>1. CASE Client /\ \E u \in BOOLEAN : List(u)
  BY <1>1 DEF Client, List, Temps
<1>2. CASE Client /\ \E u \in BOOLEAN : Export(u)
  BY <1>2 DEF Client, Export
<1>3. CASE Client /\ \E i \in EpisodeIds : Delete(i, OpenEpisode)
  BY <1>3 DEF Client, Delete
<1>4. CASE Client /\ SweepFiles
  BY <1>4 DEF Client, SweepFiles, Temps
<1>5. CASE Client /\ SweepDirs
  BY <1>5, ErasedTyped DEF Client, SweepDirs
<1>6. CASE Client /\ DeleteFiles
  BY <1>6 DEF Client, DeleteFiles
<1>7. CASE Client /\ DeleteDir
  BY <1>7, ErasedTyped DEF Client, DeleteDir
<1>8. CASE Client /\ RefreshManifest
  BY <1>8, ManifestTyped DEF Client, RefreshManifest
<1>9. CASE Client /\ ExportScan
  BY <1>9 DEF Client, ExportScan, Whole, Saved
<1>10. CASE Client /\ ExportRead
  BY <1>10 DEF Client, ExportRead
<1>11. CASE Client /\ RecordExport
  BY <1>11 DEF Client, RecordExport, Manifests
<1>12. CASE Restart
  <2>1. NewRec \in Recs /\ NoManifest \in Manifests
    BY ManifestTyped DEF NewRec, Recs
  <2>2. place' \in [EpisodeIds -> {"none", "temp", "saved"}]
       /\ files' \in [EpisodeIds -> SUBSET Parts]
    BY <1>12, ErasedTyped DEF Restart
  <2> QED BY <1>12, <2>1, <2>2 DEF Restart, Fault
<1> QED BY <1>1, <1>2, <1>3, <1>4, <1>5, <1>6, <1>7, <1>8, <1>9, <1>10, <1>11, <1>12
        DEF Client, StoreStep, InUse

(***************************************************************************)
(* What a recorder's own step leaves to the others.                        *)
(***************************************************************************)
Unborn == {"none", "checked", "opened", "built"}

(* Nothing of r that Book or Progress speaks of changes. *)
Kept(r) ==
  /\ pc'[r] = pc[r] /\ buf'[r] = buf[r] /\ (life'[r] \in Unborn <=> life[r] \in Unborn)
  /\ rec'[r].op = rec[r].op /\ rec'[r].state = rec[r].state /\ rec'[r].got = rec[r].got
  /\ rec'[r].prepare = rec[r].prepare /\ rec'[r].was = rec[r].was
  /\ rec'[r].degraded = rec[r].degraded

(* A step of s alone: of the disk and of what was told, only its own episode changes. *)
Own(s) ==
  /\ \A r \in Sessions \ {s} : Kept(r)
  /\ \A i \in EpisodeIds \ {buf[s]} :
       place'[i] = place[i] /\ files'[i] = files[i] /\ told'[i] = told[i]
  /\ UNCHANGED <<rest, deleted, swept>>

(* What it does to that episode. *)
Sound(s) ==
  buf[s] # None =>
    /\ place'[buf[s]] = "temp" => buf[s] \notin deleted /\ buf'[s] = buf[s]
    /\ place'[buf[s]] = "saved" /\ buf[s] \notin swept \union deleted => files'[buf[s]] = Parts
    /\ told'[buf[s]] = "saved" /\ buf[s] \notin deleted => place'[buf[s]] = "saved"
    /\ told'[buf[s]] = "discarded" => place'[buf[s]] # "saved"

LEMMA KeptBook ==
  ASSUME NEW r \in Sessions, Book(r), Kept(r), buf[r] # None => told'[buf[r]] = told[buf[r]]
  PROVE  Book(r)'
BY DEF Book, Kept, Unborn

LEMMA KeptProgress ==
  ASSUME NEW r \in Sessions, Progress(r), Kept(r),
         buf[r] # None => /\ place'[buf[r]] = place[buf[r]] /\ files'[buf[r]] = files[buf[r]]
                          /\ buf[r] \in deleted' <=> buf[r] \in deleted
                          /\ buf[r] \in swept => buf[r] \in swept'
  PROVE  Progress(r)'
BY DEF Progress, Kept

LEMMA BufTyped == ASSUME TypeOK, NEW s \in Sessions PROVE buf[s] # None => buf[s] \in EpisodeIds
BY DEF TypeOK

LEMMA OwnStep ==
  ASSUME RecInv, NEW s \in Sessions, Own(s), Sound(s), TypeOK', Book(s)', Progress(s)',
         buf'[s] \in {buf[s], None}, minted' = minted
  PROVE  RecInv'
<1> USE DEF RecInv
<1>1. \A r \in Sessions \ {s} : buf[r] # None => buf[r] \in EpisodeIds \ {buf[s]}
  BY BufTyped DEF Ids
<1>2. Recorders'
  <2> SUFFICES ASSUME NEW r \in Sessions PROVE Book(r)' /\ Progress(r)'
    BY DEF Recorders
  <2>1. CASE r # s
    BY <1>1, <2>1, KeptBook, KeptProgress DEF Own, Recorders
  <2> QED BY <2>1
<1>3. Ids'
  <2>1. \A r \in Sessions : buf'[r] \in {buf[r], None}
    BY DEF Own, Kept
  <2>2. \A i \in EpisodeIds : i > minted => i # buf[s]
    BY StoreAssumption DEF Ids, TypeOK, EpisodeIds
  <2> QED BY <2>1, <2>2 DEF Ids, Own
<1>4. Clients'
  BY StoreAssumption DEF Clients, Own, Sound, EpisodeIds
<1>5. SavedIsWhole'
  BY StoreAssumption DEF SavedIsWhole, Own, Sound, EpisodeIds
<1>6. TempHasOwner'
  <2> SUFFICES ASSUME NEW i \in EpisodeIds, place'[i] = "temp"
               PROVE  \E r \in Sessions : buf'[r] = i
    BY DEF TempHasOwner, Temps
  <2>1. CASE i = buf[s]
    BY <2>1, StoreAssumption DEF Sound, EpisodeIds
  <2>2. CASE i # buf[s]
    <3>1. PICK r \in Sessions : buf[r] = i
      BY <2>2 DEF TempHasOwner, Temps, Own
    <3> QED BY <2>2, <3>1 DEF Own, Kept
  <2> QED BY <2>1, <2>2
<1> QED BY <1>2, <1>3, <1>4, <1>5, <1>6

(* A step that touches neither the disk nor what was told. *)
LEMMA QuietStep ==
  ASSUME RecInv, NEW s \in Sessions, \A r \in Sessions \ {s} : Kept(r),
         UNCHANGED <<place, files, told, buf, minted, rest, deleted, swept>>,
         TypeOK', Book(s)', Progress(s)'
  PROVE  RecInv'
<1>1. Own(s) /\ buf'[s] \in {buf[s], None}
  BY DEF Own
<1>2. Sound(s)
  BY BufTyped DEF Sound, RecInv, Clients, SavedIsWhole
<1> QED BY <1>1, <1>2, OwnStep

(* A step that touches no recorder either. *)
LEMMA IdleStep ==
  ASSUME RecInv, NEW s \in Sessions, \A r \in Sessions : Kept(r),
         UNCHANGED <<place, files, told, buf, minted, rest, deleted, swept>>, TypeOK'
  PROVE  RecInv'
<1>1. Book(s)' /\ Progress(s)'
  BY KeptBook, KeptProgress DEF RecInv, Recorders
<1> QED BY <1>1, QuietStep

(***************************************************************************)
(* The thread's steps.                                                     *)
(***************************************************************************)
LEMMA TypedFields ==
  ASSUME TypeOK
  PROVE  /\ rec \in [Sessions -> Recs] /\ buf \in [Sessions -> EpisodeIds \union {None}]
         /\ DOMAIN pc = Sessions /\ DOMAIN life = Sessions /\ DOMAIN told = EpisodeIds
         /\ place \in [EpisodeIds -> {"none", "temp", "saved"}]
         /\ files \in [EpisodeIds -> SUBSET Parts]
BY DEF TypeOK

LEMMA QuietThread ==
  ASSUME RecInv, NEW s \in Sessions,
         \/ LoopEnds(s) \/ CaptureRaises(s) \/ TakeSave(s) \/ TakeDiscard(s) \/ SaveFails(s)
         \/ Recount(s) \/ WriteManifest(s) \/ RecountFails(s) \/ Flip(s) \/ Shutdown(s)
  PROVE  RecInv'
<1> USE StoreAssumption, TypedFields
        DEF At, KeepOthers, KeepStore, KeepClients, storeVars, diskVars, askedVars, managerVars,
            memVars, historyVars
<1>1. TypeOK' /\ TypeOK /\ Book(s) /\ Progress(s)
  BY ThreadTyped DEF RecInv, Recorders, ThreadStep
<1>2. UNCHANGED <<life, place, files, told, buf, minted, rest, deleted, swept>>
  BY DEF LoopEnds, CaptureRaises, TakeSave, TakeDiscard, SaveFails, Recount, WriteManifest,
       RecountFails, Flip, Shutdown
<1>3. \A r \in Sessions \ {s} : Kept(r)
  BY <1>1, <1>2 DEF LoopEnds, CaptureRaises, TakeSave, TakeDiscard, SaveFails, Recount,
       WriteManifest, RecountFails, Flip, Shutdown, Kept
<1>4. SUFFICES Book(s)' /\ Progress(s)'
  BY <1>1, <1>2, <1>3, QuietStep
<1> USE <1>1, <1>2 DEF Recs
<1>5. CASE LoopEnds(s)
  <2>1. Book(s)'
    BY <1>5 DEF LoopEnds, Book, Busy
  <2>2. Progress(s)'
    BY <1>5 DEF LoopEnds, Book, Progress, Busy, Published
  <2> QED BY <2>1, <2>2
<1>6. CASE CaptureRaises(s)
  <2>1. Book(s)'
    BY <1>6 DEF CaptureRaises, Book, Busy
  <2>2. Progress(s)'
    BY <1>6 DEF CaptureRaises, Book, Progress, Busy, Published
  <2> QED BY <2>1, <2>2
<1>7. CASE TakeSave(s) \/ TakeDiscard(s)
  <2>1. Book(s)'
    BY <1>7 DEF TakeSave, TakeDiscard, Book, Busy
  <2>2. Progress(s)'
    BY <1>7 DEF TakeSave, TakeDiscard, Book, Progress, Busy, Published
  <2> QED BY <2>1, <2>2
<1>8. CASE SaveFails(s)
  <2>1. Book(s)'
    BY <1>8 DEF SaveFails, AfterFailure, Book, Busy
  <2>2. Progress(s)'
    BY <1>8 DEF SaveFails, AfterFailure, Book, Progress, Busy, Published, Parts
  <2> QED BY <2>1, <2>2
<1>9. CASE Recount(s)
  <2>1. Book(s)'
    BY <1>9 DEF Recount, Book, Busy
  <2>2. Progress(s)'
    BY <1>9 DEF Recount, Book, Progress, Busy, Published
  <2> QED BY <2>1, <2>2
<1>10. CASE WriteManifest(s)
  <2>1. Book(s)'
    BY <1>10 DEF WriteManifest, Book, Busy
  <2>2. Progress(s)'
    BY <1>10 DEF WriteManifest, Book, Progress, Busy, Published
  <2> QED BY <2>1, <2>2
<1>11. CASE RecountFails(s)
  <2>1. Book(s)'
    BY <1>11 DEF RecountFails, Book, Busy
  <2>2. Progress(s)'
    BY <1>11 DEF RecountFails, Book, Progress, Busy, Published
  <2> QED BY <2>1, <2>2
<1>12. CASE Flip(s)
  <2>1. Book(s)'
    BY <1>12 DEF Flip, Book, Busy
  <2>2. Progress(s)'
    BY <1>12 DEF Flip, Book, Progress, Busy, Published
  <2> QED BY <2>1, <2>2
<1>13. CASE Shutdown(s)
  <2>1. Book(s)'
    <3> DEFINE was == rec[s].state # "idle"
    <3>1. rec' = [rec EXCEPT ![s] = [rec[s] EXCEPT !.state = "idle", !.op = None, !.was = was]]
      BY <1>13 DEF Shutdown
    <3>2. rec'[s] = [rec[s] EXCEPT !.state = "idle", !.op = None, !.was = was]
      BY <3>1
    <3>3. was \in BOOLEAN /\ (was => buf[s] # None)
          /\ (buf[s] # None /\ told[buf[s]] # "nothing" => ~ was /\ rec[s].degraded)
      BY <1>13 DEF Shutdown, Book
    <3> HIDE DEF was
    <3>4. /\ rec'[s].state = "idle" /\ rec'[s].op = None /\ rec'[s].was = was
          /\ rec'[s].got = rec[s].got /\ rec'[s].prepare = rec[s].prepare
          /\ rec'[s].degraded = rec[s].degraded
      BY <3>2
    <3>5. pc[s] = "shut" /\ pc'[s] = "discard"
      BY <1>13 DEF Shutdown
    <3> QED BY <3>3, <3>4, <3>5 DEF Book, Busy
  <2>2. Progress(s)'
    BY <1>13 DEF Shutdown, Book, Progress, Busy, Published
  <2> QED BY <2>1, <2>2
<1> QED BY <1>5, <1>6, <1>7, <1>8, <1>9, <1>10, <1>11, <1>12, <1>13

LEMMA OwnThread ==
  ASSUME RecInv, NEW s \in Sessions,
         \/ Iterate(s) \/ Write(s) \/ WriteJson(s) \/ Replace(s) \/ TellSaved(s) \/ Drop(s)
         \/ Degrade(s) \/ ShutdownDiscards(s)
  PROVE  RecInv'
<1> USE StoreAssumption, TypedFields
        DEF At, KeepOthers, KeepStore, storeVars, diskVars, askedVars, managerVars, memVars,
            historyVars
<1>1. TypeOK' /\ TypeOK /\ Book(s) /\ Progress(s) /\ Clients /\ SavedIsWhole
     /\ None \notin EpisodeIds
  BY ThreadTyped DEF RecInv, Recorders, ThreadStep, EpisodeIds
<1>2. UNCHANGED <<life, minted, rest, deleted, swept>> /\ buf'[s] \in {buf[s], None}
      /\ \A r \in Sessions \ {s} : rec'[r] = rec[r] /\ pc'[r] = pc[r] /\ buf'[r] = buf[r]
  BY <1>1 DEF Iterate, Write, WriteJson, Replace, TellSaved, Drop, Degrade, ShutdownDiscards
<1>3. \A i \in EpisodeIds \ {buf[s]} :
        place'[i] = place[i] /\ files'[i] = files[i] /\ told'[i] = told[i]
  BY <1>1, ZenonT(40) DEF Iterate, Write, WriteJson, Replace, TellSaved, Drop, Degrade,
       ShutdownDiscards,
              RemoveTemp, Erased, Tell
<1>4. Own(s)
  BY <1>2, <1>3 DEF Own, Kept
<1>5. SUFFICES Book(s)' /\ Progress(s)' /\ Sound(s)
  BY <1>1, <1>2, <1>4, OwnStep
<1> USE <1>1, <1>2, BufTyped DEF Recs
<1>6. CASE Iterate(s)
  <2>1. pc[s] = "loop" /\ pc'[s] = "loop" /\ rec[s].state = "recording" /\ buf' = buf
       /\ told' = told
    BY <1>6 DEF Iterate
  <2>2. rec[s].op = None /\ buf[s] # None /\ told[buf[s]] = "nothing"
    BY <2>1 DEF Book
  <2>3. PICK got \in Captured(rec[s].got) :
          rec' = [rec EXCEPT ![s] = [rec[s] EXCEPT !.got = got, !.prepare = FALSE]]
    BY <1>6 DEF Iterate
  <2>4. /\ rec'[s].state = "recording" /\ rec'[s].op = None /\ ~ rec'[s].prepare
    BY <2>1, <2>2, <2>3
  <2>5. Book(s)'
    BY <2>1, <2>2, <2>4 DEF Book, Busy
  <2>6. /\ rec[s].prepare => place'[buf[s]] = "temp" /\ files'[buf[s]] = {"video"}
        /\ ~ rec[s].prepare => place' = place /\ files' = files
    <3>1. buf[s] \in EpisodeIds
      BY <2>2
    <3>2. CASE rec[s].prepare
      <4>1. /\ place' = [place EXCEPT ![buf[s]] = "temp"]
            /\ files' = [files EXCEPT ![buf[s]] = {"video"}]
        BY <1>6, <3>2 DEF Iterate
      <4> QED BY <3>1, <3>2, <4>1
    <3>3. CASE ~ rec[s].prepare
      BY <1>6, <3>3 DEF Iterate
    <3> QED BY <3>2, <3>3
  <2>7. Progress(s)'
    BY <2>1, <2>2, <2>4, <2>6 DEF Progress, Published
  <2>8. Sound(s)
    BY <2>1, <2>2, <2>6 DEF Sound, Progress, Published, Clients, SavedIsWhole
  <2> QED BY <2>5, <2>7, <2>8
<1>7. CASE Write(s)
  <2>1. Book(s)'
    BY <1>7 DEF Write, Lost, Book, Busy
  <2>2. Progress(s)'
    BY <1>7 DEF Write, Lost, Book, Progress, Busy, Published, Parts
  <2>3. Sound(s)
    BY <1>7 DEF Write, Lost, Book, Progress, Busy, Published, Parts, Sound, Clients, SavedIsWhole
  <2> QED BY <2>1, <2>2, <2>3
<1>8. CASE WriteJson(s)
  <2>1. Book(s)'
    BY <1>8 DEF WriteJson, Book, Busy
  <2>2. Progress(s)'
    BY <1>8 DEF WriteJson, Book, Progress, Busy, Published, Parts
  <2>3. Sound(s)
    BY <1>8 DEF WriteJson, Book, Progress, Busy, Published, Parts, Sound, Clients, SavedIsWhole
  <2> QED BY <2>1, <2>2, <2>3
<1>9. CASE Replace(s)
  <2>1. Book(s)'
    BY <1>9 DEF Replace, Lost, Book, Busy
  <2>2. Progress(s)'
    BY <1>9 DEF Replace, Lost, Book, Progress, Busy, Published, Parts
  <2>3. Sound(s)
    BY <1>9 DEF Replace, Lost, Book, Progress, Busy, Published, Parts, Sound, Clients, SavedIsWhole
  <2> QED BY <2>1, <2>2, <2>3
<1>10. CASE TellSaved(s)
  <2>1. Book(s)'
    BY <1>10 DEF TellSaved, Tell, Book, Busy
  <2>2. Progress(s)'
    BY <1>10 DEF TellSaved, Tell, Book, Progress, Busy, Published, Parts
  <2>3. Sound(s)
    BY <1>10 DEF TellSaved, Tell, Book, Progress, Busy, Published, Parts, Sound, Clients,
         SavedIsWhole
  <2> QED BY <2>1, <2>2, <2>3
<1>11. CASE Drop(s)
  <2>1. Book(s)'
    BY <1>11 DEF Drop, RemoveTemp, Erased, Tell, Book, Busy
  <2>2. Progress(s)'
    BY <1>11 DEF Drop, RemoveTemp, Erased, Tell, Book, Progress, Busy, Published, Parts
  <2>3. Sound(s)
    BY <1>11 DEF Drop, RemoveTemp, Erased, Tell, Book, Progress, Busy, Published, Parts, Sound,
         Clients, SavedIsWhole
  <2> QED BY <2>1, <2>2, <2>3
<1>12. CASE Degrade(s)
  <2>1. Book(s)'
    BY <1>12 DEF Degrade, Tell, Book, Busy
  <2>2. Progress(s)'
    BY <1>12 DEF Degrade, Tell, Book, Progress, Busy, Published, Parts
  <2>3. Sound(s)
    BY <1>12 DEF Degrade, Tell, Book, Progress, Busy, Published, Parts, Sound, Clients, SavedIsWhole
  <2> QED BY <2>1, <2>2, <2>3
<1>13. CASE ShutdownDiscards(s)
  <2>1. Book(s)'
    BY <1>13 DEF ShutdownDiscards, RemoveTemp, Erased, Tell, Book, Busy
  <2>2. Progress(s)'
    BY <1>13 DEF ShutdownDiscards, RemoveTemp, Erased, Tell, Book, Progress, Busy, Published, Parts
  <2>3. Sound(s)
    BY <1>13 DEF ShutdownDiscards, RemoveTemp, Erased, Tell, Book, Progress, Busy, Published,
         Parts, Sound, Clients, SavedIsWhole
  <2> QED BY <2>1, <2>2, <2>3
<1> QED BY <1>6, <1>7, <1>8, <1>9, <1>10, <1>11, <1>12, <1>13

(* The hook runs in the thread of s and marks the live session returning. *)
LEMMA HookStep ==
  ASSUME RecInv, NEW s \in Sessions, Hook(s)
  PROVE  RecInv'
<1> USE StoreAssumption, TypedFields
        DEF Hook, At, KeepOthers, storeVars, diskVars, askedVars, managerVars, memVars, historyVars
<1>1. TypeOK' /\ TypeOK /\ Book(s) /\ Progress(s)
  BY ThreadTyped DEF RecInv, Recorders, ThreadStep
<1>2. \A r \in Sessions : \/ rec'[r] = rec[r]
                          \/ \E b \in BOOLEAN : rec'[r] = [rec[r] EXCEPT !.returning = b]
  BY <1>1
<1>3. \A r \in Sessions :
        /\ rec'[r].op = rec[r].op /\ rec'[r].state = rec[r].state /\ rec'[r].got = rec[r].got
        /\ rec'[r].prepare = rec[r].prepare /\ rec'[r].was = rec[r].was
        /\ rec'[r].degraded = rec[r].degraded
  BY <1>1, <1>2 DEF Recs
<1>4. \A r \in Sessions \ {s} : Kept(r)
  BY <1>1, <1>3 DEF Kept
<1>5. pc[s] = "hook" /\ pc'[s] = "flip"
  BY <1>1
<1>6. UNCHANGED <<life, place, files, told, buf, minted, rest, deleted, swept>>
  OBVIOUS
<1>7. Book(s)'
  BY <1>1, <1>3, <1>5, <1>6 DEF Book, Busy
<1>8. Progress(s)'
  BY <1>1, <1>3, <1>5, <1>6 DEF Progress, Published
<1> QED BY <1>1, <1>4, <1>6, <1>7, <1>8, QuietStep

(***************************************************************************)
(* Sweeps of every .tmp- directory.                                        *)
(***************************************************************************)
LEMMA SweepKeeps ==
  ASSUME RecInv, SweepsOwn, UNCHANGED <<told, deleted, rest, minted>>
  PROVE  /\ SavedIsWhole' /\ Clients' /\ \A i \in EpisodeIds : place'[i] # "temp"
         /\ \A i \in EpisodeIds : i > minted => place'[i] = "none"
         /\ \A r \in Sessions : Kept(r) => Progress(r)'
<1> USE DEF SweepsOwn, Erased, Temps, RecInv
<1>1. \A i \in EpisodeIds : \/ place[i] = "temp" /\ place'[i] = "none" /\ i \in swept'
                            \/ place[i] # "temp" /\ place'[i] = place[i] /\ files'[i] = files[i]
                               /\ (i \in swept' <=> i \in swept)
  BY TypedFields
<1>2. SavedIsWhole'
  BY <1>1 DEF SavedIsWhole
<1>3. Clients'
  BY <1>1 DEF Clients
<1>4. \A i \in EpisodeIds : place'[i] # "temp" /\ (i > minted => place'[i] = "none")
  BY <1>1 DEF Ids
<1>5. ASSUME NEW r \in Sessions, Kept(r)
      PROVE  Progress(r)'
  BY <1>1, <1>5, BufTyped DEF Progress, Kept, Recorders
<1> QED BY <1>2, <1>3, <1>4, <1>5

LEMMA OpenStep ==
  ASSUME RecInv, NEW s \in Sessions, Open(s)
  PROVE  RecInv'
<1> USE DEF Open, KeepClients, storeVars, diskVars, askedVars, threadVars, managerVars, memVars,
            historyVars
<1>1. TypeOK' /\ TypeOK
  BY ManagerTyped DEF RecInv, ManagerStep
<1>2. UNCHANGED <<told, buf, rec, pc, minted, rest, deleted>>
  OBVIOUS
<1>3. \A r \in Sessions : Kept(r)
  BY <1>1, TypedFields DEF Kept, Unborn
<1>4. CASE UNCHANGED <<place, files, swept>>
  BY <1>1, <1>2, <1>3, <1>4, IdleStep
<1>5. CASE SweepsOwn
  <2>1. Recorders'
    BY <1>2, <1>3, <1>5, SweepKeeps, KeptBook DEF Recorders, RecInv
  <2>2. Ids' /\ TempHasOwner'
    BY <1>2, <1>5, SweepKeeps DEF Ids, TempHasOwner, Temps, RecInv
  <2> QED BY <1>1, <1>2, <1>5, <2>1, <2>2, SweepKeeps DEF RecInv
<1> QED BY <1>4, <1>5

LEMMA FinalizeStep ==
  ASSUME RecInv, NEW s \in Sessions, Finalize(s)
  PROVE  RecInv'
<1> USE TypedFields
        DEF Finalize, At, KeepClients, KeepOthers, askedVars, managerVars, memVars, historyVars
<1>1. TypeOK' /\ TypeOK
  BY ThreadTyped DEF RecInv, ThreadStep
<1>2. UNCHANGED <<told, rec, life, minted, rest, deleted>> /\ SweepsOwn
  OBVIOUS
<1>3. \A r \in Sessions \ {s} : Kept(r)
  BY <1>1 DEF Kept
<1>4. buf'[s] = None /\ pc[s] = "finalize" /\ pc'[s] = "dead"
  BY <1>1
<1>5. Book(s)' /\ Progress(s)'
  BY <1>2, <1>4, <1>1 DEF Book, Progress, RecInv, Recorders, Busy
<1>6. Recorders'
  BY <1>2, <1>3, <1>5, SweepKeeps, KeptBook DEF Recorders, RecInv
<1>7. Ids' /\ TempHasOwner'
  <2>1. \A r \in Sessions : buf'[r] \in {buf[r], None}
    BY <1>3, <1>4 DEF Kept
  <2> QED BY <1>2, <2>1, SweepKeeps DEF Ids, TempHasOwner, Temps, RecInv
<1> QED BY <1>1, <1>2, <1>6, <1>7, SweepKeeps DEF RecInv

(***************************************************************************)
(* The control loop's requests and the manager.                            *)
(***************************************************************************)
LEMMA RequestNewStep ==
  ASSUME RecInv, NEW s \in Sessions, RequestNew(s)
  PROVE  RecInv'
<1> USE StoreAssumption, TypedFields
        DEF RequestNew, Asks, storeVars, diskVars, askedVars, managerVars, memVars, RecInv
<1>1. TypeOK' /\ TypeOK
  BY LoopTyped DEF Request
<1>2. /\ buf[s] = None /\ buf'[s] = minted + 1 /\ minted' = minted + 1 /\ minted + 1 \in EpisodeIds
      /\ UNCHANGED <<place, files, told, rest, deleted, swept, pc, life>>
      /\ \A r \in Sessions \ {s} : buf'[r] = buf[r] /\ rec'[r] = rec[r]
  BY <1>1 DEF EpisodeIds, TypeOK
<1>3. /\ rec'[s].state = "recording" /\ rec'[s].op = None /\ rec'[s].got = "nothing"
      /\ rec'[s].prepare = TRUE /\ rec[s].state = "idle" /\ rec'[s].was = rec[s].was
  BY <1>1 DEF Recs
<1>4. pc[s] # "dead" /\ life[s] \in {"on", "stopping"}
  OBVIOUS
<1>5. Book(s)'
  BY <1>2, <1>3, <1>4, <1>1 DEF Recorders, Book, Busy, Ids, TypeOK, EpisodeIds
<1>6. Progress(s)'
  <2>1. pc[s] \notin Busy
    BY <1>2 DEF Recorders, Book
  <2>2. place[minted + 1] = "none" /\ minted + 1 \notin deleted
    BY <1>1, <1>2 DEF Ids, TypeOK
  <2> QED BY <1>2, <1>3, <2>1, <2>2 DEF Progress, Busy, Published
<1>7. Recorders'
  BY <1>2, <1>5, <1>6, KeptBook, KeptProgress DEF Recorders, Kept
<1>8. Ids'
  BY <1>2, <1>1 DEF Ids, TypeOK, EpisodeIds
<1>9. Clients' /\ SavedIsWhole'
  BY <1>2 DEF Clients, SavedIsWhole
<1>10. TempHasOwner'
  BY <1>2 DEF TempHasOwner, Temps, EpisodeIds
<1> QED BY <1>1, <1>7, <1>8, <1>9, <1>10

LEMMA RequestStep ==
  ASSUME RecInv, NEW s \in Sessions, RequestSave(s) \/ RequestDiscard(s)
  PROVE  RecInv'
<1> USE StoreAssumption, TypedFields
        DEF Asks, storeVars, diskVars, askedVars, managerVars, memVars
<1>1. TypeOK' /\ TypeOK /\ Book(s) /\ Progress(s)
  BY LoopTyped DEF RecInv, Recorders, Request
<1>2. UNCHANGED <<pc, life, place, files, told, buf, minted, rest, deleted, swept>>
  BY DEF RequestSave, RequestDiscard
<1>3. \A r \in Sessions \ {s} : Kept(r)
  BY <1>1, <1>2 DEF RequestSave, RequestDiscard, Kept
<1>4. PICK op \in {"save", "discard"} :
        /\ rec' = [rec EXCEPT ![s] = [rec[s] EXCEPT !.state = "saving", !.op = op]]
        /\ op = "save" => rec[s].got \in {"captures", "frames"}
  BY DEF RequestSave, RequestDiscard
<1>5. /\ rec'[s].state = "saving" /\ rec'[s].op = op /\ rec'[s].got = rec[s].got
      /\ rec'[s].prepare = rec[s].prepare /\ rec'[s].was = rec[s].was
  BY <1>1, <1>4 DEF Recs
<1>6. rec[s].state = "recording" /\ ~ rec[s].degraded /\ rec[s].op = None
  BY DEF RequestSave, RequestDiscard
<1>7. Book(s)'
  BY <1>1, <1>2, <1>4, <1>5, <1>6 DEF Book, Busy
<1>8. Progress(s)'
  BY <1>1, <1>2, <1>5, <1>6 DEF Progress
<1> QED BY <1>1, <1>2, <1>3, <1>7, <1>8, QuietStep

LEMMA ManagerIdles ==
  ASSUME RecInv, NEW s \in Sessions,
         \/ Check(s) \/ Stop(s) \/ StopTimesOut(s) \/ ReturnEnds(s) \/ WriteOpened(s) \/ Publish(s)
         \/ ReadCounters(s) \/ PutCounters(s)
  PROVE  RecInv'
<1> USE TypedFields
        DEF storeVars, diskVars, askedVars, threadVars, managerVars, memVars, historyVars
<1>1. TypeOK' /\ TypeOK /\ Book(s)
  BY ManagerTyped, LoopTyped DEF RecInv, Recorders, ManagerStep
<1>2. UNCHANGED <<place, files, told, buf, minted, rest, deleted, swept>>
  BY DEF Check, Stop, StopTimesOut, Ended, ReturnEnds, WriteOpened, Publish, ReadCounters,
         PutCounters
<1>3. \A r \in Sessions : Kept(r)
  BY <1>1 DEF Check, Stop, StopTimesOut, Ended, ReturnEnds, WriteOpened, Publish, ReadCounters,
              PutCounters, Kept, Unborn, Recs
<1> QED BY <1>1, <1>2, <1>3, IdleStep

LEMMA StartReturns ==
  ASSUME RecInv, NEW s \in Sessions, Start(s) \/ StopReturns(s)
  PROVE  RecInv'
<1> USE StoreAssumption, TypedFields
        DEF storeVars, diskVars, askedVars, threadVars, managerVars, memVars, historyVars
<1>1. TypeOK' /\ TypeOK /\ Book(s) /\ Progress(s)
  BY ManagerTyped DEF RecInv, Recorders, ManagerStep
<1>2. UNCHANGED <<place, files, told, buf, minted, rest, deleted, swept>>
  BY DEF Start, StopReturns, Ended
<1>3. \A r \in Sessions \ {s} : Kept(r)
  BY <1>1 DEF Start, StopReturns, Ended, Kept
<1>4. CASE Start(s)
  <2>1. Book(s)' /\ Progress(s)'
    BY <1>1, <1>2, <1>4 DEF Start, Book, Progress, Busy
  <2> QED BY <1>1, <1>2, <1>3, <2>1, QuietStep
<1>5. CASE StopReturns(s)
  <2>1. Book(s)' /\ Progress(s)'
    BY <1>1, <1>2, <1>5 DEF StopReturns, Ended, NewRec, Book, Progress, Busy
  <2> QED BY <1>1, <1>2, <1>3, <2>1, QuietStep
<1> QED BY <1>4, <1>5

LEMMA RestartStep ==
  ASSUME RecInv, Restart
  PROVE  RecInv'
<1> USE StoreAssumption, TypedFields DEF Restart, askedVars, historyVars, RecInv
<1>1. TypeOK' /\ TypeOK
  BY ClientTyped
<1>2. \A s \in Sessions : Book(s)' /\ Progress(s)'
  BY <1>1 DEF Book, Progress, NewRec, Busy
<1>3. \A i \in EpisodeIds : \/ place[i] = "temp" /\ place'[i] = "none"
                            \/ place[i] # "temp" /\ place'[i] = place[i] /\ files'[i] = files[i]
  BY <1>1 DEF Erased, Temps
<1>4. Ids'
  BY <1>1, <1>3 DEF Ids
<1>5. Clients' /\ SavedIsWhole' /\ TempHasOwner'
  BY <1>1, <1>3 DEF Clients, SavedIsWhole, TempHasOwner, Temps, Idle
<1> QED BY <1>1, <1>2, <1>4, <1>5 DEF Recorders

(***************************************************************************)
(* The clients: who removes a directory removes it from the disk only.     *)
(***************************************************************************)
LEMMA ClientStep ==
  ASSUME RecInv, Client
  PROVE  RecInv'
<1> USE StoreAssumption, TypedFields
        DEF RecInv, recorderVars, managerVars, threadVars, memVars, historyVars, askedVars, diskVars
<1>1. TypeOK' /\ TypeOK
  BY ClientTyped
<1>2. UNCHANGED <<managerVars, threadVars, historyVars>>
  BY DEF Client
<1>3. \A r \in Sessions : Kept(r)
  BY <1>2 DEF Kept
<1>4. \A r \in Sessions : Book(r)'
  BY <1>2, <1>3, KeptBook DEF Recorders
<1>5. SUFFICES Clients' /\ SavedIsWhole' /\ (\A i \in EpisodeIds : place'[i] \in {place[i], "none"})
               /\ \A r \in Sessions : Progress(r)'
  <2>1. (\A i \in EpisodeIds : i > minted => i \notin deleted') => Ids'
    BY <1>2, <1>5 DEF Ids
  <2>2. \A i \in EpisodeIds : i > minted => i \notin deleted'
    BY DEF Ids, Client, List, Export, Delete, StoreStep, SweepFiles, SweepDirs, DeleteFiles,
           DeleteDir, RefreshManifest, ExportScan, ExportRead, RecordExport
  <2>3. TempHasOwner'
    BY <1>2, <1>5 DEF TempHasOwner, Temps
  <2> QED BY <1>1, <1>4, <1>5, <2>1, <2>2, <2>3 DEF Recorders
<1>6. CASE SweepFiles
  <2>1. \A i \in EpisodeIds : \/ place[i] = "temp" /\ i \in swept'
                              \/ place[i] # "temp" /\ files'[i] = files[i]
                              \/ files'[i] = files[i]
    BY <1>6 DEF SweepFiles, Temps
  <2>2. UNCHANGED <<place, deleted>> /\ rest'.at = "rmdir" /\ rest'.ids \subseteq swept'
        /\ swept \subseteq swept'
    BY <1>6 DEF SweepFiles
  <2>3. Clients' /\ SavedIsWhole'
    BY <1>2, <2>1, <2>2 DEF Clients, SavedIsWhole
  <2>4. \A r \in Sessions : Progress(r)'
    BY <1>2, <2>1, <2>2, BufTyped DEF Progress, Recorders
  <2> QED BY <2>2, <2>3, <2>4
<1>7. CASE SweepDirs \/ DeleteDir
  <2>1. \A i \in EpisodeIds :
          \/ place'[i] = place[i] /\ files'[i] = files[i]
          \/ /\ place'[i] = "none"
             /\ (i \in swept /\ place[i] = "temp") \/ i \in deleted
    BY <1>7 DEF SweepDirs, DeleteDir, Erased, Clients, Temps
  <2>2. UNCHANGED <<deleted, swept>> /\ rest'.at \in {"idle", "refresh"}
    BY <1>7 DEF SweepDirs, DeleteDir, Idle, TypeOK
  <2>3. Clients' /\ SavedIsWhole'
    BY <1>2, <2>1, <2>2 DEF Clients, SavedIsWhole
  <2>4. \A r \in Sessions : Progress(r)'
    BY <1>2, <2>1, <2>2, BufTyped DEF Progress, Recorders, Published
  <2> QED BY <2>1, <2>3, <2>4
<1>8. CASE DeleteFiles
  <2>1. \A i \in EpisodeIds : i \in deleted \/ files'[i] = files[i]
    BY <1>8 DEF DeleteFiles, Clients
  <2>2. UNCHANGED <<place, deleted, swept>> /\ rest'.at = "rmtree" /\ rest'.ids = rest.ids
    BY <1>8 DEF DeleteFiles, TypeOK
  <2>3. Clients' /\ SavedIsWhole'
    BY <1>2, <1>8, <2>1, <2>2 DEF Clients, SavedIsWhole, DeleteFiles
  <2>4. \A r \in Sessions : Progress(r)'
    BY <1>2, <2>1, <2>2, BufTyped, ZenonT(40) DEF Progress, Recorders, Clients
  <2> QED BY <2>2, <2>3, <2>4
<1>9. ASSUME NEW i \in EpisodeIds, NEW open, Delete(i, open)
      PROVE  /\ Clients' /\ SavedIsWhole' /\ UNCHANGED place
             /\ \A r \in Sessions : Progress(r)'
  <2>1. /\ place[i] = "saved" /\ deleted' = deleted \union {i} /\ UNCHANGED <<place, files, swept>>
        /\ rest'.at = "delete" /\ rest'.ids = {i}
    BY <1>9 DEF Delete
  <2>2. Clients' /\ SavedIsWhole'
    BY <1>2, <2>1 DEF Clients, SavedIsWhole
  <2>3. \A r \in Sessions : Progress(r)'
    BY <1>2, <2>1, BufTyped DEF Progress, Recorders, Published
  <2> QED BY <2>1, <2>2, <2>3
<1>10. CASE \/ /\ UNCHANGED <<place, files, deleted, swept>>
               /\ rest'.at \notin {"rmdir", "delete", "rmtree"}
            \/ UNCHANGED <<place, files, deleted, swept, rest>>
  <2>1. Clients' /\ SavedIsWhole'
    BY <1>2, <1>10 DEF Clients, SavedIsWhole
  <2>2. \A r \in Sessions : Progress(r)'
    BY <1>2, <1>10 DEF Progress, Recorders
  <2> QED BY <1>10, <2>1, <2>2
<1>11. CASE List(InUse) \/ RefreshManifest
  BY <1>10, <1>11 DEF List, RefreshManifest, Idle
<1>12. CASE Export(InUse) \/ ExportScan \/ ExportRead \/ RecordExport
  BY <1>10, <1>12 DEF Export, ExportScan, ExportRead, RecordExport
<1> QED BY <1>6, <1>7, <1>8, <1>9, <1>11, <1>12 DEF Client, StoreStep

(***************************************************************************)
(* The system.                                                             *)
(***************************************************************************)
LEMMA RecorderStep == RecInv /\ [RecorderNext]_vars => RecInv'
<1> SUFFICES ASSUME RecInv, [RecorderNext]_vars
             PROVE  RecInv'
  OBVIOUS
<1>1. ASSUME NEW s \in Sessions, ThreadStep(s) \/ CaptureRaises(s)
      PROVE  RecInv'
  BY <1>1, QuietThread, OwnThread, HookStep, FinalizeStep DEF ThreadStep
<1>2. ASSUME NEW s \in Sessions, Request(s) \/ ReadCounters(s) \/ PutCounters(s)
      PROVE  RecInv'
  BY <1>2, RequestNewStep, RequestStep, ManagerIdles DEF Request
<1>3. ASSUME NEW s \in Sessions,
             Check(s) \/ Stop(s) \/ StopTimesOut(s) \/ ReturnEnds(s) \/ ManagerStep(s)
      PROVE  RecInv'
  BY <1>3, ManagerIdles, OpenStep, StartReturns DEF ManagerStep
<1>4. CASE UNCHANGED vars
  <2>1. TypeOK'
    BY <1>4 DEF RecInv, TypeOK, vars, storeVars, diskVars, askedVars, recorderVars, managerVars,
                threadVars, memVars, historyVars
  <2>2. Recorders'
    BY <1>4 DEF RecInv, Recorders, Book, Progress, vars, storeVars, diskVars, askedVars,
         recorderVars,
                managerVars, threadVars, historyVars
  <2>3. Ids' /\ Clients' /\ SavedIsWhole' /\ TempHasOwner'
    BY <1>4 DEF RecInv, Ids, Clients, SavedIsWhole, TempHasOwner, Temps, vars, storeVars, diskVars,
                askedVars, recorderVars, threadVars, historyVars
  <2> QED BY <2>1, <2>2, <2>3 DEF RecInv
<1> QED BY <1>1, <1>2, <1>3, <1>4, ClientStep, RestartStep DEF RecorderNext

(* Recorder, dataset and manager never leave their types.                  *)
THEOREM RecorderTypes == RecorderSpec => []TypeOK
<1>1. RecInv => TypeOK
  BY DEF RecInv
<1> QED BY <1>1, RecorderStart, RecorderStep, PTL DEF RecorderSpec

(* An episode's directory has its name only with everything in it, and     *)
(* what was announced of an episode is so, whatever fails, is stopped,     *)
(* swept or restarted in between.                                          *)
THEOREM SavedEpisodesAreWhole == RecorderSpec => []SavedIsWhole
<1>1. RecInv => SavedIsWhole
  BY DEF RecInv
<1> QED BY <1>1, RecorderStart, RecorderStep, PTL DEF RecorderSpec

(* No temporary directory outlives the recorder that has it open.          *)
THEOREM TempsHaveOwners == RecorderSpec => []TempHasOwner
<1>1. RecInv => TempHasOwner
  BY DEF RecInv
<1> QED BY <1>1, RecorderStart, RecorderStep, PTL DEF RecorderSpec

(* The episode hooks hear of an episode once: whoever tells them holds an  *)
(* episode nothing was said of yet.                                        *)
THEOREM EpisodesToldOnce == RecorderSpec => ToldOnce
<1> DEFINE Kind == \A i \in EpisodeIds : told[i] # "nothing" => told'[i] = told[i]
<1>1. RecInv /\ [RecorderNext]_vars => [Kind]_told
  <2> SUFFICES ASSUME RecInv, RecorderNext, told' # told
               PROVE  Kind
    BY DEF vars, recorderVars, historyVars
  <2>1. PICK s \in Sessions :
          \/ TellSaved(s) \/ Drop(s) \/ Degrade(s)
          \/ ShutdownDiscards(s) /\ rec[s].was
    BY ZenonT(40) DEF RecorderNext, Client, Restart, Check, Stop, StopTimesOut, ReturnEnds,
         ManagerStep, Open,
           WriteOpened, Start, Publish, StopReturns, Ended, Request, RequestNew, RequestSave,
           RequestDiscard, Asks, ReadCounters, PutCounters, CaptureRaises, ThreadStep, LoopEnds,
           Iterate, TakeSave, TakeDiscard, Write, WriteJson, Replace, SaveFails, Recount,
           WriteManifest, RecountFails, Hook, Flip, Shutdown, ShutdownDiscards, Finalize,
                KeepOthers,
           recorderVars, historyVars
  <2>2. /\ \E what : Tell(buf[s], what)
        /\ pc[s] \in Busy \/ (pc[s] = "discard" /\ rec[s].was)
    BY <2>1 DEF TellSaved, Drop, Degrade, ShutdownDiscards, At, Busy
  <2>3. buf[s] # None /\ told[buf[s]] = "nothing"
    BY <2>2 DEF RecInv, Recorders, Book, Busy
  <2> QED BY <2>2, <2>3, TypedFields DEF Tell, RecInv
<1> QED BY <1>1, RecorderStart, RecorderStep, PTL DEF RecorderSpec, ToldOnce

(***************************************************************************)
(* What the code computes in loops over a column or over the frames is a   *)
(* recursive function here; that such a function has a value, and what     *)
(* that value is, goes by induction, which is had from the well-foundedness *)
(* of the naturals for a set instead of a predicate.                       *)
(***************************************************************************)
LEMMA NatSetInduction ==
  ASSUME NEW S, 0 \in S, \A n \in Nat : n \in S => n + 1 \in S
  PROVE  Nat \subseteq S
<1> DEFINE T == Nat \ S
           R == OpToRel(<, Nat)
<1>1. SUFFICES ASSUME T # {} PROVE FALSE
  BY Zenon
<1>2. IsWellFoundedOn(R, Nat)
  BY NatLessThanWellFounded, Zenon
<1>3. PICK x \in T : \A y \in T : ~ (<<y, x>> \in R)
  <2>1. T \subseteq Nat
    OBVIOUS
  <2> HIDE DEF T, R
  <2> QED
    BY <1>1, <1>2, <2>1, WFMin, Zenon
<1>4. x \in Nat /\ x # 0
  OBVIOUS
<1>5. x - 1 \in Nat /\ (x - 1) + 1 = x /\ x - 1 < x
  BY <1>4
<1>6. x - 1 \in T
  BY <1>5
<1>7. <<x - 1, x>> \in R
  BY <1>4, <1>5, Zenon DEF OpToRel
<1> QED
  BY <1>3, <1>6, <1>7

(* A loop has a run: from x0, each pass G of the one before. *)
HasRun(N, X, x0, G) ==
  \E f \in [0..N -> X] : f[0] = x0 /\ \A k \in 1..N : f[k] = G[<<k, f[k - 1]>>]

LEMMA LoopRuns ==
  ASSUME NEW N \in Nat, NEW X, NEW x0 \in X, NEW G \in [(1..N) \X X -> X]
  PROVE  HasRun(N, X, x0, G)
<1> DEFINE Run(f, n) == f[0] = x0 /\ \A k \in 1..n : f[k] = G[<<k, f[k - 1]>>]
           S == {n \in Nat : n <= N => \E f \in [0..n -> X] : Run(f, n)}
<1>1. 0 \in S
  <2>1. [k \in 0..0 |-> x0] \in [0..0 -> X]
    OBVIOUS
  <2>2. Run([k \in 0..0 |-> x0], 0)
    OBVIOUS
  <2> QED
    BY <2>1, <2>2
<1>2. ASSUME NEW n \in Nat, n \in S
      PROVE  n + 1 \in S
  <2> SUFFICES ASSUME n + 1 <= N
               PROVE  \E g \in [0..n + 1 -> X] : Run(g, n + 1)
    OBVIOUS
  <2>1. PICK f \in [0..n -> X] : Run(f, n)
    BY <1>2
  <2>2. n \in 0..n /\ n + 1 \in 1..N
    OBVIOUS
  <2>3. G[<<n + 1, f[n]>>] \in X
    BY <2>1, <2>2
  <2> DEFINE g == [k \in 0..n + 1 |-> IF k \in 0..n THEN f[k] ELSE G[<<n + 1, f[n]>>]]
  <2>4. g \in [0..n + 1 -> X]
    BY <2>1, <2>3
  <2>5. g[0] = x0
    BY <2>1
  <2>6. ASSUME NEW k \in 1..n + 1
        PROVE  g[k] = G[<<k, g[k - 1]>>]
    <3>1. CASE k \in 1..n
      <4>1. k - 1 \in 0..n /\ k \in 0..n
        BY <3>1
      <4>2. g[k] = f[k] /\ g[k - 1] = f[k - 1]
        BY <4>1
      <4> QED
        BY <2>1, <3>1, <4>2, Zenon
    <3>2. CASE k = n + 1
      <4>1. k - 1 = n /\ ~(k \in 0..n) /\ k \in 0..n + 1 /\ n \in 0..n + 1
        BY <3>2
      <4>2. g[k] = G[<<n + 1, f[n]>>] /\ g[k - 1] = f[n]
        BY <2>2, <4>1
      <4> QED
        BY <3>2, <4>2
    <3> QED
      BY <3>1, <3>2
  <2> QED
    BY <2>4, <2>5, <2>6
<1>3. N \in S
  <2> HIDE DEF S
  <2> QED
    BY <1>1, <1>2, NatSetInduction
<1> QED
  BY <1>3 DEF HasRun

(***************************************************************************)
(* The columns of an episode.                                              *)
(***************************************************************************)
ActionNames == (Crew \X ActionDims) \cup {Foreign}
StateNames  == (Crew \X StateDims) \cup {Foreign}

(* An arm's columns. *)
LEMMA LayoutIs ==
  ASSUME NEW a \in Crew, NEW railed \in BOOLEAN
  PROVE  /\ arm_action_names(a, railed) \in Seq(ActionNames)
         /\ Len(arm_action_names(a, railed)) = (IF railed THEN 3 ELSE 2)
         /\ arm_action_names(a, railed)[1] = <<a, "x">>
         /\ arm_action_names(a, railed)[2] = <<a, "y">>
         /\ railed => arm_action_names(a, railed)[3] = <<a, "rail">>
<1>1. <<a, "x">> \in ActionNames /\ <<a, "y">> \in ActionNames /\ <<a, "rail">> \in ActionNames
  BY DEF ActionNames, ActionDims
<1>2. \A p, q, r \in ActionNames :
        /\ <<p, q>> \in Seq(ActionNames) /\ Len(<<p, q>>) = 2
        /\ <<p, q>>[1] = p /\ <<p, q>>[2] = q
        /\ <<r>> \in Seq(ActionNames) /\ Len(<<r>>) = 1 /\ <<r>>[1] = r
  OBVIOUS
<1> DEFINE p == <<a, "x">>
           q == <<a, "y">>
           r == <<a, "rail">>
<1>3. arm_action_names(a, railed) = <<p, q>> \o (IF railed THEN <<r>> ELSE <<>>)
  BY DEF arm_action_names
<1> HIDE DEF p, q, r
<1>4. CASE railed
  <2>1. arm_action_names(a, railed) = <<p, q>> \o <<r>>
    BY <1>3, <1>4
  <2> DEFINE w == <<p, q>> \o <<r>>
  <2>2. /\ w \in Seq(ActionNames) /\ Len(w) = Len(<<p, q>>) + Len(<<r>>)
        /\ \A i \in 1..(Len(<<p, q>>) + Len(<<r>>)) :
             w[i] = IF i <= Len(<<p, q>>) THEN <<p, q>>[i] ELSE <<r>>[i - Len(<<p, q>>)]
    BY <1>1, <1>2, ConcatProperties DEF p, q, r
  <2> HIDE DEF w
  <2>3. Len(w) = 3 /\ w[1] = p /\ w[2] = q /\ w[3] = r
    BY <1>1, <1>2, <2>2 DEF p, q, r
  <2> QED BY <1>4, <2>1, <2>2, <2>3 DEF p, q, r, w
<1>5. CASE ~railed
  <2>1. arm_action_names(a, railed) = <<p, q>>
    BY <1>1, <1>2, <1>3, <1>5, ConcatEmptySeq DEF p, q
  <2> QED BY <1>1, <1>2, <1>5, <2>1 DEF p, q
<1> QED BY <1>4, <1>5

(* A session: its arms in order, each once. *)
LEMMA LayoutsAre ==
  ASSUME NEW s \in Layouts
  PROVE  /\ s \in Seq(Crew \X BOOLEAN) /\ Len(s) \in Nat \ {0} /\ Len(s) <= Cardinality(Crew)
         /\ DOMAIN s = 1..Len(s)
         /\ \A i, j \in 1..Len(s) : s[i][1] = s[j][1] => i = j
<1>1. Cardinality(Crew) \in Nat
  BY ColumnsAssumption, FS_CardinalityType
<1>2. PICK n \in 1..Cardinality(Crew) : s \in [1..n -> Crew \X BOOLEAN]
  BY DEF Layouts
<1>3. s \in Seq(Crew \X BOOLEAN) /\ Len(s) = n /\ DOMAIN s = 1..n
  BY <1>1, <1>2
<1> QED BY <1>1, <1>2, <1>3 DEF Layouts

(* The same for an entry of a session, and whose they are. *)
LEMMA LayoutOfIs ==
  ASSUME NEW meta \in Crew \X BOOLEAN
  PROVE  /\ LayoutOf(meta) \in Seq(ActionNames) /\ Len(LayoutOf(meta)) = Width(meta)
         /\ Width(meta) \in {2, 3} /\ Width(meta) = (IF meta[2] THEN 3 ELSE 2)
         /\ LayoutOf(meta)[1] = <<meta[1], "x">> /\ LayoutOf(meta)[2] = <<meta[1], "y">>
         /\ meta[2] => LayoutOf(meta)[3] = <<meta[1], "rail">>
         /\ \A j \in 1..Width(meta) : LayoutOf(meta)[j][1] = meta[1]
<1>1. meta[1] \in Crew /\ meta[2] \in BOOLEAN
  OBVIOUS
<1> DEFINE w == arm_action_names(meta[1], meta[2])
<1>2. /\ w \in Seq(ActionNames) /\ Len(w) = (IF meta[2] THEN 3 ELSE 2)
      /\ w[1] = <<meta[1], "x">> /\ w[2] = <<meta[1], "y">> 
      /\ meta[2] => w[3] = <<meta[1], "rail">>
  BY <1>1, LayoutIs
<1>3. LayoutOf(meta) = w /\ Width(meta) = Len(w)
  BY DEF LayoutOf, Width
<1> HIDE DEF w
<1>4. Len(w) \in {2, 3}
  BY <1>2
<1>5. ASSUME NEW j \in 1..Len(w) PROVE w[j][1] = meta[1]
  <2>1. j = 1 \/ j = 2 \/ (j = 3 /\ meta[2])
    BY <1>2
  <2> QED BY <1>2, <2>1
<1> QED BY <1>2, <1>3, <1>4, <1>5

(* The loops over a session: its columns so far, and where an arm's end. *)
LaidPass(lineup) ==
  [p \in (1..Len(lineup)) \X Seq(ActionNames) |-> p[2] \o LayoutOf(lineup[p[1]])]
AfterPass(lineup) == [p \in (1..Len(lineup)) \X Nat |-> p[2] + Width(lineup[p[1]])]

Lays(f, lineup) ==
  /\ f[0] = <<>> /\ Laid(lineup) = f[Len(lineup)]
  /\ \A k \in 1..Len(lineup) : f[k] = f[k - 1] \o LayoutOf(lineup[k])
Ends(g, lineup) ==
  /\ g[0] = 0
  /\ \A k \in 1..Len(lineup) : g[k] = g[k - 1] + Width(lineup[k])
  /\ \A row : \A i \in 1..Len(lineup) :
       split_action(row, lineup, i) = SubSeq(row, g[i - 1] + 1, g[i])

(* Laid is the end of a run of its loop. *)
LEMMA LaidLoop ==
  ASSUME NEW lineup \in Seq(Crew \X BOOLEAN)
  PROVE  \E f : Lays(f, lineup)
<1> DEFINE N == Len(lineup)
           X == Seq(ActionNames)
           Body(f) == [k \in 0..N |-> IF k = 0 THEN <<>> ELSE f[k - 1] \o LayoutOf(lineup[k])]
           upto == CHOOSE f : f = Body(f)
<1>1. N \in Nat /\ \A k \in 1..N : lineup[k] \in Crew \X BOOLEAN
  OBVIOUS
<1>2. LaidPass(lineup) \in [(1..N) \X X -> X]
  <2>1. ASSUME NEW p \in (1..N) \X X
        PROVE  p[2] \o LayoutOf(lineup[p[1]]) \in X
    <3>1. p[2] \in X /\ LayoutOf(lineup[p[1]]) \in X
      BY <1>1, LayoutOfIs
    <3> QED BY <3>1, ConcatProperties
  <2> QED BY <2>1 DEF LaidPass
<1>3. PICK f \in [0..N -> X] :
        f[0] = <<>> /\ \A k \in 1..N : f[k] = LaidPass(lineup)[<<k, f[k - 1]>>]
  <2>1. <<>> \in X
    OBVIOUS
  <2>2. HasRun(N, X, <<>>, LaidPass(lineup))
    BY <1>1, <1>2, <2>1, LoopRuns
  <2> QED
    BY <2>2, Zenon DEF HasRun
<1>4. ASSUME NEW k \in 1..N
      PROVE  f[k] = f[k - 1] \o LayoutOf(lineup[k])
  <2>1. k - 1 \in 0..N
    BY <1>1
  <2> QED
    BY <1>3, <2>1 DEF LaidPass
<1>5. f = Body(f)
  <2>1. \A k \in 0..N : k = 0 \/ k \in 1..N
    BY <1>1
  <2>2. \A k \in 0..N : f[k] = IF k = 0 THEN <<>> ELSE f[k - 1] \o LayoutOf(lineup[k])
    BY <1>3, <1>4, <2>1, Zenon
  <2> QED BY <1>3, <2>2
<1>6. upto = Body(upto)
  BY <1>5, Zenon
<1>7. Laid(lineup) = upto[N]
  BY DEF Laid
<1>8. upto[0] = <<>> /\ \A k \in 1..N : upto[k] = upto[k - 1] \o LayoutOf(lineup[k])
  <2> HIDE DEF upto
  <2>1. 0 \in 0..N /\ \A k \in 1..N : k \in 0..N /\ k # 0
    BY <1>1
  <2> QED
    BY <1>6, <2>1, Zenon
<1> QED
  <2> HIDE DEF upto
  <2> QED BY <1>7, <1>8 DEF Lays

(* So is the place split_action cuts at. *)
LEMMA EndsLoop ==
  ASSUME NEW lineup \in Seq(Crew \X BOOLEAN)
  PROVE  \E g : Ends(g, lineup)
<1> DEFINE N == Len(lineup)
           Body(f) == [k \in 0..N |-> IF k = 0 THEN 0 ELSE f[k - 1] + Width(lineup[k])]
           after == CHOOSE f : f = Body(f)
<1>1. N \in Nat /\ \A k \in 1..N : lineup[k] \in Crew \X BOOLEAN
  OBVIOUS
<1>2. AfterPass(lineup) \in [(1..N) \X Nat -> Nat]
  <2>1. \A k \in 1..N : Width(lineup[k]) \in Nat
    BY <1>1, LayoutOfIs
  <2> QED BY <2>1 DEF AfterPass
<1>3. PICK f \in [0..N -> Nat] :
        f[0] = 0 /\ \A k \in 1..N : f[k] = AfterPass(lineup)[<<k, f[k - 1]>>]
  <2>1. 0 \in Nat
    OBVIOUS
  <2>2. HasRun(N, Nat, 0, AfterPass(lineup))
    BY <1>1, <1>2, <2>1, LoopRuns
  <2> QED
    BY <2>2, Zenon DEF HasRun
<1>4. ASSUME NEW k \in 1..N
      PROVE  f[k] = f[k - 1] + Width(lineup[k])
  <2>1. k - 1 \in 0..N
    BY <1>1
  <2> QED
    BY <1>3, <2>1 DEF AfterPass
<1>5. f = Body(f)
  <2>1. \A k \in 0..N : k = 0 \/ k \in 1..N
    BY <1>1
  <2>2. \A k \in 0..N : f[k] = IF k = 0 THEN 0 ELSE f[k - 1] + Width(lineup[k])
    BY <1>3, <1>4, <2>1, Zenon
  <2> QED BY <1>3, <2>2
<1>6. after = Body(after)
  BY <1>5, Zenon
<1>7. ASSUME NEW row, NEW i \in 1..N
      PROVE  split_action(row, lineup, i) = SubSeq(row, after[i - 1] + 1, after[i])
  BY DEF split_action
<1>8. after[0] = 0 /\ \A k \in 1..N : after[k] = after[k - 1] + Width(lineup[k])
  <2> HIDE DEF after
  <2>1. 0 \in 0..N /\ \A k \in 1..N : k \in 0..N /\ k # 0
    BY <1>1
  <2> QED
    BY <1>6, <2>1, Zenon
<1> QED
  <2> HIDE DEF after
  <2> QED BY <1>7, <1>8 DEF Ends

(* After k arms: their columns fill the places up to where the k-th ends, each arm's its own, *)
(* and there are no others.                                                                   *)
Filled(f, g, lineup, k) ==
  /\ f[k] \in Seq(ActionNames) /\ g[k] \in Nat /\ Len(f[k]) = g[k]
  /\ \A i \in 1..k :
       /\ g[i - 1] \in Nat /\ g[i] = g[i - 1] + Width(lineup[i]) /\ g[i] <= g[k]
       /\ \A j \in 1..Width(lineup[i]) : f[k][g[i - 1] + j] = LayoutOf(lineup[i])[j]
  /\ \A p \in 1..g[k] : \E i \in 1..k : \E j \in 1..Width(lineup[i]) : p = g[i - 1] + j

LEMMA AllFilled ==
  ASSUME NEW lineup \in Seq(Crew \X BOOLEAN), NEW f, NEW g, Lays(f, lineup), Ends(g, lineup)
  PROVE  \A k \in 0..Len(lineup) : Filled(f, g, lineup, k)
<1> DEFINE N == Len(lineup)
           T == {k \in Nat : k <= N => Filled(f, g, lineup, k)}
<1>1. N \in Nat /\ \A k \in 1..N : lineup[k] \in Crew \X BOOLEAN
  OBVIOUS
<1>2. 0 \in T
  <2>1. f[0] = <<>> /\ g[0] = 0
    BY DEF Lays, Ends
  <2>2. (\A i \in 1..0 : FALSE) /\ <<>> \in Seq(ActionNames) /\ Len(<<>>) = 0
    OBVIOUS
  <2>3. Filled(f, g, lineup, 0)
    BY <2>1, <2>2 DEF Filled
  <2> QED BY <2>3
<1>3. ASSUME NEW k \in Nat, k \in T PROVE k + 1 \in T
  <2> SUFFICES ASSUME k + 1 <= N PROVE Filled(f, g, lineup, k + 1)
    OBVIOUS
  <2> DEFINE v == LayoutOf(lineup[k + 1])
             n == Width(lineup[k + 1])
             w == f[k]
             u == f[k + 1]
             e == g[k]
  <2>1. k + 1 \in 1..N /\ (k + 1) - 1 = k
    BY <1>1
  <2>2. Filled(f, g, lineup, k)
    BY <1>3, <1>1
  <2>3. u = w \o v /\ g[k + 1] = e + n
    BY <2>1 DEF Lays, Ends
  <2>4. v \in Seq(ActionNames) /\ Len(v) = n /\ n \in {2, 3}
    BY <1>1, <2>1, LayoutOfIs
  <2>5. w \in Seq(ActionNames) /\ e \in Nat /\ Len(w) = e
    BY <2>2 DEF Filled
  <2> HIDE DEF v, n, w, u, e
  <2>6. /\ u \in Seq(ActionNames) /\ Len(u) = e + n
        /\ \A i \in 1..(e + n) : u[i] = IF i <= e THEN w[i] ELSE v[i - e]
    BY <2>3, <2>4, <2>5, ConcatProperties
  <2>7. g[k + 1] \in Nat /\ e + n \in Nat
    BY <2>3, <2>4, <2>5
  <2>8. ASSUME NEW i \in 1..(k + 1)
        PROVE  /\ g[i - 1] \in Nat /\ g[i] = g[i - 1] + Width(lineup[i]) /\ g[i] <= g[k + 1]
               /\ \A j \in 1..Width(lineup[i]) : u[g[i - 1] + j] = LayoutOf(lineup[i])[j]
    <3>1. CASE i = k + 1
      <4>1. g[i - 1] = e /\ Width(lineup[i]) = n /\ LayoutOf(lineup[i]) = v /\ g[i] = e + n
        BY <2>1, <2>3, <3>1 DEF e, n, v
      <4>2. \A j \in 1..n : e + j \in 1..(e + n) /\ ~(e + j <= e) /\ (e + j) - e = j
        BY <2>4, <2>5
      <4>3. \A j \in 1..n : u[e + j] = v[j]
        BY <2>6, <4>2
      <4>4. g[i] <= g[k + 1]
        BY <2>3, <2>7, <3>1
      <4> QED BY <2>5, <4>1, <4>3, <4>4
    <3>2. CASE i # k + 1
      <4>1. i \in 1..k
        BY <3>2
      <4>2. /\ g[i - 1] \in Nat /\ g[i] = g[i - 1] + Width(lineup[i]) /\ g[i] <= e
            /\ \A j \in 1..Width(lineup[i]) : w[g[i - 1] + j] = LayoutOf(lineup[i])[j]
        BY <2>2, <4>1 DEF Filled, e, w
      <4>3. Width(lineup[i]) \in {2, 3}
        <5>1. i \in 1..N
          BY <1>1, <4>1
        <5> QED BY <1>1, <5>1, LayoutOfIs
      <4>4. \A j \in 1..Width(lineup[i]) : g[i - 1] + j \in 1..(e + n) /\ g[i - 1] + j <= e
        <5> DEFINE y == g[i - 1]
                   z == Width(lineup[i])
        <5>1. y \in Nat /\ y + z <= e /\ z \in Nat
          BY <4>2, <4>3
        <5> HIDE DEF y, z
        <5>2. \A j \in 1..z : y + j \in 1..(e + n) /\ y + j <= e
          BY <2>4, <2>5, <5>1
        <5> QED BY <5>2 DEF y, z
      <4>5. \A j \in 1..Width(lineup[i]) : u[g[i - 1] + j] = w[g[i - 1] + j]
        BY <2>6, <4>4
      <4>6. g[i] <= g[k + 1]
        BY <2>3, <2>4, <2>5, <4>2, <4>3
      <4> QED BY <4>2, <4>5, <4>6
    <3> QED BY <3>1, <3>2
  <2>9. ASSUME NEW p \in 1..g[k + 1]
        PROVE  \E i \in 1..(k + 1) : \E j \in 1..Width(lineup[i]) : p = g[i - 1] + j
    <3>1. CASE p <= e
      <4>1. p \in 1..g[k]
        BY <2>7, <2>5, <3>1 DEF e
      <4>2. PICK i \in 1..k : \E j \in 1..Width(lineup[i]) : p = g[i - 1] + j
        BY <2>2, <4>1 DEF Filled
      <4>3. i \in 1..(k + 1)
        OBVIOUS
      <4> QED BY <4>2, <4>3
    <3>2. CASE ~(p <= e)
      <4>1. p - e \in 1..n /\ p = e + (p - e) /\ k + 1 \in 1..(k + 1)
        BY <2>3, <2>4, <2>5, <2>7, <3>2
      <4>2. n = Width(lineup[k + 1]) /\ e = g[(k + 1) - 1]
        BY <2>1 DEF n, e
      <4> QED BY <4>1, <4>2
    <3> QED BY <3>1, <3>2
  <2> QED BY <2>3, <2>6, <2>7, <2>8, <2>9 DEF Filled, u
<1>4. Nat \subseteq T
  <2> HIDE DEF T
  <2> QED BY <1>2, <1>3, NatSetInduction
<1> QED BY <1>4

(* What a session's columns are made of. *)
Stretch(lineup, g) ==
  /\ Laid(lineup) \in Seq(ActionNames) /\ Len(Laid(lineup)) = g[Len(lineup)] /\ g[0] = 0
  /\ \A i \in 0..Len(lineup) : g[i] \in Nat /\ g[i] <= g[Len(lineup)]
  /\ \A i \in 1..Len(lineup) :
       /\ g[i] = g[i - 1] + Width(lineup[i])
       /\ \A j \in 1..Width(lineup[i]) : Laid(lineup)[g[i - 1] + j] = LayoutOf(lineup[i])[j]
  /\ \A p \in 1..Len(Laid(lineup)) :
       \E i \in 1..Len(lineup) : \E j \in 1..Width(lineup[i]) : p = g[i - 1] + j
  /\ \A row : \A i \in 1..Len(lineup) :
       split_action(row, lineup, i) = SubSeq(row, g[i - 1] + 1, g[i])

LEMMA LaidOut ==
  ASSUME NEW lineup \in Seq(Crew \X BOOLEAN)
  PROVE  \E g : Stretch(lineup, g)
<1> DEFINE N == Len(lineup)
<1>1. PICK f : Lays(f, lineup)
  BY LaidLoop
<1>2. PICK g : Ends(g, lineup)
  BY EndsLoop
<1>3. \A k \in 0..N : Filled(f, g, lineup, k)
  BY <1>1, <1>2, AllFilled
<1>4. N \in Nat /\ N \in 0..N
  OBVIOUS
<1>5. Filled(f, g, lineup, N) /\ Laid(lineup) = f[N] /\ g[0] = 0
  BY <1>1, <1>2, <1>3, <1>4 DEF Lays, Ends
<1> HIDE DEF N
<1>6. ASSUME NEW i \in 0..N PROVE g[i] \in Nat /\ g[i] <= g[N]
  <2>1. g[i] \in Nat /\ g[N] \in Nat
    BY <1>3, <1>5 DEF Filled
  <2>2. CASE i = 0
    BY <1>5, <2>1, <2>2
  <2>3. CASE i # 0
    <3>1. i \in 1..N
      BY <1>4, <2>3
    <3> QED BY <1>5, <2>1, <3>1 DEF Filled
  <2> QED BY <2>2, <2>3
<1>7. Len(Laid(lineup)) = g[N] /\ Laid(lineup) \in Seq(ActionNames)
  BY <1>5 DEF Filled
<1>8. \A i \in 1..N :
       /\ g[i] = g[i - 1] + Width(lineup[i])
       /\ \A j \in 1..Width(lineup[i]) : Laid(lineup)[g[i - 1] + j] = LayoutOf(lineup[i])[j]
  BY <1>5, Zenon DEF Filled
<1>9. \A p \in 1..Len(Laid(lineup)) :
        \E i \in 1..N : \E j \in 1..Width(lineup[i]) : p = g[i - 1] + j
  <2>1. \A p \in 1..g[N] : \E i \in 1..N : \E j \in 1..Width(lineup[i]) : p = g[i - 1] + j
    BY <1>5, Zenon DEF Filled
  <2>2. Len(Laid(lineup)) = g[N]
    BY <1>7
  <2> QED BY <2>1, <2>2, Zenon
<1>10. \A row : \A i \in 1..N :
         split_action(row, lineup, i) = SubSeq(row, g[i - 1] + 1, g[i])
  BY <1>2 DEF Ends, N
<1> QED
  BY <1>5, <1>6, <1>7, <1>8, <1>9, <1>10, Zenon DEF Stretch, N

(* The slice of a row that is a function of the columns is that function of the arm's layout. *)
Through(h, lineup) == [q \in DOMAIN Laid(lineup) |-> h[Laid(lineup)[q]]]
IsSlice(part, meta, V, h) ==
  /\ part \in Seq(V) /\ Len(part) = Width(meta)
  /\ \A j \in 1..Width(meta) : part[j] = h[LayoutOf(meta)[j]]

LEMMA SliceIs ==
  ASSUME NEW lineup \in Seq(Crew \X BOOLEAN), NEW i \in 1..Len(lineup),
         NEW V, NEW h \in [ActionNames -> V]
  PROVE  IsSlice(split_action(Through(h, lineup), lineup, i), lineup[i], V, h)
<1> DEFINE row == Through(h, lineup)
<1>1. PICK g : Stretch(lineup, g)
  BY LaidOut
<1> DEFINE a == g[i - 1]
           b == g[i]
           w == Width(lineup[i])
           L == Laid(lineup)
<1>2. i - 1 \in 0..Len(lineup) /\ i \in 0..Len(lineup) /\ lineup[i] \in Crew \X BOOLEAN
  OBVIOUS
<1>3. w \in {2, 3}
  BY <1>2, LayoutOfIs
<1>4. /\ a \in Nat /\ b = a + w /\ b <= Len(L) /\ L \in Seq(ActionNames)
      /\ \A j \in 1..w : L[a + j] = LayoutOf(lineup[i])[j]
      /\ split_action(row, lineup, i) = SubSeq(row, a + 1, b)
  BY <1>1, <1>2 DEF Stretch
<1> HIDE DEF L, w, a, b, row
<1>5. Len(L) \in Nat /\ DOMAIN L = 1..Len(L) /\ \A q \in 1..Len(L) : L[q] \in ActionNames
  BY <1>4
<1>6. row \in Seq(V) /\ \A q \in 1..Len(L) : row[q] = h[L[q]] /\ row[q] \in V
  <2>1. row = [q \in 1..Len(L) |-> h[L[q]]]
    BY <1>5 DEF L, row, Through
  <2>2. \A q \in 1..Len(L) : h[L[q]] \in V
    BY <1>5
  <2>3. row \in [1..Len(L) -> V] /\ \A q \in 1..Len(L) : row[q] = h[L[q]] /\ row[q] \in V
    BY <2>1, <2>2
  <2>4. row \in Seq(V)
    BY <1>5, <2>3
  <2> QED BY <2>3, <2>4
<1>7. \A q \in (a + 1)..b : q \in 1..Len(L) /\ row[q] \in V
  BY <1>3, <1>4, <1>5, <1>6
<1>8. a + 1 \in Int /\ b \in Int /\ a + 1 <= b /\ b - (a + 1) + 1 = w
  BY <1>3, <1>4
<1>9. /\ SubSeq(row, a + 1, b) \in Seq(V)
      /\ Len(SubSeq(row, a + 1, b)) = IF a + 1 <= b THEN b - (a + 1) + 1 ELSE 0
      /\ \A j \in 1..(b - (a + 1) + 1) : SubSeq(row, a + 1, b)[j] = row[(a + 1) + j - 1]
  BY <1>7, <1>8, SubSeqProperties
<1>10. ASSUME NEW j \in 1..w
       PROVE  SubSeq(row, a + 1, b)[j] = h[LayoutOf(lineup[i])[j]]
  <2>1. (a + 1) + j - 1 = a + j /\ a + j \in (a + 1)..b
    BY <1>3, <1>4
  <2>2. SubSeq(row, a + 1, b)[j] = row[a + j]
    BY <1>8, <1>9, <2>1
  <2>3. row[a + j] = h[L[a + j]]
    BY <1>6, <1>7, <2>1
  <2>4. L[a + j] = LayoutOf(lineup[i])[j]
    BY <1>4
  <2> QED BY <2>2, <2>3, <2>4
<1> QED
  <2>1. IsSlice(SubSeq(row, a + 1, b), lineup[i], V, h)
    BY <1>8, <1>9, <1>10 DEF w, IsSlice
  <2> QED BY <1>4, <2>1 DEF row

(* The arms and names that are in a session's columns. *)
LEMMA LaidHas ==
  ASSUME NEW lineup \in Seq(Crew \X BOOLEAN)
  PROVE  /\ \A i \in 1..Len(lineup) : \A j \in 1..Width(lineup[i]) :
              LayoutOf(lineup[i])[j] \in ToSet(Laid(lineup))
         /\ \A n \in ToSet(Laid(lineup)) : \E i \in 1..Len(lineup) : n[1] = lineup[i][1]
         /\ \A p \in DOMAIN Laid(lineup) : \E i \in 1..Len(lineup) :
              Laid(lineup)[p][1] = lineup[i][1]
<1>1. PICK g : Stretch(lineup, g)
  BY LaidOut
<1> DEFINE L == Laid(lineup)
<1>2. /\ L \in Seq(ActionNames) /\ Len(L) \in Nat /\ DOMAIN L = 1..Len(L)
      /\ Len(L) = g[Len(lineup)]
  BY <1>1 DEF Stretch
<1> HIDE DEF L
<1>3. ASSUME NEW i \in 1..Len(lineup), NEW j \in 1..Width(lineup[i])
      PROVE  LayoutOf(lineup[i])[j] \in ToSet(L)
  <2>1. i - 1 \in 0..Len(lineup) /\ i \in 0..Len(lineup) /\ lineup[i] \in Crew \X BOOLEAN
    OBVIOUS
  <2>2. Width(lineup[i]) \in {2, 3}
    BY <2>1, LayoutOfIs
  <2>3. /\ g[i - 1] \in Nat /\ g[i] = g[i - 1] + Width(lineup[i]) /\ g[i] <= Len(L)
        /\ L[g[i - 1] + j] = LayoutOf(lineup[i])[j]
    BY <1>1, <1>2, <2>1 DEF Stretch, L
  <2>4. g[i - 1] + j \in 1..Len(L)
    <3> DEFINE y == g[i - 1]
               z == Width(lineup[i])
    <3>1. y \in Nat /\ z \in {2, 3} /\ y + z <= Len(L) /\ Len(L) \in Nat /\ j \in 1..z
      BY <1>2, <2>2, <2>3
    <3> HIDE DEF y, z
    <3> QED BY <3>1 DEF y
  <2> QED BY <1>2, <2>3, <2>4 DEF ToSet
<1>4. ASSUME NEW p \in DOMAIN L
      PROVE  \E i \in 1..Len(lineup) : L[p][1] = lineup[i][1]
  <2>1. PICK i \in 1..Len(lineup) : \E j \in 1..Width(lineup[i]) : p = g[i - 1] + j
    <3>1. p \in 1..Len(Laid(lineup))
      BY <1>2 DEF L
    <3> QED BY <1>1, <3>1, Zenon DEF Stretch
  <2>2. PICK j \in 1..Width(lineup[i]) : p = g[i - 1] + j
    BY <2>1
  <2>3. L[p] = LayoutOf(lineup[i])[j]
    BY <1>1, <2>2 DEF Stretch, L
  <2>4. lineup[i] \in Crew \X BOOLEAN
    OBVIOUS
  <2>5. LayoutOf(lineup[i])[j][1] = lineup[i][1]
    BY <2>4, LayoutOfIs
  <2> QED BY <2>3, <2>5
<1>5. \A n \in ToSet(L) : \E i \in 1..Len(lineup) : n[1] = lineup[i][1]
  BY <1>4 DEF ToSet
<1> QED BY <1>3, <1>4, <1>5 DEF L

(***************************************************************************)
(* The loop of parse_action_names.                                         *)
(***************************************************************************)
Arms == Crew \cup {NoBlock}
Blocks == [arm : Arms, from : Nat, to : Nat]

(* The types of the blocks the loop keeps. *)
LEMMA NameArms == \A n \in ActionNames : n[1] \in Arms
BY DEF ActionNames, Arms, Foreign

LEMMA BlockFields ==
  ASSUME NEW b \in Blocks, NEW i \in Nat
  PROVE  /\ b.arm \in Arms /\ b.from \in Nat /\ b.to \in Nat
         /\ [b EXCEPT !.to = i] \in Blocks
         /\ [b EXCEPT !.to = i] = [arm |-> b.arm, from |-> b.from, to |-> i]
BY DEF Blocks

LEMMA AddNameTyped ==
  ASSUME NEW runs \in Seq(Blocks), NEW n \in ActionNames, NEW i \in Nat \ {0}
  PROVE  AddName(runs, n, i) \in Seq(Blocks)
<1>1. n[1] \in Arms /\ i - 1 \in Nat
  BY NameArms
<1>2. CASE runs # <<>> /\ runs[Len(runs)].arm = n[1]
  <2>1. Len(runs) \in 1..Len(runs)
    BY <1>2, EmptySeq
  <2>2. [runs[Len(runs)] EXCEPT !.to = i] \in Blocks
    <3>1. runs[Len(runs)] \in Blocks
      BY <2>1, ElementOfSeq
    <3> QED BY <3>1, BlockFields
  <2>3. AddName(runs, n, i) = [runs EXCEPT ![Len(runs)] = [runs[Len(runs)] EXCEPT !.to = i]]
    BY <1>2 DEF AddName
  <2> HIDE DEF Blocks
  <2> QED BY <2>1, <2>2, <2>3, ExceptSeq
<1>3. CASE ~(runs # <<>> /\ runs[Len(runs)].arm = n[1])
  <2>1. [arm |-> n[1], from |-> i - 1, to |-> i] \in Blocks
    BY <1>1 DEF Blocks
  <2>2. AddName(runs, n, i) = Append(runs, [arm |-> n[1], from |-> i - 1, to |-> i])
    BY <1>3 DEF AddName
  <2> QED BY <2>1, <2>2, AppendProperties
<1> QED BY <1>2, <1>3

RunsPass(names) == [p \in (1..Len(names)) \X Seq(Blocks) |-> AddName(p[2], names[p[1]], p[1])]
Adds(f, names) ==
  /\ f[0] = <<>> /\ Runs(names) = f[Len(names)]
  /\ \A k \in 1..Len(names) : f[k] = AddName(f[k - 1], names[k], k)

LEMMA RunsLoop ==
  ASSUME NEW names \in Seq(ActionNames)
  PROVE  \E f : Adds(f, names)
<1> DEFINE N == Len(names)
           X == Seq(Blocks)
           Body(f) == [i \in 0..N |-> IF i = 0 THEN <<>> ELSE AddName(f[i - 1], names[i], i)]
           upto == CHOOSE f : f = Body(f)
<1>1. N \in Nat /\ \A k \in 1..N : names[k] \in ActionNames /\ k \in Nat \ {0}
  OBVIOUS
<1>2. RunsPass(names) \in [(1..N) \X X -> X]
  BY <1>1, AddNameTyped DEF RunsPass
<1>3. PICK f \in [0..N -> X] :
        f[0] = <<>> /\ \A k \in 1..N : f[k] = RunsPass(names)[<<k, f[k - 1]>>]
  <2>1. <<>> \in X
    OBVIOUS
  <2>2. HasRun(N, X, <<>>, RunsPass(names))
    BY <1>1, <1>2, <2>1, LoopRuns
  <2> QED
    BY <2>2, Zenon DEF HasRun
<1>4. ASSUME NEW k \in 1..N
      PROVE  f[k] = AddName(f[k - 1], names[k], k)
  <2>1. k - 1 \in 0..N
    BY <1>1
  <2> QED
    BY <1>3, <2>1 DEF RunsPass
<1>5. f = Body(f)
  <2>1. \A k \in 0..N : k = 0 \/ k \in 1..N
    BY <1>1
  <2>2. \A k \in 0..N : f[k] = IF k = 0 THEN <<>> ELSE AddName(f[k - 1], names[k], k)
    BY <1>3, <1>4, <2>1, Zenon
  <2> QED BY <1>3, <2>2
<1>6. upto = Body(upto)
  BY <1>5, Zenon
<1>7. Runs(names) = upto[N]
  BY DEF Runs
<1>8. upto[0] = <<>> /\ \A k \in 1..N : upto[k] = AddName(upto[k - 1], names[k], k)
  <2> HIDE DEF upto
  <2>1. 0 \in 0..N /\ \A k \in 1..N : k \in 0..N /\ k # 0
    BY <1>1
  <2> QED
    BY <1>6, <2>1, Zenon
<1> QED
  <2> HIDE DEF upto
  <2> QED BY <1>7, <1>8 DEF Adds

(* The runs cover the names so far without a gap. *)
Chain(runs, k) ==
  /\ runs \in Seq(Blocks)
  /\ IF k = 0 THEN runs = <<>> ELSE runs # <<>> /\ runs[Len(runs)].to = k
  /\ \A i \in 1..Len(runs) :
       /\ runs[i].from < runs[i].to /\ runs[i].to <= k
       /\ runs[i].from = IF i = 1 THEN 0 ELSE runs[i - 1].to

LEMMA ChainGrows ==
  ASSUME NEW runs, NEW k \in Nat, Chain(runs, k), NEW n \in ActionNames
  PROVE  Chain(AddName(runs, n, k + 1), k + 1)
<1> DEFINE L == Len(runs)
           new == AddName(runs, n, k + 1)
<1>1. runs \in Seq(Blocks) /\ L \in Nat
  BY DEF Chain
<1>2. new \in Seq(Blocks) /\ k + 1 \in Nat \ {0}
  BY <1>1, AddNameTyped
<1>3. \A i \in 1..L : /\ runs[i].from \in Nat /\ runs[i].to \in Nat /\ runs[i].arm \in Arms
                      /\ runs[i].from < runs[i].to /\ runs[i].to <= k
                      /\ runs[i].from = IF i = 1 THEN 0 ELSE runs[i - 1].to
  <2>1. \A i \in 1..L : runs[i] \in Blocks
    BY <1>1, ElementOfSeq
  <2>2. \A i \in 1..L : runs[i].arm \in Arms /\ runs[i].from \in Nat /\ runs[i].to \in Nat
    <3>1. 0 \in Nat
      OBVIOUS
    <3> QED BY <2>1, <3>1, BlockFields, Zenon
  <2> QED BY <2>2 DEF Chain
<1>4. CASE runs # <<>> /\ runs[L].arm = n[1]
  <2>1. L \in 1..L /\ k # 0 /\ runs[L].to = k
    BY <1>1, <1>4, EmptySeq DEF Chain
  <2>2. new = [runs EXCEPT ![L] = [runs[L] EXCEPT !.to = k + 1]]
    BY <1>4 DEF AddName
  <2> DEFINE e == [runs[L] EXCEPT !.to = k + 1]
  <2>3. e \in Blocks /\ e.to = k + 1 /\ e.from = runs[L].from
    <3>1. runs[L] \in Blocks /\ k + 1 \in Nat
      BY <1>1, <2>1, ElementOfSeq
    <3>2. e \in Blocks /\ e = [arm |-> runs[L].arm, from |-> runs[L].from, to |-> k + 1]
      BY <3>1, BlockFields
    <3> HIDE DEF e
    <3> QED BY <3>2
  <2> HIDE DEF e, new
  <2>4. Len(new) = L /\ \A j \in 1..L : new[j] = IF j = L THEN e ELSE runs[j]
    <3> HIDE DEF L, Blocks
    <3> QED BY <1>1, <2>1, <2>2, <2>3, ExceptSeq DEF L, e
  <2>5. new # <<>> /\ new[Len(new)].to = k + 1
    BY <2>1, <2>3, <2>4, <1>2, EmptySeq
  <2>6. ASSUME NEW i \in 1..L
        PROVE  /\ new[i].from < new[i].to /\ new[i].to <= k + 1
               /\ new[i].from = IF i = 1 THEN 0 ELSE new[i - 1].to
    <3>1. new[i].from = runs[i].from /\ new[i].to = (IF i = L THEN k + 1 ELSE runs[i].to)
      BY <2>3, <2>4
    <3>2. i # 1 => new[i - 1] = runs[i - 1]
      <4>1. i # 1 => i - 1 \in 1..L /\ i - 1 # L
        BY <1>1
      <4> QED BY <2>4, <4>1
    <3> HIDE DEF L
    <3> QED BY <1>3, <3>1, <3>2
  <2>7. k + 1 # 0
    OBVIOUS
  <2>8. \A i \in 1..Len(new) : /\ new[i].from < new[i].to /\ new[i].to <= k + 1
                                /\ new[i].from = IF i = 1 THEN 0 ELSE new[i - 1].to
    BY <2>4, <2>6, Zenon
  <2>9. Chain(new, k + 1)
    <3> HIDE DEF L
    <3> QED BY <1>2, <2>4, <2>5, <2>7, <2>8, Zenon DEF Chain
  <2> QED BY <2>9 DEF new
<1>5. CASE ~(runs # <<>> /\ runs[L].arm = n[1])
  <2> DEFINE e == [arm |-> n[1], from |-> (k + 1) - 1, to |-> k + 1]
  <2>1. new = Append(runs, e)
    BY <1>5 DEF AddName
  <2>2. e \in Blocks /\ e.from = k /\ e.to = k + 1
    BY NameArms DEF Blocks
  <2> HIDE DEF e, new
  <2>3. Len(new) = L + 1 /\ new[L + 1] = e /\ \A i \in 1..L : new[i] = runs[i]
    BY <1>1, <2>1, <2>2, AppendProperties
  <2>4. new # <<>> /\ new[Len(new)].to = k + 1
    BY <1>1, <1>2, <2>2, <2>3, EmptySeq
  <2>5. e.from = IF L = 0 THEN 0 ELSE runs[L].to
    <3>1. CASE k = 0
      <4>1. L = 0
        BY <3>1, EmptySeq DEF Chain
      <4> QED BY <2>2, <3>1, <4>1
    <3>2. CASE k # 0
      <4>1. runs # <<>> /\ runs[L].to = k
        BY <3>2 DEF Chain
      <4>2. L # 0
        BY <1>1, <4>1, EmptySeq
      <4> QED BY <2>2, <4>1, <4>2
    <3> QED BY <3>1, <3>2
  <2>6. ASSUME NEW i \in 1..(L + 1)
        PROVE  /\ new[i].from < new[i].to /\ new[i].to <= k + 1
               /\ new[i].from = IF i = 1 THEN 0 ELSE new[i - 1].to
    <3>1. CASE i \in 1..L
      <4>1. i # 1 => i - 1 \in 1..L
        BY <1>1, <3>1
      <4>2. new[i] = runs[i] /\ (i # 1 => new[i - 1] = runs[i - 1])
        BY <2>3, <3>1, <4>1
      <4> QED BY <1>3, <3>1, <4>2
    <3>2. CASE i = L + 1
      <4>1. new[i] = e /\ (L # 0 => new[i - 1] = runs[L] /\ i # 1) /\ (L = 0 => i = 1)
        BY <1>1, <2>3, <3>2
      <4> QED BY <2>2, <2>5, <4>1
    <3> QED BY <1>1, <3>1, <3>2
  <2>7. k + 1 # 0
    OBVIOUS
  <2>8. \A i \in 1..Len(new) : /\ new[i].from < new[i].to /\ new[i].to <= k + 1
                                /\ new[i].from = IF i = 1 THEN 0 ELSE new[i - 1].to
    BY <2>3, <2>6, Zenon
  <2>9. Chain(new, k + 1)
    <3> HIDE DEF L
    <3> QED BY <1>2, <2>3, <2>4, <2>7, <2>8, Zenon DEF Chain
  <2> QED BY <2>9 DEF new
<1> QED BY <1>4, <1>5

LEMMA RunsChain ==
  ASSUME NEW names \in Seq(ActionNames)
  PROVE  Chain(Runs(names), Len(names))
<1> DEFINE N == Len(names)
<1>1. PICK f : Adds(f, names)
  BY RunsLoop
<1> DEFINE T == {k \in Nat : k <= N => Chain(f[k], k)}
<1>2. N \in Nat
  OBVIOUS
<1>3. 0 \in T
  <2>1. f[0] = <<>> /\ <<>> \in Seq(Blocks) /\ Len(<<>>) = 0
    BY <1>1, EmptySeq DEF Adds
  <2>2. Chain(<<>>, 0)
    BY <2>1 DEF Chain
  <2> QED BY <2>1, <2>2
<1>4. ASSUME NEW k \in Nat, k \in T PROVE k + 1 \in T
  <2> SUFFICES ASSUME k + 1 <= N PROVE Chain(f[k + 1], k + 1)
    OBVIOUS
  <2>1. k + 1 \in 1..N /\ (k + 1) - 1 = k /\ names[k + 1] \in ActionNames /\ Chain(f[k], k)
    BY <1>2, <1>4
  <2>2. f[k + 1] = AddName(f[k], names[k + 1], k + 1)
    BY <1>1, <2>1 DEF Adds
  <2> QED BY <2>1, <2>2, ChainGrows
<1>5. N \in T
  <2> HIDE DEF T
  <2> QED BY <1>2, <1>3, <1>4, NatSetInduction
<1> QED BY <1>1, <1>2, <1>5 DEF Adds

LEMMA LayoutFirst ==
  ASSUME NEW a, NEW railed \in BOOLEAN
  PROVE  arm_action_names(a, railed)[1] = <<a, "x">>
<1> DEFINE p == <<a, "x">>
           q == <<a, "y">>
           r == <<a, "rail">>
           S == {p, q, r}
           t == IF railed THEN <<r>> ELSE <<>>
<1>1. arm_action_names(a, railed) = <<p, q>> \o t
  BY DEF arm_action_names
<1> HIDE DEF p, q, r
<1>2. p \in S /\ q \in S /\ r \in S
  OBVIOUS
<1> HIDE DEF S
<1>3. <<p, q>> \in Seq(S) /\ Len(<<p, q>>) = 2 /\ <<p, q>>[1] = p
  BY <1>2
<1>4. t \in Seq(S) /\ Len(t) \in Nat
  BY <1>2
<1> HIDE DEF t
<1>5. \A i \in 1..(Len(<<p, q>>) + Len(t)) :
        (<<p, q>> \o t)[i] = IF i <= Len(<<p, q>>) THEN <<p, q>>[i] ELSE t[i - Len(<<p, q>>)]
  BY <1>3, <1>4, ConcatProperties
<1>6. (<<p, q>> \o t)[1] = p
  BY <1>3, <1>4, <1>5
<1> QED BY <1>1, <1>6 DEF p

(* An accepted column is made of whole layouts of different arms. *)
LEMMA AcceptedIsWhole ==
  ASSUME NEW names \in Seq(ActionNames), parse_action_names(names) # <<>>
  PROVE  WholeLayouts(names)
<1> DEFINE runs == Runs(names)
           R == Len(runs)
           P == Len(names)
<1>1. /\ \A i \in DOMAIN runs : IsBlock(names, runs[i])
      /\ \A i, j \in DOMAIN runs : runs[i].arm = runs[j].arm => i = j
      /\ runs # <<>>
  BY DEF parse_action_names
<1>2. Chain(runs, P) /\ P \in Nat
  BY RunsChain
<1> HIDE DEF runs
<1>3. runs \in Seq(Blocks) /\ R \in Nat \ {0} /\ DOMAIN runs = 1..R /\ P # 0 /\ runs[R].to = P
  BY <1>1, <1>2, EmptySeq DEF Chain
<1>4. \A i \in 1..R :
        /\ runs[i].from \in Nat /\ runs[i].to \in Nat
        /\ runs[i].from < runs[i].to /\ runs[i].to <= P
        /\ runs[i].from = IF i = 1 THEN 0 ELSE runs[i - 1].to
  <2>1. \A i \in 1..R : runs[i].from \in Nat /\ runs[i].to \in Nat
    <3>1. \A i \in 1..R : runs[i] \in Blocks
      BY <1>3, ElementOfSeq
    <3>2. 0 \in Nat
      OBVIOUS
    <3> QED BY <3>1, <3>2, BlockFields, Zenon
  <2> QED BY <1>2, <2>1 DEF Chain
<1> DEFINE part(i) == SubSeq(names, runs[i].from + 1, runs[i].to)
           railed == [i \in 1..R |-> CHOOSE b \in BOOLEAN :
                        part(i) = arm_action_names(runs[i].arm, b)]
           s == [i \in 1..R |-> <<runs[i].arm, railed[i]>>]
<1>5. \A i \in 1..R : railed[i] \in BOOLEAN /\ part(i) = arm_action_names(runs[i].arm, railed[i])
  <2> TAKE i \in 1..R
  <2>1. \E b \in BOOLEAN : part(i) = arm_action_names(runs[i].arm, b)
    BY <1>1, <1>3 DEF IsBlock
  <2> HIDE DEF part
  <2> QED BY <2>1
<1> HIDE DEF railed
<1>6. \A i \in 1..R : runs[i].arm \in Crew
  <2> TAKE i \in 1..R
  <2> DEFINE m == runs[i].from + 1
             n == runs[i].to
  <2>1. m \in 1..P /\ m \in Int /\ n \in Int /\ m <= n /\ n <= P
    BY <1>2, <1>4
  <2> HIDE DEF m, n
  <2>2. \A k \in m..n : names[k] \in ActionNames
    BY <1>2, <2>1
  <2>3. \A k \in 1..(n - m + 1) : SubSeq(names, m, n)[k] = names[m + k - 1]
    BY <2>1, <2>2, SubSeqProperties
  <2>4. 1 \in 1..(n - m + 1) /\ m + 1 - 1 = m
    BY <2>1
  <2>5. SubSeq(names, m, n)[1] = names[m]
    BY <2>3, <2>4
  <2>6. names[m] = <<runs[i].arm, "x">>
    BY <1>5, <2>5, LayoutFirst DEF m, n
  <2>7. names[m] \in ActionNames
    BY <2>1
  <2>8. <<runs[i].arm, "x">> \in ActionNames
    BY <2>6, <2>7
  <2> QED BY <2>8 DEF ActionNames, Foreign
<1>7. R \in 1..Cardinality(Crew)
  <2> DEFINE h == [i \in 1..R |-> runs[i].arm]
  <2>1. h \in Injection(1..R, Crew)
    BY <1>1, <1>3, <1>6 DEF Injection, IsInjective
  <2>2. Cardinality(1..R) <= Cardinality(Crew)
    <3> HIDE DEF h
    <3> QED BY <2>1, ColumnsAssumption, FS_Injection
  <2>3. Cardinality(1..R) = R
    BY <1>3, FS_Interval
  <2> QED BY <1>3, <2>2, <2>3, ColumnsAssumption, FS_CardinalityType
<1>8. s \in [1..R -> Crew \X BOOLEAN] /\ \A i \in 1..R : s[i] = <<runs[i].arm, railed[i]>>
  BY <1>5, <1>6
<1> HIDE DEF s
<1>9. DOMAIN s = 1..R /\ s \in Seq(Crew \X BOOLEAN) /\ Len(s) = R
  BY <1>3, <1>8
<1>10. s \in Layouts
  <2>1. s \in UNION {[1..n -> Crew \X BOOLEAN] : n \in 1..Cardinality(Crew)}
    BY <1>7, <1>8, Zenon
  <2>2. \A i \in 1..R : s[i][1] = runs[i].arm
    BY <1>8
  <2>3. \A i, j \in DOMAIN s : s[i][1] = s[j][1] => i = j
    BY <1>1, <1>3, <1>9, <2>2, Zenon
  <2> QED BY <2>1, <2>3, Zenon DEF Layouts
<1>11. PICK f : Lays(f, s)
  BY <1>9, LaidLoop
<1> DEFINE EndOf(k) == IF k = 0 THEN 0 ELSE runs[k].to
           T == {k \in Nat : k <= R => f[k] = SubSeq(names, 1, EndOf(k))}
<1>12. 0 \in T
  <2>1. SubSeq(names, 1, 0) = <<>>
    BY SubSeqEmpty
  <2> QED BY <1>11, <2>1 DEF Lays
<1>13. ASSUME NEW k \in Nat, k \in T PROVE k + 1 \in T
  <2> SUFFICES ASSUME k + 1 <= R PROVE f[k + 1] = SubSeq(names, 1, EndOf(k + 1))
    OBVIOUS
  <2> DEFINE e == EndOf(k)
             n == runs[k + 1].to
  <2>1. k + 1 \in 1..R /\ (k + 1) - 1 = k /\ k <= R /\ (k # 0 => k \in 1..R) /\ k + 1 # 0
    BY <1>3
  <2>2. f[k] = SubSeq(names, 1, e)
    BY <1>13, <2>1
  <2>3. e = runs[k + 1].from /\ e \in Nat /\ n \in Nat /\ e < n /\ n <= P
    BY <1>4, <2>1
  <2>4. f[k + 1] = f[k] \o LayoutOf(s[k + 1])
    BY <1>9, <1>11, <2>1 DEF Lays
  <2>5. LayoutOf(s[k + 1]) = SubSeq(names, e + 1, n)
    <3>1. LayoutOf(s[k + 1]) = arm_action_names(runs[k + 1].arm, railed[k + 1])
      BY <1>8, <2>1 DEF LayoutOf
    <3>2. part(k + 1) = SubSeq(names, e + 1, n)
      BY <2>3
    <3> QED BY <1>5, <2>1, <3>1, <3>2
  <2>6. EndOf(k + 1) = n
    BY <2>1
  <2> HIDE DEF e, n, EndOf
  <2>7. 1 \in 1..(P + 1) /\ e \in (1 - 1)..P /\ n \in e..P
    BY <1>2, <2>3
  <2>8. SubSeq(names, 1, e) \o SubSeq(names, e + 1, n) = SubSeq(names, 1, n)
    BY <2>7, ConcatAdjacentSubSeq
  <2> QED BY <2>2, <2>4, <2>5, <2>6, <2>8
<1>14. R \in T
  <2> HIDE DEF T
  <2> QED BY <1>3, <1>12, <1>13, NatSetInduction
<1>15. names = Laid(s)
  <2>1. f[R] = SubSeq(names, 1, P)
    BY <1>3, <1>14
  <2>2. f[R] = names
    BY <2>1, SubSeqFull
  <2> QED BY <1>9, <1>11, <2>2 DEF Lays
<1> QED BY <1>10, <1>15 DEF WholeLayouts

(* The blocks of a session's first k arms, and of the next up to the i-th column. *)
Done(lineup, g, k) ==
  [i \in 1..k |-> [arm |-> lineup[i][1], from |-> g[i - 1], to |-> g[i]]]
Opened(D, a, e, i) == Append(D, [arm |-> a, from |-> e, to |-> i])

(* A further column of the arm whose block is open lengthens that block. *)
LEMMA OpenedGrows ==
  ASSUME NEW D \in Seq(Blocks), NEW a \in Arms, NEW e \in Nat, NEW i \in Nat, NEW l \in Nat,
         NEW n \in ActionNames, n[1] = a
  PROVE  AddName(Opened(D, a, e, l), n, i) = Opened(D, a, e, i)
<1> DEFINE b == [arm |-> a, from |-> e, to |-> l]
           c == [arm |-> a, from |-> e, to |-> i]
           B == Append(D, b)
           L == Len(D) + 1
<1>1. b \in Blocks /\ c \in Blocks /\ b.arm = a /\ [b EXCEPT !.to = i] = c
  BY DEF Blocks
<1> HIDE DEF b, c
<1>2. B \in Seq(Blocks) /\ Len(B) = L /\ B[L] = b /\ \A j \in 1..Len(D) : B[j] = D[j]
  BY <1>1, AppendProperties
<1>3. Append(D, c) \in Seq(Blocks) /\ Len(Append(D, c)) = L /\ Append(D, c)[L] = c
      /\ \A j \in 1..Len(D) : Append(D, c)[j] = D[j]
  BY <1>1, AppendProperties
<1>4. L \in 1..L /\ L \in Nat
  OBVIOUS
<1> HIDE DEF B
<1>5. B # <<>>
  BY <1>2, <1>4, EmptySeq
<1>6. AddName(B, n, i) = [B EXCEPT ![L] = c]
  <2>1. AddName(B, n, i) = [B EXCEPT ![L].to = i]
    BY <1>1, <1>2, <1>5 DEF AddName
  <2>2. [B EXCEPT ![L].to = i] = [B EXCEPT ![L] = [B[L] EXCEPT !.to = i]]
    OBVIOUS
  <2> QED BY <1>1, <1>2, <2>1, <2>2
<1>7. /\ [B EXCEPT ![L] = c] \in Seq(Blocks) /\ Len([B EXCEPT ![L] = c]) = L
      /\ \A j \in 1..L : [B EXCEPT ![L] = c][j] = IF j = L THEN c ELSE B[j]
  <2>1. L \in 1..Len(B)
    BY <1>2, <1>4
  <2> HIDE DEF L
  <2> QED BY <1>1, <1>2, <2>1, ExceptSeq
<1>8. \A j \in 1..L : [B EXCEPT ![L] = c][j] = Append(D, c)[j]
  <2> TAKE j \in 1..L
  <2>1. CASE j = L
    BY <1>3, <1>7, <2>1
  <2>2. CASE j # L
    <3>1. j \in 1..Len(D)
      BY <2>2
    <3> QED BY <1>2, <1>3, <1>7, <2>2, <3>1
  <2> QED BY <2>1, <2>2
<1>9. [B EXCEPT ![L] = c] = Append(D, c)
  <2> DEFINE u == [B EXCEPT ![L] = c]
             v == Append(D, c)
  <2>1. u \in Seq(Blocks) /\ v \in Seq(Blocks) /\ Len(u) = Len(v)
       /\ \A j \in 1..Len(u) : u[j] = v[j]
    BY <1>3, <1>7, <1>8
  <2> HIDE DEF u, v
  <2> QED BY <2>1, SeqEqual DEF u, v
<1> QED BY <1>6, <1>9 DEF Opened, B, b, c

(* Done is a sequence of blocks. *)
LEMMA DoneIs ==
  ASSUME NEW lineup \in Seq(Crew \X BOOLEAN), NEW g, Stretch(lineup, g), NEW k \in 0..Len(lineup)
  PROVE  /\ Done(lineup, g, k) \in Seq(Blocks) /\ Len(Done(lineup, g, k)) = k
         /\ \A i \in 1..k : Done(lineup, g, k)[i] =
              [arm |-> lineup[i][1], from |-> g[i - 1], to |-> g[i]]
<1>1. ASSUME NEW i \in 1..k
      PROVE  [arm |-> lineup[i][1], from |-> g[i - 1], to |-> g[i]] \in Blocks
  <2>1. i - 1 \in 0..Len(lineup) /\ i \in 0..Len(lineup) /\ i \in 1..Len(lineup)
    OBVIOUS
  <2>2. g[i - 1] \in Nat /\ g[i] \in Nat
    BY <2>1 DEF Stretch
  <2>3. lineup[i] \in Crew \X BOOLEAN
    BY <2>1
  <2>4. lineup[i][1] \in Crew
    BY <2>3
  <2> QED BY <2>2, <2>4 DEF Blocks, Arms
<1>2. k \in Nat
  OBVIOUS
<1>3. Done(lineup, g, k) \in [1..k -> Blocks]
  BY <1>1 DEF Done
<1>4. \A i \in 1..k : Done(lineup, g, k)[i] =
              [arm |-> lineup[i][1], from |-> g[i - 1], to |-> g[i]]
  BY DEF Done
<1>5. \A D : D \in [1..k -> Blocks] => D \in Seq(Blocks) /\ Len(D) = k
  BY <1>2
<1> QED BY <1>3, <1>4, <1>5

(* The columns of whole layouts make one block per arm. *)
LEMMA LaidRuns ==
  ASSUME NEW lineup \in Layouts, NEW g, Stretch(lineup, g)
  PROVE  Runs(Laid(lineup)) = Done(lineup, g, Len(lineup))
<1> DEFINE N == Len(lineup)
           L == Laid(lineup)
<1>1. /\ lineup \in Seq(Crew \X BOOLEAN) /\ N \in Nat
      /\ \A i, j \in 1..N : lineup[i][1] = lineup[j][1] => i = j
  BY LayoutsAre
<1>2. L \in Seq(ActionNames) /\ Len(L) = g[N] /\ g[0] = 0
  BY DEF Stretch
<1>3. PICK f : Adds(f, L)
  BY <1>2, RunsLoop
<1> DEFINE T == {k \in Nat : k <= N => f[g[k]] = Done(lineup, g, k)}
<1>4. 0 \in T
  <2>1. 0 \in 0..N
    BY <1>1
  <2>2. Done(lineup, g, 0) \in Seq(Blocks) /\ Len(Done(lineup, g, 0)) = 0
    BY <1>1, <2>1, DoneIs
  <2>3. Done(lineup, g, 0) = <<>>
    BY <2>2, EmptySeq
  <2> QED BY <1>2, <1>3, <2>3 DEF Adds
<1>5. ASSUME NEW k \in Nat, k \in T PROVE k + 1 \in T
  <2> SUFFICES ASSUME k + 1 <= N PROVE f[g[k + 1]] = Done(lineup, g, k + 1)
    OBVIOUS
  <2> DEFINE D == Done(lineup, g, k)
             a == lineup[k + 1][1]
             e == g[k]
             w == Width(lineup[k + 1])
             v == LayoutOf(lineup[k + 1])
  <2>1. k \in 0..N /\ k + 1 \in 1..N /\ k + 1 \in 0..N /\ (k + 1) - 1 = k
    BY <1>1
  <2>2. lineup[k + 1] \in Crew \X BOOLEAN /\ a \in Arms
    BY <1>1, <2>1 DEF Arms
  <2>3. w \in {2, 3} /\ \A j \in 1..w : v[j][1] = a
    BY <2>2, LayoutOfIs
  <2>4. /\ e \in Nat /\ g[k + 1] = e + w /\ g[k + 1] <= Len(L)
        /\ \A j \in 1..w : L[e + j] = v[j]
    BY <1>2, <2>1 DEF Stretch
  <2>5. /\ D \in Seq(Blocks) /\ Len(D) = k
        /\ \A i \in 1..k : D[i] = [arm |-> lineup[i][1], from |-> g[i - 1], to |-> g[i]]
    <3>1. lineup \in Seq(Crew \X BOOLEAN) /\ k \in 0..Len(lineup)
      BY <1>1, <2>1
    <3> QED BY <3>1, DoneIs, Zenon
  <2>6. f[e] = D
    BY <1>5, <2>1
  <2>7. ~(D # <<>> /\ D[Len(D)].arm = a)
    <3> SUFFICES ASSUME D # <<>> PROVE D[k].arm # a
      BY <2>5
    <3>1. k # 0
      BY <2>5, EmptySeq
    <3>2. k \in 1..k /\ k \in 1..N
      BY <2>1, <3>1
    <3>3. D[k].arm = lineup[k][1]
      BY <2>5, <3>2
    <3>4. lineup[k][1] # lineup[k + 1][1]
      <4>1. \A i, j \in 1..N : lineup[i][1] = lineup[j][1] => i = j
        BY <1>1
      <4>2. k # k + 1
        BY <2>1
      <4> HIDE DEF N, D, a, e, w, v
      <4> QED BY <2>1, <3>2, <4>1, <4>2, Zenon
    <3> QED BY <3>3, <3>4
  <2> HIDE DEF D, a, e, w, v
  <2>8. \A j \in 1..w : L[e + j][1] = a /\ L[e + j] \in ActionNames /\ e + j \in 1..Len(L)
    <3> TAKE j \in 1..w
    <3>1. e + j \in 1..Len(L)
      BY <1>2, <2>3, <2>4
    <3> HIDE DEF L
    <3>2. L[e + j] = v[j] /\ v[j][1] = a
      BY <2>3, <2>4
    <3>3. L[e + j] \in ActionNames
      BY <1>2, <3>1, ElementOfSeq
    <3> QED BY <3>1, <3>2, <3>3
  <2> HIDE DEF L
  <2>9. f[e + 1] = Opened(D, a, e, e + 1)
    <3>1. 1 \in 1..w /\ (e + 1) - 1 = e
      BY <2>3, <2>4
    <3>2. f[e + 1] = AddName(D, L[e + 1], e + 1) /\ L[e + 1][1] = a
      BY <1>3, <2>6, <2>8, <3>1 DEF Adds
    <3>3. AddName(D, L[e + 1], e + 1) = Append(D, [arm |-> a, from |-> (e + 1) - 1, to |-> e + 1])
      BY <2>7, <3>2 DEF AddName
    <3> QED BY <3>1, <3>2, <3>3 DEF Opened
  <2>10. ASSUME NEW j \in 2..w, f[e + (j - 1)] = Opened(D, a, e, e + (j - 1))
         PROVE  f[e + j] = Opened(D, a, e, e + j)
    <3>1. j \in 1..w /\ (e + j) - 1 = e + (j - 1) /\ e + j \in Nat /\ e + (j - 1) \in Nat
      BY <2>3, <2>4
    <3>2. /\ f[e + j] = AddName(f[e + (j - 1)], L[e + j], e + j)
          /\ L[e + j][1] = a /\ L[e + j] \in ActionNames
      BY <1>3, <2>8, <3>1 DEF Adds
    <3>3. a \in Arms /\ e \in Nat /\ D \in Seq(Blocks)
      BY <2>2, <2>4, <2>5
    <3>4. AddName(Opened(D, a, e, e + (j - 1)), L[e + j], e + j) = Opened(D, a, e, e + j)
      BY <3>1, <3>2, <3>3, OpenedGrows
    <3> QED BY <2>10, <3>2, <3>4
  <2>11. f[e + 2] = Opened(D, a, e, e + 2)
    <3>1. 2 \in 2..w /\ e + (2 - 1) = e + 1
      BY <2>3, <2>4
    <3> QED BY <2>9, <2>10, <3>1
  <2>12. w = 3 => f[e + 3] = Opened(D, a, e, e + 3)
    <3> SUFFICES ASSUME w = 3 PROVE f[e + 3] = Opened(D, a, e, e + 3)
      OBVIOUS
    <3>1. 3 \in 2..w /\ e + (3 - 1) = e + 2
      BY <2>4
    <3> QED BY <2>10, <2>11, <3>1
  <2>13. f[g[k + 1]] = Opened(D, a, e, g[k + 1])
    BY <2>3, <2>4, <2>11, <2>12
  <2>14. Opened(D, a, e, g[k + 1]) = Done(lineup, g, k + 1)
    <3> DEFINE c == [arm |-> a, from |-> e, to |-> g[k + 1]]
               M == Done(lineup, g, k + 1)
    <3>1. /\ M \in Seq(Blocks) /\ Len(M) = k + 1
          /\ \A i \in 1..(k + 1) : M[i] = [arm |-> lineup[i][1], from |-> g[i - 1], to |-> g[i]]
      BY <1>1, <2>1, DoneIs
    <3>2. k + 1 \in 1..(k + 1) /\ M[k + 1] = c
      BY <2>1, <3>1 DEF a, e
    <3> HIDE DEF c, M
    <3>3. c \in Blocks
      BY <3>1, <3>2, ElementOfSeq
    <3>4. /\ Append(D, c) \in Seq(Blocks) /\ Len(Append(D, c)) = k + 1 /\ Append(D, c)[k + 1] = c
          /\ \A i \in 1..k : Append(D, c)[i] = D[i]
      BY <2>5, <3>3, AppendProperties
    <3>5. ASSUME NEW i \in 1..(k + 1) PROVE Append(D, c)[i] = M[i]
      <4>1. CASE i = k + 1
        BY <3>2, <3>4, <4>1
      <4>2. CASE i # k + 1
        <5>1. i \in 1..k
          BY <4>2
        <5> QED BY <2>5, <3>1, <3>4, <5>1
      <4> QED BY <4>1, <4>2
    <3>6. Append(D, c) = M
      BY <3>1, <3>4, <3>5, SeqEqual
    <3> QED BY <3>6 DEF Opened, c, M
  <2> QED BY <2>13, <2>14
<1>6. N \in T
  <2> HIDE DEF T
  <2> QED BY <1>1, <1>4, <1>5, NatSetInduction
<1>7. f[g[N]] = Done(lineup, g, N)
  BY <1>1, <1>6
<1> QED BY <1>2, <1>3, <1>7 DEF Adds

(* The columns of whole layouts are accepted, as one block per arm. *)
LEMMA WholeIsAccepted ==
  ASSUME NEW s \in Layouts
  PROVE  /\ parse_action_names(Laid(s)) # <<>>
         /\ \A a : (\E i \in DOMAIN parse_action_names(Laid(s)) :
                      parse_action_names(Laid(s))[i].arm = a)
                   <=> \E i \in 1..Len(s) : s[i][1] = a
<1> DEFINE N == Len(s)
           names == Laid(s)
           runs == Runs(names)
<1>1. /\ s \in Seq(Crew \X BOOLEAN) /\ N \in Nat \ {0}
      /\ \A i, j \in 1..N : s[i][1] = s[j][1] => i = j
  BY LayoutsAre
<1>2. PICK g : Stretch(s, g)
  BY <1>1, LaidOut
<1>3. runs = Done(s, g, N)
  BY <1>2, LaidRuns
<1>4. /\ runs \in Seq(Blocks) /\ Len(runs) = N
      /\ \A i \in 1..N : runs[i] = [arm |-> s[i][1], from |-> g[i - 1], to |-> g[i]]
  <2>1. N \in 0..Len(s)
    BY <1>1
  <2>2. s \in Seq(Crew \X BOOLEAN)
    BY <1>1
  <2>3. /\ Done(s, g, N) \in Seq(Blocks) /\ Len(Done(s, g, N)) = N
        /\ \A i \in 1..N : Done(s, g, N)[i] = [arm |-> s[i][1], from |-> g[i - 1], to |-> g[i]]
    BY <1>2, <2>1, <2>2, DoneIs, Zenon
  <2> QED BY <1>3, <2>3
<1> HIDE DEF runs
<1>5. DOMAIN runs = 1..N /\ runs # <<>>
  BY <1>1, <1>4, EmptySeq
<1>6. ASSUME NEW i \in 1..N PROVE IsBlock(names, runs[i])
  <2> DEFINE h == [n \in ActionNames |-> n]
             part == split_action(names, s, i)
  <2>1. h \in [ActionNames -> ActionNames]
    OBVIOUS
  <2>2. names = Through(h, s)
    <3>1. names \in Seq(ActionNames)
      BY <1>2 DEF Stretch
    <3> HIDE DEF names
    <3>2. \A q \in DOMAIN names : names[q] \in ActionNames
      BY <3>1
    <3>3. \A q \in DOMAIN names : h[names[q]] = names[q]
      BY <3>2
    <3>4. names = [q \in DOMAIN names |-> names[q]]
      BY <3>1
    <3> HIDE DEF h
    <3> QED BY <3>3, <3>4 DEF names, Through
  <2>3. s[i] \in Crew \X BOOLEAN /\ s[i][1] \in Crew /\ s[i][2] \in BOOLEAN
    BY <1>1
  <2>4. /\ LayoutOf(s[i]) \in Seq(ActionNames) /\ Len(LayoutOf(s[i])) = Width(s[i])
    BY <2>3, LayoutOfIs
  <2> HIDE DEF h
  <2>5. /\ part \in Seq(ActionNames) /\ Len(part) = Width(s[i])
        /\ \A j \in 1..Width(s[i]) : part[j] = h[LayoutOf(s[i])[j]]
    <3>1. i \in 1..Len(s) /\ s \in Seq(Crew \X BOOLEAN)
      BY <1>1
    <3>2. IsSlice(split_action(Through(h, s), s, i), s[i], ActionNames, h)
      BY <2>1, <3>1, SliceIs
    <3> QED BY <2>2, <3>2 DEF part, IsSlice
  <2>6. part = SubSeq(names, g[i - 1] + 1, g[i])
    BY <1>2 DEF Stretch
  <2> HIDE DEF part
  <2>7. \A j \in 1..Width(s[i]) : part[j] = LayoutOf(s[i])[j]
    <3> TAKE j \in 1..Width(s[i])
    <3>1. LayoutOf(s[i])[j] \in ActionNames
      BY <2>4, ElementOfSeq
    <3> QED BY <2>5, <3>1 DEF h
  <2>8. part = LayoutOf(s[i])
    BY <2>4, <2>5, <2>7, SeqEqual
  <2>9. runs[i].arm = s[i][1] /\ runs[i].from = g[i - 1] /\ runs[i].to = g[i]
    <3>1. runs[i] = [arm |-> s[i][1], from |-> g[i - 1], to |-> g[i]]
      BY <1>4
    <3> QED BY <3>1
  <2>10. SubSeq(names, runs[i].from + 1, runs[i].to) = arm_action_names(runs[i].arm, s[i][2])
    BY <2>6, <2>8, <2>9 DEF LayoutOf
  <2> QED BY <2>3, <2>10 DEF IsBlock
<1>7. \A i \in 1..N : runs[i].arm = s[i][1]
  <2> TAKE i \in 1..N
  <2>1. runs[i] = [arm |-> s[i][1], from |-> g[i - 1], to |-> g[i]]
    BY <1>4
  <2> QED BY <2>1
<1>8. \A i, j \in DOMAIN runs : runs[i].arm = runs[j].arm => i = j
  BY <1>1, <1>5, <1>7
<1>9. parse_action_names(names) = runs
  BY <1>5, <1>6, <1>8, Zenon DEF parse_action_names, runs
<1> QED BY <1>5, <1>7, <1>9

(* The arms that are in a recording. *)
LEMMA RecordedAre ==
  ASSUME NEW s \in Layouts, NEW a
  PROVE  Recorded(Laid(s), a) <=> \E i \in 1..Len(s) : s[i][1] = a
<1> DEFINE names == Laid(s)
<1>1. s \in Seq(Crew \X BOOLEAN)
  BY LayoutsAre
<1>2. \A i \in 1..Len(s) : \A j \in 1..Width(s[i]) : LayoutOf(s[i])[j] \in ToSet(names)
  BY <1>1, LaidHas
<1>3. \A p \in DOMAIN names : \E i \in 1..Len(s) : names[p][1] = s[i][1]
  BY <1>1, LaidHas
<1>4. ASSUME NEW i \in 1..Len(s), s[i][1] = a PROVE Recorded(names, a)
  <2>1. s[i] \in Crew \X BOOLEAN
    BY <1>1
  <2>2. 1 \in 1..Width(s[i]) /\ LayoutOf(s[i])[1] = <<s[i][1], "x">>
    BY <2>1, LayoutOfIs
  <2>3. PICK p \in DOMAIN names : names[p] = <<a, "x">>
    BY <1>2, <1>4, <2>2 DEF ToSet
  <2> QED BY <2>3 DEF Recorded
<1>5. Recorded(names, a) => \E i \in 1..Len(s) : s[i][1] = a
  BY <1>3 DEF Recorded
<1> QED BY <1>4, <1>5

(* A replayed row gives each arm of the session what is due to it. *)
LEMMA RowsAreDue ==
  ASSUME NEW s0 \in Layouts, NEW s \in Layouts, NEW i \in 1..Len(s)
  PROVE  split_action(ReplayActionSource(Laid(s0), s), s, i) = Due(Laid(s0), s[i][1], s[i][2])
<1> DEFINE names == Laid(s0)
           driven == Driven(parse_action_names(names), s)
           V == ActionNames \cup {NoValue, Holds}
           h == [n \in ActionNames |-> Cell(names, driven, n)]
           row == ReplayActionSource(names, s)
           part == split_action(row, s, i)
           a == s[i][1]
           due == Due(names, a, s[i][2])
           w == Width(s[i])
<1>1. /\ s0 \in Seq(Crew \X BOOLEAN) /\ s \in Seq(Crew \X BOOLEAN) /\ DOMAIN s = 1..Len(s)
      /\ s[i] \in Crew \X BOOLEAN /\ a \in Crew /\ s[i][2] \in BOOLEAN
  BY LayoutsAre
<1>2. \A b : b \in driven <=> Recorded(names, b) /\ \E k \in 1..Len(s) : s[k][1] = b
  <2>1. \A b : Recorded(names, b) <=> \E k \in DOMAIN parse_action_names(names) :
                                        parse_action_names(names)[k].arm = b
    <3> TAKE b
    <3>1. Recorded(names, b) <=> \E k \in 1..Len(s0) : s0[k][1] = b
      BY RecordedAre
    <3>2. (\E k \in DOMAIN parse_action_names(names) : parse_action_names(names)[k].arm = b)
            <=> \E k \in 1..Len(s0) : s0[k][1] = b
      BY WholeIsAccepted
    <3> QED BY <3>1, <3>2
  <2> HIDE DEF names
  <2> QED BY <1>1, <2>1 DEF Driven
<1>3. a \in driven <=> Recorded(names, a)
  BY <1>2
<1>4. Recorded(names, a) => <<a, "x">> \in ToSet(names) /\ <<a, "y">> \in ToSet(names)
  <2> SUFFICES ASSUME Recorded(names, a)
               PROVE  <<a, "x">> \in ToSet(names) /\ <<a, "y">> \in ToSet(names)
    OBVIOUS
  <2>1. PICK k \in 1..Len(s0) : s0[k][1] = a
    BY RecordedAre
  <2>2. s0[k] \in Crew \X BOOLEAN
    BY <1>1
  <2>3. /\ 1 \in 1..Width(s0[k]) /\ 2 \in 1..Width(s0[k])
        /\ LayoutOf(s0[k])[1] = <<a, "x">> /\ LayoutOf(s0[k])[2] = <<a, "y">>
    BY <2>1, <2>2, LayoutOfIs
  <2> QED BY <1>1, <2>3, LaidHas
<1>5. Laid(s) \in Seq(ActionNames)
  <2>1. PICK g : Stretch(s, g)
    BY <1>1, LaidOut
  <2> QED BY <2>1 DEF Stretch
<1>6. h \in [ActionNames -> V]
  <2>1. \A n \in ActionNames : Cell(names, driven, n) \in V
    BY DEF Cell
  <2> QED BY <2>1
<1>7. row = Through(h, s)
  <2>1. \A q \in DOMAIN Laid(s) : Laid(s)[q] \in ActionNames
    BY <1>5
  <2>2. \A q \in DOMAIN Laid(s) : h[Laid(s)[q]] = Cell(names, driven, Laid(s)[q])
    BY <2>1
  <2>3. row = [q \in DOMAIN Laid(s) |-> Cell(names, driven, Laid(s)[q])]
    BY DEF ReplayActionSource
  <2> HIDE DEF h, row
  <2> QED BY <2>2, <2>3 DEF Through
<1> HIDE DEF row
<1>8. /\ part \in Seq(V) /\ Len(part) = w /\ \A j \in 1..w : part[j] = h[LayoutOf(s[i])[j]]
  <2> HIDE DEF V, h
  <2>1. IsSlice(split_action(Through(h, s), s, i), s[i], V, h)
    BY <1>1, <1>6, SliceIs
  <2> QED BY <1>7, <2>1 DEF IsSlice
<1>9. /\ LayoutOf(s[i]) \in Seq(ActionNames) /\ Len(LayoutOf(s[i])) = w
      /\ w \in {2, 3} /\ w = (IF s[i][2] THEN 3 ELSE 2)
      /\ LayoutOf(s[i])[1] = <<a, "x">> /\ LayoutOf(s[i])[2] = <<a, "y">>
      /\ s[i][2] => LayoutOf(s[i])[3] = <<a, "rail">>
      /\ \A j \in 1..w : LayoutOf(s[i])[j][1] = a
  BY <1>1, LayoutOfIs
<1> HIDE DEF part, w, driven
<1>10. \A j \in 1..w : /\ LayoutOf(s[i])[j] \in ActionNames
                       /\ part[j] = Cell(names, driven, LayoutOf(s[i])[j])
  <2>1. \A j \in 1..w : LayoutOf(s[i])[j] \in ActionNames
    BY <1>9, ElementOfSeq
  <2> QED BY <1>8, <2>1
<1>11. CASE ~Recorded(names, a)
  <2>1. due = [j \in DOMAIN arm_action_names(a, s[i][2]) |-> NoValue]
    BY <1>11 DEF Due
  <2>2. arm_action_names(a, s[i][2]) = LayoutOf(s[i])
    BY DEF LayoutOf
  <2>3. due = [j \in 1..w |-> NoValue]
    BY <1>9, <2>1, <2>2
  <2>4. w \in Nat /\ NoValue \in V
    BY <1>9
  <2> HIDE DEF due, V, names
  <2>5. due \in Seq(V) /\ Len(due) = w /\ \A j \in 1..w : due[j] = NoValue
    BY <2>3, <2>4
  <2>6. \A j \in 1..w : part[j] = NoValue
    BY <1>3, <1>9, <1>10, <1>11 DEF Cell
  <2>7. part = due
    BY <1>8, <2>5, <2>6, SeqEqual
  <2> QED BY <2>7 DEF due, part, row, names
<1>12. CASE Recorded(names, a)
  <2> DEFINE x == <<a, "x">>
             y == <<a, "y">>
             r == <<a, "rail">>
             z == IF r \in ToSet(names) THEN r ELSE Holds
  <2>1. x \in V /\ y \in V /\ z \in V
    BY <1>1 DEF ActionNames, ActionDims
  <2>2. part[1] = x /\ part[2] = y
    <3>1. 1 \in 1..w /\ 2 \in 1..w
      BY <1>9
    <3> QED BY <1>3, <1>4, <1>9, <1>10, <1>12, <3>1 DEF Cell
  <2>3. CASE ~s[i][2]
    <3>1. due = <<x, y>> \o <<>>
      BY <1>12, <2>3 DEF Due
    <3>2. w = 2
      BY <1>9, <2>3
    <3> HIDE DEF due, V, x, y
    <3>3. <<x, y>> \in Seq(V) /\ Len(<<x, y>>) = 2 /\ <<x, y>>[1] = x /\ <<x, y>>[2] = y
      BY <2>1
    <3>4. due = <<x, y>>
      BY <3>1, <3>3, ConcatEmptySeq
    <3>5. due \in Seq(V) /\ Len(due) = Len(part)
      BY <1>8, <3>2, <3>3, <3>4
    <3>6. \A j \in 1..Len(part) : part[j] = due[j]
      <4>1. Len(part) = 2 /\ \A j \in 1..2 : j = 1 \/ j = 2
        BY <1>8, <3>2
      <4> QED BY <2>2, <3>3, <3>4, <4>1
    <3>7. part = due
      BY <1>8, <3>5, <3>6, SeqEqual
    <3> QED BY <3>7 DEF due, part, row, names
  <2>4. CASE s[i][2]
    <3>1. due = <<x, y>> \o <<z>>
      BY <1>12, <2>4 DEF Due
    <3>2. w = 3
      BY <1>9, <2>4
    <3>3. part[3] = z
      <4>1. 3 \in 1..w
        BY <3>2
      <4> QED BY <1>3, <1>9, <1>10, <1>12, <2>4, <4>1 DEF Cell
    <3> HIDE DEF due, V, x, y, z
    <3>4. /\ <<x, y>> \in Seq(V) /\ Len(<<x, y>>) = 2 /\ <<x, y>>[1] = x /\ <<x, y>>[2] = y
          /\ <<z>> \in Seq(V) /\ Len(<<z>>) = 1 /\ <<z>>[1] = z
      BY <2>1
    <3>5. /\ due \in Seq(V) /\ Len(due) = Len(<<x, y>>) + Len(<<z>>)
          /\ \A j \in 1..(Len(<<x, y>>) + Len(<<z>>)) :
               due[j] = IF j <= Len(<<x, y>>) THEN <<x, y>>[j] ELSE <<z>>[j - Len(<<x, y>>)]
      BY <3>1, <3>4, ConcatProperties
    <3>6. Len(due) = 3 /\ due[1] = x /\ due[2] = y /\ due[3] = z
      BY <3>4, <3>5
    <3>7. \A j \in 1..Len(part) : part[j] = due[j]
      <4>1. Len(part) = 3 /\ \A j \in 1..3 : j = 1 \/ j = 2 \/ j = 3
        BY <1>8, <3>2
      <4> QED BY <2>2, <3>3, <3>6, <4>1
    <3>8. Len(due) = Len(part)
      BY <1>8, <3>2, <3>6
    <3>9. part = due
      BY <1>8, <3>5, <3>7, <3>8, SeqEqual
    <3> QED BY <3>9 DEF due, part, row, names
  <2> QED BY <1>1, <2>3, <2>4
<1> QED BY <1>11, <1>12

(* All of it. *)
LEMMA ActionColumns ==
  ASSUME NEW names \in Seq(ActionNames)
  PROVE  /\ (parse_action_names(names) # <<>>) <=> WholeLayouts(names)
         /\ WholeLayouts(names) =>
              \A s \in Layouts : \A i \in DOMAIN s :
                split_action(ReplayActionSource(names, s), s, i) = Due(names, s[i][1], s[i][2])
<1>1. parse_action_names(names) # <<>> => WholeLayouts(names)
  BY AcceptedIsWhole
<1>2. WholeLayouts(names) => parse_action_names(names) # <<>>
  BY WholeIsAccepted DEF WholeLayouts
<1>3. ASSUME WholeLayouts(names), NEW s \in Layouts, NEW i \in DOMAIN s
      PROVE  split_action(ReplayActionSource(names, s), s, i) = Due(names, s[i][1], s[i][2])
  <2>1. PICK s0 \in Layouts : names = Laid(s0)
    BY <1>3 DEF WholeLayouts
  <2>2. i \in 1..Len(s)
    BY LayoutsAre
  <2> QED BY <2>1, <2>2, RowsAreDue
<1> QED BY <1>1, <1>2, <1>3

(***************************************************************************)
(* The measured state's columns.                                           *)
(***************************************************************************)
AtPass(names, n) == [p \in (1..Len(names)) \X Nat |-> IF names[p[1]] = n THEN p[1] ELSE p[2]]
Seeks(f, names, n) ==
  /\ f[0] = 0 /\ ColumnOf(names, n) = f[Len(names)]
  /\ \A k \in 1..Len(names) : f[k] = IF names[k] = n THEN k ELSE f[k - 1]

(* ColumnOf is the end of a run of its loop, and so is Named below. *)
LEMMA AtLoop ==
  ASSUME NEW names, Len(names) \in Nat, NEW n
  PROVE  \E f : Seeks(f, names, n)
<1> DEFINE N == Len(names)
           Body(f) == [i \in 0..N |-> IF i = 0 THEN 0 ELSE IF names[i] = n THEN i ELSE f[i - 1]]
           upto == CHOOSE f : f = Body(f)
<1>1. N \in Nat
  OBVIOUS
<1>2. AtPass(names, n) \in [(1..N) \X Nat -> Nat]
  BY DEF AtPass
<1>3. PICK f \in [0..N -> Nat] :
        f[0] = 0 /\ \A k \in 1..N : f[k] = AtPass(names, n)[<<k, f[k - 1]>>]
  <2>1. 0 \in Nat
    OBVIOUS
  <2>2. HasRun(N, Nat, 0, AtPass(names, n))
    BY <1>1, <1>2, <2>1, LoopRuns
  <2> QED
    BY <2>2, Zenon DEF HasRun
<1>4. ASSUME NEW k \in 1..N
      PROVE  f[k] = IF names[k] = n THEN k ELSE f[k - 1]
  <2>1. k - 1 \in 0..N
    BY <1>1
  <2> QED
    BY <1>3, <2>1 DEF AtPass
<1>5. f = Body(f)
  <2>1. \A k \in 0..N : k = 0 \/ k \in 1..N
    BY <1>1
  <2>2. \A k \in 0..N : f[k] = IF k = 0 THEN 0 ELSE IF names[k] = n THEN k ELSE f[k - 1]
    BY <1>3, <1>4, <2>1, Zenon
  <2> QED BY <1>3, <2>2
<1>6. upto = Body(upto)
  BY <1>5, Zenon
<1>7. ColumnOf(names, n) = upto[N]
  BY DEF ColumnOf
<1>8. upto[0] = 0 /\ \A k \in 1..N : upto[k] = IF names[k] = n THEN k ELSE upto[k - 1]
  <2> HIDE DEF upto
  <2>1. 0 \in 0..N /\ \A k \in 1..N : k \in 0..N /\ k # 0
    BY <1>1
  <2> QED
    BY <1>6, <2>1, Zenon
<1> QED
  <2> HIDE DEF upto
  <2> QED BY <1>7, <1>8 DEF Seeks

(* The place of a name: where it is, or nowhere. *)
LEMMA AtIs ==
  ASSUME NEW X, NEW names \in Seq(X), NEW n
  PROVE  /\ ColumnOf(names, n) \in 0..Len(names)
         /\ ColumnOf(names, n) # 0 => names[ColumnOf(names, n)] = n
         /\ ColumnOf(names, n) = 0 <=> n \notin ToSet(names)
<1> DEFINE N == Len(names)
           Known(f, k) == /\ f[k] \in 0..k
                          /\ f[k] # 0 => names[f[k]] = n
                          /\ f[k] = 0 => \A i \in 1..k : names[i] # n
<1>1. N \in Nat /\ DOMAIN names = 1..N
  OBVIOUS
<1>2. PICK f : Seeks(f, names, n)
  BY <1>1, AtLoop
<1> DEFINE T == {k \in Nat : k <= N => Known(f, k)}
<1>3. 0 \in T
  <2>1. f[0] = 0 /\ \A i \in 1..0 : FALSE
    BY <1>2 DEF Seeks
  <2> QED BY <2>1
<1>4. ASSUME NEW k \in Nat, k \in T PROVE k + 1 \in T
  <2> SUFFICES ASSUME k + 1 <= N PROVE Known(f, k + 1)
    OBVIOUS
  <2>1. k + 1 \in 1..N /\ (k + 1) - 1 = k
    BY <1>1
  <2>2. f[k + 1] = IF names[k + 1] = n THEN k + 1 ELSE f[k]
    BY <1>2, <2>1 DEF Seeks
  <2>3. Known(f, k)
    BY <1>1, <1>4
  <2>4. CASE names[k + 1] = n
    BY <2>2, <2>4
  <2>5. CASE names[k + 1] # n
    <3>1. f[k + 1] = f[k]
      BY <2>2, <2>5
    <3>2. \A i \in 1..(k + 1) : i \in 1..k \/ i = k + 1
      OBVIOUS
    <3>3. f[k + 1] \in 0..(k + 1)
      BY <2>3, <3>1
    <3> QED BY <2>3, <2>5, <3>1, <3>2, <3>3
  <2> QED BY <2>4, <2>5
<1>5. N \in T
  <2> HIDE DEF T
  <2> QED BY <1>1, <1>3, <1>4, NatSetInduction
<1>6. Known(f, N) /\ ColumnOf(names, n) = f[N]
  BY <1>1, <1>2, <1>5 DEF Seeks
<1>7. f[N] # 0 => n \in ToSet(names)
  <2> SUFFICES ASSUME f[N] # 0 PROVE n \in ToSet(names)
    OBVIOUS
  <2>1. f[N] \in 1..N /\ names[f[N]] = n
    BY <1>1, <1>6
  <2> QED BY <1>1, <2>1 DEF ToSet
<1>8. f[N] = 0 => n \notin ToSet(names)
  BY <1>1, <1>6 DEF ToSet
<1> QED BY <1>6, <1>7, <1>8

(* The arms of a measured state. *)
NamesArm(n) == n # Foreign /\ n[2] # "tcp"
NotePass(names) == [p \in (1..Len(names)) \X Seq(Crew) |-> note(p[2], names[p[1]])]
Notes(f, names) ==
  /\ f[0] = <<>> /\ Named(names) = f[Len(names)]
  /\ \A k \in 1..Len(names) : f[k] = note(f[k - 1], names[k])

LEMMA NoteTyped ==
  ASSUME NEW arms \in Seq(Crew), NEW n \in StateNames
  PROVE  note(arms, n) \in Seq(Crew) /\ (NamesArm(n) => n[1] \in Crew)
<1>1. n = Foreign \/ n[1] \in Crew
  BY DEF StateNames
<1> QED BY <1>1, AppendProperties DEF note, NamesArm

LEMMA NamedLoop ==
  ASSUME NEW names \in Seq(StateNames)
  PROVE  \E f \in [0..Len(names) -> Seq(Crew)] : Notes(f, names)
<1> DEFINE N == Len(names)
           X == Seq(Crew)
           Body(f) == [i \in 0..N |-> IF i = 0 THEN <<>> ELSE note(f[i - 1], names[i])]
           upto == CHOOSE f : f = Body(f)
<1>1. N \in Nat /\ \A k \in 1..N : names[k] \in StateNames
  OBVIOUS
<1>2. NotePass(names) \in [(1..N) \X X -> X]
  <2>1. ASSUME NEW p \in (1..N) \X X
        PROVE  note(p[2], names[p[1]]) \in X
    BY <1>1, NoteTyped
  <2> QED BY <2>1 DEF NotePass
<1>3. PICK f \in [0..N -> X] :
        f[0] = <<>> /\ \A k \in 1..N : f[k] = NotePass(names)[<<k, f[k - 1]>>]
  <2>1. <<>> \in X
    OBVIOUS
  <2>2. HasRun(N, X, <<>>, NotePass(names))
    BY <1>1, <1>2, <2>1, LoopRuns
  <2> QED
    BY <2>2, Zenon DEF HasRun
<1>4. ASSUME NEW k \in 1..N
      PROVE  f[k] = note(f[k - 1], names[k])
  <2>1. k - 1 \in 0..N
    BY <1>1
  <2> QED
    BY <1>3, <2>1 DEF NotePass
<1>5. f = Body(f)
  <2>1. \A k \in 0..N : k = 0 \/ k \in 1..N
    BY <1>1
  <2>2. \A k \in 0..N : f[k] = IF k = 0 THEN <<>> ELSE note(f[k - 1], names[k])
    BY <1>3, <1>4, <2>1, Zenon
  <2> QED BY <1>3, <2>2
<1>6. upto = Body(upto)
  BY <1>5, Zenon
<1>7. Named(names) = upto[N]
  BY DEF Named
<1>8. upto[0] = <<>> /\ \A k \in 1..N : upto[k] = note(upto[k - 1], names[k])
  <2> HIDE DEF upto
  <2>1. 0 \in 0..N /\ \A k \in 1..N : k \in 0..N /\ k # 0
    BY <1>1
  <2> QED
    BY <1>6, <2>1, Zenon
<1>9. upto \in [0..N -> X]
  <2> DEFINE T == {k \in Nat : k <= N => upto[k] \in X}
  <2> HIDE DEF upto
  <2>1. 0 \in T
    <3>1. <<>> \in X
      OBVIOUS
    <3> QED BY <1>8, <3>1
  <2>2. ASSUME NEW k \in Nat, k \in T PROVE k + 1 \in T
    <3> SUFFICES ASSUME k + 1 <= N PROVE upto[k + 1] \in X
      OBVIOUS
    <3>1. k + 1 \in 1..N /\ (k + 1) - 1 = k /\ k <= N
      BY <1>1
    <3> QED BY <1>1, <1>8, <2>2, <3>1, NoteTyped
  <2>3. Nat \subseteq T
    <3> HIDE DEF T
    <3> QED BY <2>1, <2>2, NatSetInduction
  <2>4. upto = [i \in 0..N |-> upto[i]]
    <3> DEFINE u == [i \in 0..N |-> IF i = 0 THEN <<>> ELSE note(upto[i - 1], names[i])]
    <3>1. upto = u
      BY <1>6, Zenon
    <3>2. DOMAIN u = 0..N /\ u = [i \in 0..N |-> u[i]]
      OBVIOUS
    <3> HIDE DEF u
    <3> QED BY <3>1, <3>2
  <2>5. \A i \in 0..N : upto[i] \in X
    BY <1>1, <2>3
  <2> QED BY <2>4, <2>5
<1> QED
  <2> HIDE DEF upto
  <2> QED BY <1>7, <1>8, <1>9 DEF Notes

(* The arms of a measured state are those of its columns, each once. *)
Noted(arms, names, k) ==
  /\ arms \in Seq(Crew)
  /\ \A i, j \in 1..Len(arms) : arms[i] = arms[j] => i = j
  /\ \A a : (\E i \in 1..Len(arms) : arms[i] = a)
               <=> \E p \in 1..k : NamesArm(names[p]) /\ names[p][1] = a

(* A name more is noted. *)
LEMMA NoteKeeps ==
  ASSUME NEW names \in Seq(StateNames), NEW k \in Nat, k + 1 <= Len(names),
         NEW arms, Noted(arms, names, k)
  PROVE  Noted(note(arms, names[k + 1]), names, k + 1)
<1> DEFINE n == names[k + 1]
           more == note(arms, n)
           L == Len(arms)
<1>1. /\ arms \in Seq(Crew) /\ L \in Nat /\ DOMAIN arms = 1..L
      /\ \A i, j \in 1..L : arms[i] = arms[j] => i = j
  BY DEF Noted
<1>2. n \in StateNames
  OBVIOUS
<1>3. \A p \in 1..(k + 1) : p \in 1..k \/ p = k + 1
  OBVIOUS
<1>4. \A p \in 1..k : p \in 1..(k + 1)
  OBVIOUS
<1>5. \A a : (\E p \in 1..(k + 1) : NamesArm(names[p]) /\ names[p][1] = a)
               <=> \/ \E p \in 1..k : NamesArm(names[p]) /\ names[p][1] = a
                   \/ NamesArm(n) /\ n[1] = a
  <2>1. k + 1 \in 1..(k + 1)
    OBVIOUS
  <2> QED BY <1>3, <1>4, <2>1, Zenon
<1>6. Contains(arms, n[1]) <=> \E i \in 1..L : arms[i] = n[1]
  BY <1>1 DEF Contains
<1> HIDE DEF n
<1>7. CASE ~NamesArm(n) \/ Contains(arms, n[1])
  <2>1. more = arms
    BY <1>7 DEF note, NamesArm
  <2>2. \A a : (\E i \in 1..L : arms[i] = a)
                 <=> (\E p \in 1..k : NamesArm(names[p]) /\ names[p][1] = a)
    BY Zenon DEF Noted
  <2>3. \A a : (\E i \in 1..L : arms[i] = a)
                 <=> (\E p \in 1..(k + 1) : NamesArm(names[p]) /\ names[p][1] = a)
    BY <1>5, <1>6, <1>7, <2>2, Zenon
  <2> HIDE DEF more
  <2> QED BY <1>1, <2>1, <2>3, Zenon DEF Noted, more, n
<1>8. CASE NamesArm(n) /\ ~Contains(arms, n[1])
  <2>1. more = Append(arms, n[1])
    BY <1>8 DEF note, NamesArm
  <2>2. n[1] \in Crew
    BY <1>1, <1>2, <1>8, NoteTyped
  <2> DEFINE a0 == n[1]
  <2> HIDE DEF more, a0
  <2>3. /\ more \in Seq(Crew) /\ Len(more) = L + 1 /\ more[L + 1] = a0
        /\ \A i \in 1..L : more[i] = arms[i]
    BY <1>1, <2>1, <2>2, AppendProperties DEF a0
  <2>4. \A i \in 1..(L + 1) : i \in 1..L \/ i = L + 1
    BY <1>1
  <2>5. \A i \in 1..L : i \in 1..(L + 1)
    BY <1>1
  <2>6. \A i \in 1..L : arms[i] # a0
    BY <1>6, <1>8 DEF a0
  <2>7. \A i, j \in 1..(L + 1) : more[i] = more[j] => i = j
    BY <1>1, <2>3, <2>4, <2>6, Zenon
  <2>8. \A a : (\E i \in 1..(L + 1) : more[i] = a) <=> (\E i \in 1..L : arms[i] = a) \/ a0 = a
    <3>1. L + 1 \in 1..(L + 1)
      BY <1>1
    <3> QED BY <2>3, <2>4, <2>5, <3>1, Zenon
  <2>9. \A a : (\E i \in 1..L : arms[i] = a)
                 <=> (\E p \in 1..k : NamesArm(names[p]) /\ names[p][1] = a)
    BY Zenon DEF Noted
  <2>10. \A a : (\E i \in 1..(L + 1) : more[i] = a)
                 <=> (\E p \in 1..(k + 1) : NamesArm(names[p]) /\ names[p][1] = a)
    BY <1>5, <1>8, <2>8, <2>9, Zenon DEF a0
  <2>11. Len(more) = L + 1
    BY <2>3
  <2> QED BY <2>3, <2>7, <2>10, <2>11, Zenon DEF Noted, more, n
<1> QED BY <1>7, <1>8

(* So the arms named are those of the whole column. *)
LEMMA NamedIs ==
  ASSUME NEW names \in Seq(StateNames)
  PROVE  Noted(Named(names), names, Len(names))
<1> DEFINE N == Len(names)
<1>1. N \in Nat
  OBVIOUS
<1>2. PICK f \in [0..N -> Seq(Crew)] : Notes(f, names)
  BY NamedLoop
<1> DEFINE T == {k \in Nat : k <= N => Noted(f[k], names, k)}
<1>3. 0 \in T
  <2>1. f[0] = <<>>
    BY <1>2 DEF Notes
  <2>2. <<>> \in Seq(Crew) /\ Len(<<>>) = 0 /\ \A i \in 1..0 : FALSE
    OBVIOUS
  <2>3. Noted(<<>>, names, 0)
    BY <2>2 DEF Noted
  <2> QED BY <2>1, <2>3
<1>4. ASSUME NEW k \in Nat, k \in T PROVE k + 1 \in T
  <2> SUFFICES ASSUME k + 1 <= N PROVE Noted(f[k + 1], names, k + 1)
    OBVIOUS
  <2>1. k + 1 \in 1..N /\ (k + 1) - 1 = k
    BY <1>1
  <2>2. f[k + 1] = note(f[k], names[k + 1])
    BY <1>2, <2>1 DEF Notes
  <2>3. Noted(f[k], names, k)
    BY <1>1, <1>4
  <2>4. Noted(note(f[k], names[k + 1]), names, k + 1)
    BY <2>3, NoteKeeps
  <2> QED BY <2>2, <2>4
<1>5. N \in T
  <2> HIDE DEF T
  <2> QED BY <1>1, <1>3, <1>4, NatSetInduction
<1> QED BY <1>1, <1>2, <1>5 DEF Notes

(* What StatesAreNamed says of a column. *)
LEMMA StateColumns ==
  ASSUME columns.of = "state" => columns.names \in Seq(StateNames)
  PROVE  StatesAreNamed
<1> SUFFICES ASSUME columns.of = "state" PROVE StatesAreNamed
  BY DEF StatesAreNamed
<1> DEFINE names == columns.names
           named == Named(names)
           parsed == parse_state_names(names)
           arms == {n[1] : n \in {m \in ToSet(names) : m # Foreign /\ m[2] # "tcp"}}
           whole == \A a \in arms, j \in ToSet(Joints) : <<a, j>> \in ToSet(names)
           missing == \E i \in DOMAIN named, j \in ToSet(Joints) :
                        ColumnOf(names, <<named[i], j>>) = 0
           L == Len(named)
<1>1. names \in Seq(StateNames) /\ DOMAIN names = 1..Len(names)
  OBVIOUS
<1> HIDE DEF names
<1>2. /\ named \in Seq(Crew) /\ L \in Nat /\ DOMAIN named = 1..L
      /\ \A i, j \in 1..L : named[i] = named[j] => i = j
      /\ \A a : (\E i \in 1..L : named[i] = a)
           <=> \E p \in 1..Len(names) : NamesArm(names[p]) /\ names[p][1] = a
  <2>1. Noted(named, names, Len(names))
    BY <1>1, NamedIs
  <2> HIDE DEF named
  <2>2. named \in Seq(Crew)
    BY <2>1 DEF Noted
  <2>3. L \in Nat /\ DOMAIN named = 1..L
    BY <2>2
  <2> QED BY <2>1, <2>2, <2>3, Zenon DEF Noted
<1>3. \A a : a \in arms <=> \E p \in 1..Len(names) : NamesArm(names[p]) /\ names[p][1] = a
  BY <1>1 DEF ToSet, NamesArm
<1>4. \A a : a \in arms <=> \E i \in 1..L : named[i] = a
  BY <1>2, <1>3, Zenon
<1> HIDE DEF arms, named, L
<1>5. missing <=> ~whole
  <2>1. \A a, j : ColumnOf(names, <<a, j>>) = 0 <=> <<a, j>> \notin ToSet(names)
    BY <1>1, AtIs, Zenon
  <2>2. ASSUME missing PROVE ~whole
    <3>1. PICK i \in 1..L, j \in ToSet(Joints) : ColumnOf(names, <<named[i], j>>) = 0
      BY <1>2, <2>2
    <3>2. named[i] \in arms /\ <<named[i], j>> \notin ToSet(names)
      BY <1>4, <2>1, <3>1
    <3> QED BY <3>2
  <2>3. ASSUME ~whole PROVE missing
    <3>1. PICK a \in arms, j \in ToSet(Joints) : <<a, j>> \notin ToSet(names)
      BY <2>3
    <3>2. PICK i \in 1..L : named[i] = a
      BY <1>4
    <3>3. ColumnOf(names, <<named[i], j>>) = 0
      BY <2>1, <3>1, <3>2
    <3> QED BY <1>2, <3>3
  <2> HIDE DEF missing, whole
  <2> QED BY <2>2, <2>3
<1> DEFINE entry(i) == [arm |-> named[i],
             joints |-> [k \in DOMAIN Joints |-> ColumnOf(names, <<named[i], Joints[k]>>)],
             gripper |-> ColumnOf(names, <<named[i], "gripper">>),
             rail |-> ColumnOf(names, <<named[i], "rail">>),
             tcp |-> ColumnOf(names, <<named[i], "tcp">>)]
<1>6. parsed = IF missing THEN <<>> ELSE [i \in DOMAIN named |-> entry(i)]
  BY DEF parse_state_names, named
<1>7. (\E i \in 1..L : TRUE) <=> arms # {}
  BY <1>4, Zenon
<1>8. CASE missing
  <2>1. parsed = <<>> /\ DOMAIN parsed = {}
    <3> HIDE DEF missing, entry, parsed
    <3> QED BY <1>6, <1>8
  <2> QED BY <1>5, <1>8, <2>1 DEF StatesAreNamed, names, arms
<1>9. CASE ~missing
  <2>1. parsed = [i \in 1..L |-> entry(i)]
    BY <1>2, <1>6, <1>9
  <2>2. DOMAIN parsed = 1..L /\ \A i \in 1..L : parsed[i].arm = named[i]
    BY <2>1
  <2>3. \A i \in 1..L, k \in DOMAIN Joints :
          parsed[i].joints[k] = ColumnOf(names, <<named[i], Joints[k]>>)
    BY <2>1
  <2>4. Len(parsed) = L /\ (parsed # <<>> <=> arms # {})
    <3> DEFINE S == {parsed[i] : i \in 1..L}
    <3>1. parsed \in Seq(S) /\ Len(parsed) = L
      <4> HIDE DEF parsed, entry
      <4>1. parsed \in [1..L -> S]
        BY <2>1
      <4> HIDE DEF S
      <4> QED BY <1>2, <4>1
    <3> HIDE DEF S, parsed
    <3>2. parsed # <<>> <=> L # 0
      BY <3>1, EmptySeq
    <3>3. L # 0 <=> \E i \in 1..L : TRUE
      BY <1>2
    <3> QED BY <1>7, <3>1, <3>2, <3>3
  <2> HIDE DEF parsed
  <2>5. {parsed[i].arm : i \in DOMAIN parsed} = arms
    BY <1>4, <2>2
  <2>6. Len(parsed) = Cardinality(arms)
    <3>1. named \in Bijection(1..L, arms)
      BY <1>2, <1>4 DEF Bijection, Injection, IsInjective, Surjection
    <3>2. IsFiniteSet(1..L) /\ Cardinality(1..L) = L
      BY <1>2, FS_Interval
    <3>3. Cardinality(1..L) = Cardinality(arms)
      BY <3>1, <3>2, FS_Bijection DEF ExistsBijection
    <3> QED BY <2>4, <3>2, <3>3
  <2>7. \A i \in DOMAIN parsed, k \in DOMAIN Joints :
          names[parsed[i].joints[k]] = <<parsed[i].arm, Joints[k]>>
    <3> TAKE i \in DOMAIN parsed, k \in DOMAIN Joints
    <3> DEFINE n == <<named[i], Joints[k]>>
    <3>1. parsed[i].joints[k] = ColumnOf(names, n) /\ parsed[i].arm = named[i] /\ i \in 1..L
      BY <2>2, <2>3
    <3>2. ColumnOf(names, n) # 0
      <4>1. Joints[k] \in ToSet(Joints)
        BY DEF ToSet
      <4> QED BY <1>2, <1>9, <3>1, <4>1
    <3>3. names[ColumnOf(names, n)] = n
      <4> HIDE DEF n
      <4> QED BY <1>1, <3>2, AtIs
    <3> QED BY <3>1, <3>3
  <2>8. whole
    BY <1>5, <1>9
  <2> HIDE DEF whole
  <2>9. parsed # <<>> <=> (whole /\ arms # {})
    BY <2>4, <2>8
  <2> QED BY <2>5, <2>6, <2>7, <2>9 DEF StatesAreNamed, names, arms, parsed, whole
<1> QED BY <1>8, <1>9

(* A finite set of integers has a greatest. *)
HasMost(S) == \E x \in S : \A y \in S : y <= x

LEMMA MostExists ==
  ASSUME NEW S, IsFiniteSet(S), S \subseteq Int, S # {}
  PROVE  HasMost(S)
<1> DEFINE A == {n \in Nat : \A T \in SUBSET S : Cardinality(T) = n + 1 => HasMost(T)}
<1>1. \A T \in SUBSET S : IsFiniteSet(T) /\ Cardinality(T) \in Nat
  BY FS_Subset, FS_CardinalityType
<1>2. 0 \in A
  <2> SUFFICES ASSUME NEW T \in SUBSET S, Cardinality(T) = 1
               PROVE  HasMost(T)
    OBVIOUS
  <2>1. PICK x : T = {x}
    BY <1>1, FS_Singleton
  <2> QED BY <2>1 DEF HasMost
<1>3. ASSUME NEW n \in Nat, n \in A
      PROVE  n + 1 \in A
  <2> SUFFICES ASSUME NEW T \in SUBSET S, Cardinality(T) = n + 2
               PROVE  HasMost(T)
    OBVIOUS
  <2>1. PICK z \in T : TRUE
    <3>1. Cardinality({}) = 0
      BY FS_EmptySet
    <3>2. T # {}
      BY <3>1
    <3> QED BY <3>2
  <2>2. Cardinality(T \ {z}) = n + 1
    BY <1>1, <2>1, FS_RemoveElement
  <2>3. HasMost(T \ {z})
    BY <1>3, <2>2
  <2>4. PICK x \in T \ {z} : \A y \in T \ {z} : y <= x
    BY <2>3 DEF HasMost
  <2>5. x \in Int /\ z \in Int /\ \A y \in T : y \in Int
    BY <2>1
  <2>6. CASE z <= x
    BY <2>4, <2>5, <2>6 DEF HasMost
  <2>7. CASE x <= z
    BY <2>1, <2>4, <2>5, <2>7 DEF HasMost
  <2> QED BY <2>5, <2>6, <2>7
<1>4. Nat \subseteq A
  <2> HIDE DEF A
  <2> QED BY <1>2, <1>3, NatSetInduction
<1>5. Cardinality(S) - 1 \in Nat /\ Cardinality(S) = (Cardinality(S) - 1) + 1
  BY <1>1, FS_EmptySet
<1> QED
  BY <1>4, <1>5

(* Max chooses it. *)
LEMMA MaxIs ==
  ASSUME NEW S, IsFiniteSet(S), S \subseteq Int, S # {}
  PROVE  Max(S) \in S /\ \A y \in S : y <= Max(S)
<1>1. PICK x \in S : \A y \in S : y <= x
  BY MostExists DEF HasMost
<1>2. x \in S /\ \A y \in S : x >= y
  BY <1>1
<1>3. Max(S) \in S /\ \A y \in S : Max(S) >= y
  BY <1>2, Zenon DEF Max
<1> QED BY <1>3

LEMMA MaxOfThree ==
  ASSUME NEW x \in Int, NEW y \in Int, NEW z \in Int
  PROVE  /\ Max({x, y, z}) \in {x, y, z}
         /\ x <= Max({x, y, z}) /\ y <= Max({x, y, z}) /\ z <= Max({x, y, z})
<1>1. IsFiniteSet({x, y, z})
  <2>1. IsFiniteSet({x})
    BY FS_Singleton
  <2>2. IsFiniteSet({x} \cup {y})
    BY <2>1, FS_AddElement
  <2>3. IsFiniteSet(({x} \cup {y}) \cup {z})
    BY <2>2, FS_AddElement
  <2>4. ({x} \cup {y}) \cup {z} = {x, y, z}
    OBVIOUS
  <2> QED BY <2>3, <2>4
<1>2. {x, y, z} \subseteq Int /\ {x, y, z} # {}
  OBVIOUS
<1> DEFINE S == {x, y, z}
<1>3. x \in S /\ y \in S /\ z \in S
  OBVIOUS
<1>4. Max(S) \in S /\ \A w \in S : w <= Max(S)
  <2> HIDE DEF S
  <2> QED BY <1>1, <1>2, MaxIs DEF S
<1> QED BY <1>3, <1>4

(* What is used of division and of products. *)
LEMMA DivIs ==
  ASSUME NEW a \in Int, NEW n \in Nat \ {0}
  PROVE  a \div n \in Int /\ n * (a \div n) <= a /\ a < n * (a \div n) + n
  OBVIOUS

LEMMA TimesMono ==
  ASSUME NEW n \in Nat, NEW u \in Int, NEW v \in Int, u <= v
  PROVE  n * u <= n * v
  OBVIOUS

(* The distance is within n ticks exactly when it is within n caps. *)
LEMMA WithinTicks ==
  ASSUME NEW cap \in Nat \ {0}, NEW d \in Int, NEW n \in Nat
  PROVE  /\ TicksAt(cap, d) \in Nat
         /\ TicksAt(cap, d) <= n <=> AbsVal(d) <= cap * n
<1> DEFINE b == AbsVal(d)
           m == (b + cap - 1) \div cap
<1>1. b \in Nat
  BY DEF AbsVal
<1>2. b + cap - 1 \in Int
  BY <1>1
<1>3. m \in Int /\ cap * m <= b + cap - 1 /\ b + cap - 1 < cap * m + cap
  <2> DEFINE w == b + cap - 1
  <2> HIDE DEF w, b
  <2>1. w \div cap \in Int /\ cap * (w \div cap) <= w /\ w < cap * (w \div cap) + cap
    BY <1>2, DivIs DEF w
  <2> QED BY <2>1 DEF w
<1> HIDE DEF m, b
<1>4. 0 <= m
  <2> SUFFICES ASSUME m <= -1 PROVE FALSE
    BY <1>3
  <2>1. cap * m <= cap * (-1)
    BY <1>3, TimesMono
  <2> QED BY <1>1, <1>3, <2>1
<1>5. ASSUME m <= n PROVE b <= cap * n
  <2>1. cap * m <= cap * n
    BY <1>3, <1>5, TimesMono
  <2>2. cap * m \in Int /\ cap * n \in Int
    BY <1>3
  <2> QED BY <1>1, <1>3, <2>1, <2>2
<1>6. ASSUME b <= cap * n PROVE m <= n
  <2> SUFFICES ASSUME n + 1 <= m PROVE FALSE
    BY <1>3
  <2>1. cap * (n + 1) <= cap * m
    BY <1>3, TimesMono
  <2>2. cap * (n + 1) = cap * n + cap
    OBVIOUS
  <2>3. cap * m \in Int /\ cap * n \in Int
    BY <1>3
  <2> QED BY <1>1, <1>3, <1>6, <2>1, <2>2, <2>3
<1> QED BY <1>3, <1>4, <1>5, <1>6 DEF TicksAt, m, b

(* Consecutive parts of a way are no further apart than one of as many caps. *)
LEMMA PartSteps ==
  ASSUME NEW from \in Int, NEW to \in Int, NEW n \in Nat \ {0}, NEW i \in Nat, NEW cap \in Nat,
         AbsVal(to - from) <= cap * n
  PROVE  /\ Part(from, to, i, n) \in Int /\ Part(from, to, i + 1, n) \in Int
         /\ AbsVal(Part(from, to, i + 1, n) - Part(from, to, i, n)) <= cap
<1> DEFINE d == to - from
           A == d * i
           B == d * (i + 1)
           u == A \div n
           v == B \div n
<1>1. d \in Int /\ A \in Int /\ B \in Int /\ B = A + d
  OBVIOUS
<1>2. -(cap * n) <= d /\ d <= cap * n /\ cap * n \in Int
  BY DEF AbsVal
<1> HIDE DEF d, A, B
<1>3. u \in Int /\ n * u <= A /\ A < n * u + n
  BY <1>1, DivIs
<1>4. v \in Int /\ n * v <= B /\ B < n * v + n
  BY <1>1, DivIs
<1>5. Part(from, to, i, n) = from + u /\ Part(from, to, i + 1, n) = from + v
  BY DEF Part, d, A, B
<1> HIDE DEF u, v
<1>6. v - u <= cap
  <2> SUFFICES ASSUME u + (cap + 1) <= v PROVE FALSE
    BY <1>3, <1>4
  <2>1. n * (u + (cap + 1)) <= n * v
    BY <1>3, <1>4, TimesMono
  <2>2. n * (u + (cap + 1)) = n * u + cap * n + n
    BY <1>3
  <2>3. n * u \in Int /\ n * v \in Int
    BY <1>3, <1>4
  <2> QED BY <1>1, <1>2, <1>3, <1>4, <2>1, <2>2, <2>3
<1>7. u - v <= cap
  <2> SUFFICES ASSUME v + (cap + 1) <= u PROVE FALSE
    BY <1>3, <1>4
  <2>1. n * (v + (cap + 1)) <= n * u
    BY <1>3, <1>4, TimesMono
  <2>2. n * (v + (cap + 1)) = n * v + cap * n + n
    BY <1>4
  <2>3. n * u \in Int /\ n * v \in Int
    BY <1>3, <1>4
  <2> QED BY <1>1, <1>2, <1>3, <1>4, <2>1, <2>2, <2>3
<1>8. (from + v) - (from + u) = v - u
  BY <1>3, <1>4
<1> QED BY <1>3, <1>4, <1>5, <1>6, <1>7, <1>8 DEF AbsVal

(* No part of a way is its start, and all of them its end. *)
LEMMA PartEnds ==
  ASSUME NEW from \in Int, NEW to \in Int, NEW n \in Nat \ {0}
  PROVE  Part(from, to, 0, n) = from /\ Part(from, to, n, n) = to
<1> DEFINE d == to - from
           q == (d * n) \div n
           z == (d * 0) \div n
<1>1. d \in Int /\ d * n \in Int /\ d * 0 = 0
  OBVIOUS
<1> HIDE DEF d
<1>2. q \in Int /\ n * q <= d * n /\ d * n < n * q + n
  BY <1>1, DivIs
<1>3. z \in Int /\ n * z <= 0 /\ 0 < n * z + n
  BY <1>1, DivIs
<1> HIDE DEF q, z
<1>4. q = d
  <2>1. ASSUME q + 1 <= d PROVE FALSE
    <3>1. n * (q + 1) <= n * d
      BY <1>1, <1>2, <2>1, TimesMono
    <3>2. n * (q + 1) = n * q + n /\ n * d = d * n
      BY <1>1, <1>2
    <3>3. n * q \in Int /\ n * d \in Int
      BY <1>1, <1>2
    <3> QED BY <1>1, <1>2, <3>1, <3>2, <3>3
  <2>2. ASSUME d + 1 <= q PROVE FALSE
    <3>1. n * (d + 1) <= n * q
      BY <1>1, <1>2, <2>2, TimesMono
    <3>2. n * (d + 1) = n * d + n /\ n * d = d * n
      BY <1>1, <1>2
    <3>3. n * q \in Int /\ n * d \in Int
      BY <1>1, <1>2
    <3> QED BY <1>1, <1>2, <3>1, <3>2, <3>3
  <2> QED BY <1>1, <1>2, <2>1, <2>2
<1>5. z = 0
  <2>1. ASSUME 1 <= z PROVE FALSE
    <3>1. n * 1 <= n * z
      BY <1>3, <2>1, TimesMono
    <3>2. n * 1 = n /\ n * z \in Int
      BY <1>3
    <3> QED BY <1>3, <3>1, <3>2
  <2>2. ASSUME z <= -1 PROVE FALSE
    <3>1. n * z <= n * (-1)
      BY <1>3, <2>2, TimesMono
    <3>2. n * (-1) = -n /\ n * z \in Int
      BY <1>3
    <3> QED BY <1>3, <3>1, <3>2
  <2> QED BY <1>3, <2>1, <2>2
<1>6. Part(from, to, n, n) = from + q /\ Part(from, to, 0, n) = from + z
  BY DEF Part, q, z, d
<1> QED BY <1>4, <1>5, <1>6 DEF d

(***************************************************************************)
(* Postures within one tick of each other, and the executor's step.        *)
(***************************************************************************)
WithinTick(p, q) == /\ TicksAt(JointCap, q[1] - p[1]) <= 1
                    /\ TicksAt(RailCap, q[2] - p[2]) <= 1

LEMMA PostureParts == \A p \in Posture : p[1] \in Int /\ p[2] \in Int /\ p = <<p[1], p[2]>>
BY DEF Posture

(* The step is to a posture, and to the goal itself when that is within a tick. *)
LEMMA TowardPosture ==
  ASSUME NEW p \in Posture, NEW q \in Posture
  PROVE  /\ Toward(p, q) \in Posture
         /\ WithinTick(p, q) => Toward(p, q) = q
<1> DEFINE j == TicksAt(JointCap, q[1] - p[1])
           r == TicksAt(RailCap, q[2] - p[2])
           n == Max({1, j, r})
<1>1. p[1] \in Int /\ p[2] \in Int /\ q[1] \in Int /\ q[2] \in Int /\ q = <<q[1], q[2]>>
  BY PostureParts
<1>2. j \in Nat /\ r \in Nat
  <2>1. q[1] - p[1] \in Int /\ q[2] - p[2] \in Int
    BY <1>1
  <2> QED BY <2>1, WithinTicks, PlaybackAssumption
<1> HIDE DEF j, r
<1>3. n \in {1, j, r} /\ 1 <= n /\ j <= n /\ r <= n
  BY <1>2, MaxOfThree
<1> HIDE DEF n
<1>4. n \in Nat \ {0}
  BY <1>2, <1>3
<1>5. Toward(p, q) = <<Part(p[1], q[1], 1, n), Part(p[2], q[2], 1, n)>>
  BY DEF Toward, Between, n, j, r
<1>6. Part(p[1], q[1], 1, n) \in Int /\ Part(p[2], q[2], 1, n) \in Int
  <2>1. \A x, y \in Int : Part(x, y, 1, n) \in Int
    <3> SUFFICES ASSUME NEW x \in Int, NEW y \in Int PROVE Part(x, y, 1, n) \in Int
      OBVIOUS
    <3>1. (y - x) * 1 \in Int
      OBVIOUS
    <3>2. ((y - x) * 1) \div n \in Int
      BY <1>4, <3>1, DivIs
    <3> QED BY <3>2 DEF Part
  <2> QED BY <1>1, <2>1
<1>7. Toward(p, q) \in Posture
  BY <1>5, <1>6 DEF Posture
<1>8. ASSUME WithinTick(p, q) PROVE Toward(p, q) = q
  <2>1. n = 1
    BY <1>2, <1>3, <1>8 DEF WithinTick, j, r
  <2>2. Part(p[1], q[1], 1, 1) = q[1] /\ Part(p[2], q[2], 1, 1) = q[2]
    BY <1>1, PartEnds
  <2> QED BY <1>1, <1>5, <2>1, <2>2
<1> QED BY <1>7, <1>8

(***************************************************************************)
(* The resampled path.                                                     *)
(***************************************************************************)
(* An episode that can be read, and where the carriages are held. *)
Legible(t, hold) == t \in Tapes /\ t.legible /\ hold \in [t.named -> Int]

LEMMA FramesTyped ==
  ASSUME NEW t, NEW hold, Legible(t, hold)
  PROVE  /\ IsFiniteSet(t.named) /\ Len(t.frames) \in Nat /\ 1 <= Len(t.frames)
         /\ \A a \in t.named : \A k \in 1..Len(t.frames) : Full(t, hold, a, k) \in Posture
<1>1. IsFiniteSet(t.named) /\ t.frames # <<>> /\ t.frames \in Seq([t.named -> Posture])
  BY PlaybackAssumption DEF Legible
<1>2. Len(t.frames) \in Nat /\ 1 <= Len(t.frames)
  BY <1>1, EmptySeq
<1>3. ASSUME NEW a \in t.named, NEW k \in 1..Len(t.frames)
      PROVE  Full(t, hold, a, k) \in Posture
  <2>1. t.frames[k] \in [t.named -> Posture]
    BY <1>1, ElementOfSeq
  <2>2. t.frames[k][a] \in Posture /\ t.frames[k][a][1] \in Int /\ hold[a] \in Int
    BY <2>1, PostureParts DEF Legible
  <2>3. <<t.frames[k][a][1], hold[a]>> \in Posture
    BY <2>2 DEF Posture
  <2> QED BY <2>2, <2>3 DEF Full
<1> QED BY <1>1, <1>2, <1>3

(* The ticks of a segment are enough for every arm, its joint and its carriage. *)
LEMMA StepsSuffice ==
  ASSUME NEW t, NEW hold, Legible(t, hold), NEW k \in 1..(Len(t.frames) - 1)
  PROVE  /\ StepsTo(t, hold, k) \in Nat \ {0}
         /\ \A a \in t.named :
              LET p == Full(t, hold, a, k)  q == Full(t, hold, a, k + 1) IN
              /\ AbsVal(q[1] - p[1]) <= JointCap * StepsTo(t, hold, k)
              /\ AbsVal(q[2] - p[2]) <= RailCap * StepsTo(t, hold, k)
<1> DEFINE ticks(a) == ticks_for(Full(t, hold, a, k), Full(t, hold, a, k + 1))
           T == {ticks(a) : a \in t.named}
           n == Max({PerFrame} \cup T)
<1>1. k \in 1..Len(t.frames) /\ k + 1 \in 1..Len(t.frames)
  BY FramesTyped
<1>2. \A a \in t.named :
        LET p == Full(t, hold, a, k)  q == Full(t, hold, a, k + 1) IN
        /\ ticks(a) \in Int
        /\ TicksAt(JointCap, q[1] - p[1]) <= ticks(a)
        /\ TicksAt(RailCap, q[2] - p[2]) <= ticks(a)
        /\ q[1] - p[1] \in Int /\ q[2] - p[2] \in Int
        /\ TicksAt(JointCap, q[1] - p[1]) \in Nat /\ TicksAt(RailCap, q[2] - p[2]) \in Nat
  <2> TAKE a \in t.named
  <2> DEFINE p == Full(t, hold, a, k)
             q == Full(t, hold, a, k + 1)
  <2>1. p \in Posture /\ q \in Posture
    BY <1>1, FramesTyped
  <2> HIDE DEF p, q
  <2>2. q[1] - p[1] \in Int /\ q[2] - p[2] \in Int
    BY <2>1, PostureParts
  <2>3. TicksAt(JointCap, q[1] - p[1]) \in Nat /\ TicksAt(RailCap, q[2] - p[2]) \in Nat
    BY <2>2, WithinTicks, PlaybackAssumption
  <2> DEFINE j == TicksAt(JointCap, q[1] - p[1])
             r == TicksAt(RailCap, q[2] - p[2])
  <2>4. Max({1, j, r}) \in {1, j, r} /\ j <= Max({1, j, r}) /\ r <= Max({1, j, r})
    <3>1. j \in Int /\ r \in Int
      BY <2>3
    <3> HIDE DEF j, r
    <3>2. \A x, y, z \in Int : /\ Max({x, y, z}) \in {x, y, z}
                               /\ y <= Max({x, y, z}) /\ z <= Max({x, y, z})
      BY MaxOfThree
    <3>3. 1 \in Int
      OBVIOUS
    <3> QED BY <3>1, <3>2, <3>3, Zenon
  <2>5. ticks(a) = Max({1, j, r})
    BY DEF ticks_for, p, q
  <2> HIDE DEF j, r
  <2>6. ticks(a) \in Int /\ j <= ticks(a) /\ r <= ticks(a)
    <3> HIDE DEF ticks
    <3> QED BY <2>3, <2>4, <2>5 DEF j, r
  <2> QED BY <2>2, <2>3, <2>6 DEF p, q, j, r
<1>3. IsFiniteSet({PerFrame} \cup T)
  <2>1. IsFiniteSet(t.named)
    BY FramesTyped
  <2>2. IsFiniteSet(T)
    <3> DEFINE f == [a \in t.named |-> ticks(a)]
    <3>1. f \in Surjection(t.named, T)
      BY DEF Surjection
    <3> HIDE DEF f, T
    <3> QED BY <2>1, <3>1, FS_Surjection DEF ExistsSurjection
  <2>3. IsFiniteSet({PerFrame})
    BY FS_Singleton
  <2> HIDE DEF T
  <2> QED BY <2>2, <2>3, FS_Union
<1>4. {PerFrame} \cup T \subseteq Int /\ {PerFrame} \cup T # {}
  <2> HIDE DEF ticks
  <2> QED BY <1>2, PlaybackAssumption
<1>5. n \in {PerFrame} \cup T /\ \A y \in {PerFrame} \cup T : y <= n
  <2> DEFINE U == {PerFrame} \cup T
  <2>1. Max(U) \in U /\ \A y \in U : y <= Max(U)
    <3> HIDE DEF U
    <3> QED BY <1>3, <1>4, MaxIs DEF U
  <2> QED BY <2>1
<1>6. n = StepsTo(t, hold, k)
  BY DEF StepsTo
<1>7. n \in Nat \ {0}
  <2>1. n \in Int /\ PerFrame <= n
    <3> HIDE DEF n, T
    <3> QED BY <1>4, <1>5
  <2> HIDE DEF n
  <2> QED BY <2>1, PlaybackAssumption
<1>8. ASSUME NEW a \in t.named
      PROVE  LET p == Full(t, hold, a, k)  q == Full(t, hold, a, k + 1) IN
             /\ AbsVal(q[1] - p[1]) <= JointCap * n
             /\ AbsVal(q[2] - p[2]) <= RailCap * n
  <2> DEFINE p == Full(t, hold, a, k)
             q == Full(t, hold, a, k + 1)
             dj == q[1] - p[1]
             dr == q[2] - p[2]
  <2>1. ticks(a) \in T
    OBVIOUS
  <2>2. ticks(a) <= n
    BY <1>5, <2>1
  <2>3. /\ ticks(a) \in Int /\ TicksAt(JointCap, dj) <= ticks(a) /\ TicksAt(RailCap, dr) <= ticks(a)
        /\ dj \in Int /\ dr \in Int
        /\ TicksAt(JointCap, dj) \in Nat /\ TicksAt(RailCap, dr) \in Nat
    BY <1>2
  <2> HIDE DEF dj, dr, ticks, n
  <2>4. TicksAt(JointCap, dj) <= n /\ TicksAt(RailCap, dr) <= n
    BY <1>7, <2>2, <2>3
  <2>5. n \in Nat
    BY <1>7
  <2>6. AbsVal(dj) <= JointCap * n
    BY <2>3, <2>4, <2>5, WithinTicks, PlaybackAssumption
  <2>7. AbsVal(dr) <= RailCap * n
    BY <2>3, <2>4, <2>5, WithinTicks, PlaybackAssumption
  <2> QED BY <2>6, <2>7 DEF dj, dr
<1> HIDE DEF n
<1> QED BY <1>6, <1>7, <1>8

(* The segment to the next frame: as many waypoints as it has ticks, each within a tick of the
   one before, the first of the frame it leaves, and the last is the frame itself. *)
SegmentFits(w, p, q, n) ==
  /\ w \in Seq(Posture) /\ Len(w) = n /\ w[n] = q /\ WithinTick(p, w[1])
  /\ \A i \in 1..(n - 1) : WithinTick(w[i], w[i + 1])

LEMMA SegmentIs ==
  ASSUME NEW t, NEW hold, Legible(t, hold), NEW k \in 1..(Len(t.frames) - 1), NEW a \in t.named
  PROVE  SegmentFits(Segment(t, hold, a, k), Full(t, hold, a, k), Full(t, hold, a, k + 1),
                     StepsTo(t, hold, k))
<1> DEFINE p == Full(t, hold, a, k)
           q == Full(t, hold, a, k + 1)
           n == StepsTo(t, hold, k)
           w == [i \in 1..n |-> Between(p, q, i, n)]
<1>1. p \in Posture /\ q \in Posture
  BY FramesTyped
<1>2. n \in Nat \ {0} /\ AbsVal(q[1] - p[1]) <= JointCap * n /\ AbsVal(q[2] - p[2]) <= RailCap * n
  BY StepsSuffice
<1>3. Segment(t, hold, a, k) = w
  BY DEF Segment
<1> HIDE DEF p, q, n
<1>4. p[1] \in Int /\ p[2] \in Int /\ q[1] \in Int /\ q[2] \in Int
      /\ p = <<p[1], p[2]>> /\ q = <<q[1], q[2]>>
  BY <1>1, PostureParts
<1>5. ASSUME NEW i \in Nat
      PROVE  /\ Between(p, q, i, n) \in Posture
             /\ WithinTick(Between(p, q, i, n), Between(p, q, i + 1, n))
  <2>1. /\ Part(p[1], q[1], i, n) \in Int /\ Part(p[1], q[1], i + 1, n) \in Int
        /\ AbsVal(Part(p[1], q[1], i + 1, n) - Part(p[1], q[1], i, n)) <= JointCap
    BY <1>2, <1>4, PartSteps, PlaybackAssumption
  <2>2. /\ Part(p[2], q[2], i, n) \in Int /\ Part(p[2], q[2], i + 1, n) \in Int
        /\ AbsVal(Part(p[2], q[2], i + 1, n) - Part(p[2], q[2], i, n)) <= RailCap
    BY <1>2, <1>4, PartSteps, PlaybackAssumption
  <2>3. TicksAt(JointCap, Part(p[1], q[1], i + 1, n) - Part(p[1], q[1], i, n)) <= 1
    <3> DEFINE e == Part(p[1], q[1], i + 1, n) - Part(p[1], q[1], i, n)
    <3>1. e \in Int /\ AbsVal(e) <= JointCap * 1 /\ 1 \in Nat
      BY <2>1, PlaybackAssumption
    <3> HIDE DEF e
    <3> QED BY <3>1, WithinTicks, PlaybackAssumption DEF e
  <2>4. TicksAt(RailCap, Part(p[2], q[2], i + 1, n) - Part(p[2], q[2], i, n)) <= 1
    <3> DEFINE e == Part(p[2], q[2], i + 1, n) - Part(p[2], q[2], i, n)
    <3>1. e \in Int /\ AbsVal(e) <= RailCap * 1 /\ 1 \in Nat
      BY <2>2, PlaybackAssumption
    <3> HIDE DEF e
    <3> QED BY <3>1, WithinTicks, PlaybackAssumption DEF e
  <2>5. Between(p, q, i, n) = <<Part(p[1], q[1], i, n), Part(p[2], q[2], i, n)>>
        /\ Between(p, q, i + 1, n) = <<Part(p[1], q[1], i + 1, n), Part(p[2], q[2], i + 1, n)>>
    BY DEF Between
  <2>6. Between(p, q, i, n) \in Posture
    BY <2>1, <2>2, <2>5 DEF Posture
  <2>7. WithinTick(Between(p, q, i, n), Between(p, q, i + 1, n))
    BY <2>3, <2>4, <2>5 DEF WithinTick
  <2> QED BY <2>6, <2>7
<1>6. Between(p, q, 0, n) = p /\ Between(p, q, n, n) = q
  BY <1>2, <1>4, PartEnds DEF Between
<1>7. w \in Seq(Posture) /\ Len(w) = n
  BY <1>2, <1>5
<1>8. w[n] = q /\ w[1] = Between(p, q, 1, n) /\ WithinTick(p, w[1])
  <2>1. n \in 1..n /\ 1 \in 1..n
    BY <1>2
  <2>2. WithinTick(Between(p, q, 0, n), Between(p, q, 0 + 1, n))
    BY <1>5
  <2>3. 0 + 1 = 1
    OBVIOUS
  <2> QED BY <1>6, <2>1, <2>2, <2>3
<1>9. ASSUME NEW i \in 1..(n - 1) PROVE WithinTick(w[i], w[i + 1])
  <2>1. i \in 1..n /\ i + 1 \in 1..n /\ i \in Nat
    BY <1>2
  <2>2. w[i] = Between(p, q, i, n) /\ w[i + 1] = Between(p, q, i + 1, n)
    BY <2>1
  <2> QED BY <1>5, <2>1, <2>2
<1> HIDE DEF w
<1> QED BY <1>3, <1>7, <1>8, <1>9 DEF SegmentFits, p, q, n

(* A path the executor follows a waypoint a tick, and where it leads. *)
GoodPath(w) ==
  /\ w \in Seq(Posture) /\ w # <<>>
  /\ \A i \in 1..(Len(w) - 1) : WithinTick(w[i], w[i + 1])
Leads(w, p) == GoodPath(w) /\ w[Len(w)] = p

LEMMA PathGrows ==
  ASSUME NEW w, NEW p, NEW q, NEW v, NEW n \in Nat \ {0}, Leads(w, p), SegmentFits(v, p, q, n)
  PROVE  Leads(w \o v, q) /\ Len(w \o v) = Len(w) + n
<1> DEFINE m == Len(w)
           u == w \o v
<1>1. /\ w \in Seq(Posture) /\ w # <<>> /\ w[m] = p
      /\ \A i \in 1..(m - 1) : WithinTick(w[i], w[i + 1])
      /\ v \in Seq(Posture) /\ Len(v) = n /\ v[n] = q /\ WithinTick(p, v[1])
      /\ \A i \in 1..(n - 1) : WithinTick(v[i], v[i + 1])
  BY DEF Leads, GoodPath, SegmentFits
<1>2. m \in Nat \ {0}
  BY <1>1, EmptySeq
<1>3. /\ u \in Seq(Posture) /\ Len(u) = m + n
      /\ \A i \in 1..(m + n) : u[i] = IF i <= m THEN w[i] ELSE v[i - m]
  BY <1>1, ConcatProperties
<1> HIDE DEF u, m
<1>4. u # <<>> /\ u[m + n] = q
  <2>1. m + n \in 1..(m + n) /\ ~(m + n <= m) /\ (m + n) - m = n
    BY <1>2
  <2> QED BY <1>1, <1>2, <1>3, <2>1, EmptySeq
<1>5. ASSUME NEW i \in 1..((m + n) - 1) PROVE WithinTick(u[i], u[i + 1])
  <2>1. i \in 1..(m + n) /\ i + 1 \in 1..(m + n)
    BY <1>2
  <2>2. CASE i < m
    <3>1. u[i] = w[i] /\ u[i + 1] = w[i + 1] /\ i \in 1..(m - 1)
      BY <1>2, <1>3, <2>1, <2>2
    <3> QED BY <1>1, <3>1 DEF m
  <2>3. CASE i = m
    <3>1. i <= m /\ ~(i + 1 <= m) /\ (i + 1) - m = 1
      BY <1>2, <2>3
    <3>2. u[i] = w[i] /\ u[i + 1] = v[1]
      BY <1>3, <2>1, <3>1
    <3> QED BY <1>1, <2>3, <3>2
  <2>4. CASE m < i
    <3>1. ~(i <= m) /\ ~(i + 1 <= m) /\ (i + 1) - m = (i - m) + 1 /\ i - m \in 1..(n - 1)
      BY <1>2, <2>4
    <3>2. u[i] = v[i - m] /\ u[i + 1] = v[(i - m) + 1]
      BY <1>3, <2>1, <3>1
    <3> QED BY <1>1, <3>1, <3>2
  <2> QED BY <1>2, <2>2, <2>3, <2>4
<1> QED BY <1>3, <1>4, <1>5 DEF Leads, GoodPath, u, m

(* Waypoints is the end of a run of its loop over the frames. *)
WaypointPass(t, hold, a) ==
  [p \in (1..(Len(t.frames) - 1)) \X Seq(Posture) |-> p[2] \o Segment(t, hold, a, p[1])]

Walks(f, t, hold, a) ==
  /\ Waypoints(t, hold, a) = f[Len(t.frames) - 1]
  /\ f[0] = <<Full(t, hold, a, 1)>>
  /\ \A k \in 1..(Len(t.frames) - 1) : f[k] = f[k - 1] \o Segment(t, hold, a, k)

LEMMA WaypointsLoop ==
  ASSUME NEW t, NEW hold, Legible(t, hold), NEW a \in t.named
  PROVE  \E f : Walks(f, t, hold, a)
<1> DEFINE N == Len(t.frames) - 1
           x0 == <<Full(t, hold, a, 1)>>
           Body(f) == [k \in 0..N |-> IF k = 0 THEN x0 ELSE f[k - 1] \o Segment(t, hold, a, k)]
           upto == CHOOSE f : f = Body(f)
<1>1. N \in Nat
  BY FramesTyped
<1>2. x0 \in Seq(Posture)
  <2>1. 1 \in 1..Len(t.frames)
    BY FramesTyped
  <2>2. Full(t, hold, a, 1) \in Posture
    BY <2>1, FramesTyped
  <2> QED BY <2>2
<1>3. \A k \in 1..N : Segment(t, hold, a, k) \in Seq(Posture)
  BY SegmentIs DEF SegmentFits
<1>4. WaypointPass(t, hold, a) \in [(1..N) \X Seq(Posture) -> Seq(Posture)]
  <2>1. ASSUME NEW p \in (1..N) \X Seq(Posture)
        PROVE  p[2] \o Segment(t, hold, a, p[1]) \in Seq(Posture)
    <3>1. p[2] \in Seq(Posture) /\ Segment(t, hold, a, p[1]) \in Seq(Posture)
      BY <1>3
    <3> QED BY <3>1, ConcatProperties
  <2> QED BY <2>1 DEF WaypointPass
<1>5. PICK f \in [0..N -> Seq(Posture)] :
        f[0] = x0 /\ \A k \in 1..N : f[k] = WaypointPass(t, hold, a)[<<k, f[k - 1]>>]
  <2>1. HasRun(N, Seq(Posture), x0, WaypointPass(t, hold, a))
    BY <1>1, <1>2, <1>4, LoopRuns
  <2> QED
    BY <2>1, Zenon DEF HasRun
<1>6. ASSUME NEW k \in 1..N
      PROVE  f[k] = f[k - 1] \o Segment(t, hold, a, k)
  <2>1. k - 1 \in 0..N
    BY <1>1
  <2> QED
    BY <1>5, <2>1 DEF WaypointPass
<1>7. f = Body(f)
  <2> HIDE DEF x0
  <2>1. \A k \in 0..N : k = 0 \/ k \in 1..N
    BY <1>1
  <2>2. \A k \in 0..N : f[k] = IF k = 0 THEN x0 ELSE f[k - 1] \o Segment(t, hold, a, k)
    BY <1>5, <1>6, <2>1, Zenon
  <2> QED BY <1>5, <2>2
<1>8. upto = Body(upto)
  BY <1>7, Zenon
<1>9. Waypoints(t, hold, a) = upto[N]
  BY DEF Waypoints
<1>10. upto[0] = x0 /\ \A k \in 1..N : upto[k] = upto[k - 1] \o Segment(t, hold, a, k)
  <2> HIDE DEF upto, x0
  <2>1. 0 \in 0..N /\ \A k \in 1..N : k \in 0..N /\ k # 0
    BY <1>1
  <2> QED
    BY <1>8, <2>1, Zenon
<1> QED
  <2> HIDE DEF upto
  <2> QED
    BY <1>9, <1>10 DEF Walks

(* The path of every arm is one the executor follows a waypoint a tick; all are of one length. *)
GoodPlan(plan) ==
  /\ \A a \in DOMAIN plan : GoodPath(plan[a])
  /\ \A a, b \in DOMAIN plan : Len(plan[a]) = Len(plan[b])

LEMMA ResampledIsGood ==
  ASSUME NEW t, NEW hold, Legible(t, hold)
  PROVE  DOMAIN resample(t, hold) = t.named /\ GoodPlan(resample(t, hold))
<1> DEFINE N == Len(t.frames) - 1
<1>1. N \in Nat
  BY FramesTyped
<1>2. ASSUME NEW a \in t.named, NEW b \in t.named
      PROVE  /\ GoodPath(Waypoints(t, hold, a))
             /\ Len(Waypoints(t, hold, a)) = Len(Waypoints(t, hold, b))
  <2>1. PICK f : Walks(f, t, hold, a)
    BY WaypointsLoop
  <2>2. PICK g : Walks(g, t, hold, b)
    BY WaypointsLoop
  <2> DEFINE S == {k \in Nat : k <= N => /\ Leads(f[k], Full(t, hold, a, k + 1))
                                         /\ Leads(g[k], Full(t, hold, b, k + 1))
                                         /\ Len(f[k]) = Len(g[k])}
  <2>3. ASSUME NEW c \in t.named PROVE Leads(<<Full(t, hold, c, 1)>>, Full(t, hold, c, 0 + 1))
        /\ Len(<<Full(t, hold, c, 1)>>) = 1
    <3>1. 1 \in 1..Len(t.frames) /\ 0 + 1 = 1
      BY FramesTyped
    <3>2. Full(t, hold, c, 1) \in Posture
      BY <3>1, FramesTyped
    <3> QED BY <3>1, <3>2 DEF Leads, GoodPath
  <2>4. 0 \in S
    BY <2>1, <2>2, <2>3 DEF Walks
  <2>5. ASSUME NEW k \in Nat, k \in S PROVE k + 1 \in S
    <3> SUFFICES ASSUME k + 1 <= N
                 PROVE  /\ Leads(f[k + 1], Full(t, hold, a, (k + 1) + 1))
                        /\ Leads(g[k + 1], Full(t, hold, b, (k + 1) + 1))
                        /\ Len(f[k + 1]) = Len(g[k + 1])
      OBVIOUS
    <3>1. k + 1 \in 1..N /\ (k + 1) - 1 = k /\ k <= N
      BY <1>1
    <3>2. /\ Leads(f[k], Full(t, hold, a, k + 1)) /\ Leads(g[k], Full(t, hold, b, k + 1))
          /\ Len(f[k]) = Len(g[k])
      BY <2>5, <3>1
    <3>3. /\ f[k + 1] = f[k] \o Segment(t, hold, a, k + 1)
          /\ g[k + 1] = g[k] \o Segment(t, hold, b, k + 1)
      BY <2>1, <2>2, <3>1 DEF Walks
    <3>4. StepsTo(t, hold, k + 1) \in Nat \ {0}
      BY <3>1, StepsSuffice
    <3>5. Leads(f[k + 1], Full(t, hold, a, (k + 1) + 1))
          /\ Len(f[k + 1]) = Len(f[k]) + StepsTo(t, hold, k + 1)
      <4>1. SegmentFits(Segment(t, hold, a, k + 1), Full(t, hold, a, k + 1),
                        Full(t, hold, a, (k + 1) + 1), StepsTo(t, hold, k + 1))
        BY <3>1, SegmentIs, Zenon
      <4> DEFINE v == Segment(t, hold, a, k + 1)
                 p == Full(t, hold, a, k + 1)
                 q == Full(t, hold, a, (k + 1) + 1)
                 n == StepsTo(t, hold, k + 1)
      <4>2. Leads(f[k], p) /\ SegmentFits(v, p, q, n) /\ n \in Nat \ {0}
        BY <3>2, <3>4, <4>1
      <4> HIDE DEF v, p, q, n
      <4>3. Leads(f[k] \o v, q) /\ Len(f[k] \o v) = Len(f[k]) + n
        BY <4>2, PathGrows
      <4> QED BY <3>3, <4>3 DEF v, q, n
    <3>6. Leads(g[k + 1], Full(t, hold, b, (k + 1) + 1))
          /\ Len(g[k + 1]) = Len(g[k]) + StepsTo(t, hold, k + 1)
      <4>1. SegmentFits(Segment(t, hold, b, k + 1), Full(t, hold, b, k + 1),
                        Full(t, hold, b, (k + 1) + 1), StepsTo(t, hold, k + 1))
        BY <3>1, SegmentIs, Zenon
      <4> DEFINE v == Segment(t, hold, b, k + 1)
                 p == Full(t, hold, b, k + 1)
                 q == Full(t, hold, b, (k + 1) + 1)
                 n == StepsTo(t, hold, k + 1)
      <4>2. Leads(g[k], p) /\ SegmentFits(v, p, q, n) /\ n \in Nat \ {0}
        BY <3>2, <3>4, <4>1
      <4> HIDE DEF v, p, q, n
      <4>3. Leads(g[k] \o v, q) /\ Len(g[k] \o v) = Len(g[k]) + n
        BY <4>2, PathGrows
      <4> QED BY <3>3, <4>3 DEF v, q, n
    <3> QED BY <3>2, <3>5, <3>6
  <2>6. N \in S
    <3> HIDE DEF S
    <3> QED BY <1>1, <2>4, <2>5, NatSetInduction
  <2> QED BY <1>1, <2>1, <2>2, <2>6 DEF Leads, Walks
<1> DEFINE plan == resample(t, hold)
<1>3. DOMAIN plan = t.named /\ \A a \in t.named : plan[a] = Waypoints(t, hold, a)
  BY DEF resample
<1> HIDE DEF plan
<1>4. GoodPlan(plan)
  BY <1>2, <1>3, Zenon DEF GoodPlan
<1> QED BY <1>3, <1>4 DEF plan

(***************************************************************************)
(* The replay.  What is being asked is legible and its plan a good one,    *)
(* the claim is the request's from the verification on, and an action      *)
(* replay runs only while its own request waits.                           *)
(***************************************************************************)
EpisodeTypes ==
  /\ tape \in Tapes /\ reel \in Nat
  /\ posn \in [Players -> Posture] /\ ahead \in [Players -> Seq(Posture)]
  /\ DOMAIN play = {"at", "source", "hold", "plan"}

Readable == tape.legible /\ tape.named \subseteq Players
Planned == play.source = "state" => GoodPlan(play.plan) /\ DOMAIN play.plan = tape.named

AskedSoundly ==
  /\ play.at # "idle" => Readable /\ play.hold \in [tape.named -> Int] /\ Planned
  /\ motionClaim = "goto" => Readable
  /\ play.at \in {"verify", "submit", "wait", "settle"} => motionClaim = "play"
  /\ reel # 0 => play.at = "wait" /\ play.source # "state"

(* All arms are at the k-th waypoint and have the rest ahead; before the   *)
(* first tick each is within a tick of its first.                          *)
Following(k) ==
  \A a \in Players :
    IF a \in tape.named
    THEN /\ ahead[a] = SubSeq(play.plan[a], k + 1, Len(play.plan[a]))
         /\ k <= Len(play.plan[a])
         /\ k # 0 => posn[a] = play.plan[a][k]
         /\ k = 0 => WithinTick(posn[a], play.plan[a][1])
    ELSE ahead[a] = <<>>

InStep == lockstep /\ play.at = "wait" =>
            play.source = "state" /\ reel = 0 /\ \E k \in Nat : Following(k)

EpisodeInv == EpisodeTypes /\ AskedSoundly /\ InStep

(* It holds at the start and says what the replay promises. *)
LEMMA EpisodeStart == PlaybackInit => EpisodeInv
<1> SUFFICES ASSUME PlaybackInit PROVE EpisodeInv
  OBVIOUS
<1>1. EpisodeTypes
  BY DEF PlaybackInit, EpisodeTypes, Unasked, Posture
<1>2. AskedSoundly /\ InStep
  BY DEF PlaybackInit, AskedSoundly, InStep, Unasked
<1> QED BY <1>1, <1>2 DEF EpisodeInv

LEMMA EpisodeImplies == EpisodeInv => LockstepIsVerified
<1> SUFFICES ASSUME EpisodeInv, lockstep, play.at = "wait",
                    NEW b \in DOMAIN play.plan, ahead[b] # play.plan[b]
             PROVE  \E k \in 1..Len(play.plan[CHOOSE a \in DOMAIN play.plan : TRUE]) :
                      \A a \in DOMAIN play.plan :
                        /\ posn[a] = play.plan[a][k]
                        /\ ahead[a] = SubSeq(play.plan[a], k + 1, Len(play.plan[a]))
  BY Zenon DEF LockstepIsVerified
<1> DEFINE c == CHOOSE a \in DOMAIN play.plan : TRUE
<1>1. c \in DOMAIN play.plan
  OBVIOUS
<1> HIDE DEF c
<1>2. PICK k \in Nat : Following(k)
  BY DEF EpisodeInv, InStep
<1>3. /\ DOMAIN play.plan = tape.named /\ tape.named \subseteq Players /\ GoodPlan(play.plan)
  BY DEF EpisodeInv, InStep, AskedSoundly, Planned, Readable
<1>4. k # 0
  <2> SUFFICES ASSUME k = 0 PROVE FALSE
    OBVIOUS
  <2>1. ahead[b] = SubSeq(play.plan[b], 0 + 1, Len(play.plan[b]))
    BY <1>2, <1>3 DEF Following
  <2>2. play.plan[b] \in Seq(Posture) /\ 0 + 1 = 1
    BY <1>3 DEF GoodPlan, GoodPath
  <2> QED BY <2>1, <2>2, SubSeqFull
<1>5. k \in 1..Len(play.plan[c])
  <2>1. k <= Len(play.plan[c])
    BY <1>1, <1>2, <1>3 DEF Following
  <2>2. Len(play.plan[c]) \in Nat
    BY <1>1, <1>3 DEF GoodPlan, GoodPath
  <2> QED BY <1>4, <2>1, <2>2
<1>6. \A a \in DOMAIN play.plan : /\ posn[a] = play.plan[a][k]
                                  /\ ahead[a] = SubSeq(play.plan[a], k + 1, Len(play.plan[a]))
  BY <1>2, <1>3, <1>4 DEF Following
<1> QED BY <1>5, <1>6 DEF c

(* A step that leaves the loop and the arms alone, and the request where it is or at rest. *)
LEMMA AtRestKeeps ==
  ASSUME EpisodeTypes, AskedSoundly, tape' = tape, posn' \in [Players -> Posture],
         ahead' \in [Players -> Seq(Posture)], reel' = 0,
         play' = Unasked, motionClaim' # "goto"
  PROVE  EpisodeInv'
<1>1. EpisodeTypes'
  BY DEF EpisodeTypes, Unasked
<1>2. AskedSoundly' /\ InStep'
  BY DEF AskedSoundly, InStep, Unasked
<1> QED BY <1>1, <1>2 DEF EpisodeInv

(* episode_playback_play: refused, or a good plan of a legible episode. *)
LEMMA AskingKeeps ==
  ASSUME EpisodeInv, NEW source \in Sources, episode_playback_play(source)
  PROVE  EpisodeInv'
<1>1. /\ play.at = "idle" /\ reel = 0
      /\ UNCHANGED <<tape, posn, motionClaim, ahead, reel, lockstep>>
  BY DEF EpisodeInv, AskedSoundly, episode_playback_play
<1>2. CASE Blocked \/ _action_replay_refusal(source) \/ ~AtFirstFrame
  <2>1. play' = Unasked
    BY <1>2 DEF episode_playback_play, Answer
  <2>2. EpisodeTypes'
    BY <1>1, <2>1 DEF EpisodeInv, EpisodeTypes, Unasked
  <2>3. AskedSoundly' /\ InStep'
    BY <1>1, <2>1 DEF EpisodeInv, AskedSoundly, InStep, Unasked, Readable
  <2> QED BY <2>2, <2>3 DEF EpisodeInv
<1>3. CASE ~(Blocked \/ _action_replay_refusal(source) \/ ~AtFirstFrame)
  <2> DEFINE hold == [a \in tape.named |-> posn[a][2]]
             plan == IF source = "state" THEN resample(tape, hold) ELSE Unplanned
  <2>1. play' = [at |-> "claim", source |-> source, hold |-> hold, plan |-> plan]
    BY <1>3 DEF episode_playback_play
  <2>2. Readable /\ motionClaim = "none"
    BY <1>3 DEF Blocked, Readable
  <2>3. hold \in [tape.named -> Int]
    BY <2>2, PostureParts DEF EpisodeInv, EpisodeTypes, Readable
  <2>4. source = "state" => DOMAIN plan = tape.named /\ GoodPlan(plan)
    <3>1. Legible(tape, hold)
      BY <2>2, <2>3 DEF Legible, EpisodeInv, EpisodeTypes, Readable
    <3> HIDE DEF hold
    <3> QED BY <3>1, ResampledIsGood
  <2> HIDE DEF hold, plan
  <2>5. EpisodeTypes'
    BY <1>1, <2>1 DEF EpisodeInv, EpisodeTypes
  <2>6. Readable'
    BY <1>1, <2>2 DEF Readable
  <2>7. Planned'
    BY <1>1, <2>1, <2>4 DEF Planned
  <2>8. AskedSoundly' /\ InStep'
    BY <1>1, <2>1, <2>2, <2>3, <2>6, <2>7 DEF AskedSoundly, InStep
  <2> QED BY <2>5, <2>8 DEF EpisodeInv
<1> QED BY <1>2, <1>3

(* The request goes on to another step of it. *)
LEMMA GoingKeeps ==
  ASSUME EpisodeInv, NEW step \in {"verify", "submit", "settle"},
         play' = [play EXCEPT !.at = step], motionClaim' = "play", play.at # "idle",
         reel = 0, UNCHANGED <<tape, posn, ahead, reel, lockstep>>
  PROVE  EpisodeInv'
<1>1. /\ play'.at = step /\ play'.source = play.source /\ play'.hold = play.hold
      /\ play'.plan = play.plan /\ DOMAIN play' = DOMAIN play
  BY DEF EpisodeInv, EpisodeTypes
<1>2. EpisodeTypes'
  BY <1>1 DEF EpisodeInv, EpisodeTypes
<1>3. (Readable' <=> Readable) /\ (Planned' <=> Planned)
  BY <1>1 DEF Readable, Planned
<1>4. AskedSoundly' /\ InStep'
  BY <1>1, <1>3 DEF EpisodeInv, AskedSoundly, InStep
<1> QED BY <1>2, <1>4 DEF EpisodeInv

(* The claim, the verification and the submission, action by action. *)
LEMMA ClaimKeeps ==
  ASSUME EpisodeInv, _claim_profile_motion
  PROVE  EpisodeInv'
<1>1. /\ play.at = "claim" /\ reel = 0 /\ UNCHANGED <<tape, posn, ahead, reel, lockstep>>
  BY DEF EpisodeInv, AskedSoundly, _claim_profile_motion
<1>2. CASE motionClaim = "none"
  BY <1>1, <1>2, GoingKeeps DEF _claim_profile_motion
<1>3. CASE motionClaim # "none"
  <2>1. play' = Unasked /\ motionClaim' = motionClaim
    BY <1>3 DEF _claim_profile_motion, Answer
  <2>2. EpisodeTypes'
    BY <1>1, <2>1 DEF EpisodeInv, EpisodeTypes, Unasked
  <2>3. AskedSoundly' /\ InStep'
    BY <1>1, <2>1 DEF EpisodeInv, AskedSoundly, InStep, Unasked, Readable
  <2> QED BY <2>2, <2>3 DEF EpisodeInv
<1> QED BY <1>2, <1>3

LEMMA VerifyKeeps ==
  ASSUME EpisodeInv, _verify_playback
  PROVE  EpisodeInv'
<1>1. /\ play.at = "verify" /\ reel = 0 /\ motionClaim = "play"
      /\ UNCHANGED <<tape, posn, ahead, reel, lockstep>>
  BY DEF EpisodeInv, AskedSoundly, _verify_playback, Loop
<1>2. CASE play' = [play EXCEPT !.at = "submit"] /\ UNCHANGED <<said, motionClaim>>
  BY <1>1, <1>2, GoingKeeps
<1>3. CASE Finish("refused")
  BY <1>1, <1>3, AtRestKeeps DEF Finish, Answer, EpisodeInv, EpisodeTypes
<1> QED BY <1>2, <1>3 DEF _verify_playback

LEMMA SubmitKeeps ==
  ASSUME EpisodeInv, _op_playback_path
  PROVE  EpisodeInv'
<1>1. /\ play.at = "submit" /\ play.source = "state" /\ reel = 0 /\ motionClaim = "play"
      /\ UNCHANGED <<tape, posn>> /\ Readable /\ Planned
  BY DEF EpisodeInv, AskedSoundly, _op_playback_path
<1>2. CASE Finish("refused") /\ UNCHANGED Loop
  BY <1>1, <1>2, AtRestKeeps DEF Finish, Answer, EpisodeInv, EpisodeTypes, Loop
<1>3. CASE ~(moving \/ ~EqualLengths(play.plan))
  <2>1. /\ play' = [play EXCEPT !.at = "wait"] /\ reel' = 0 /\ motionClaim' = "play"
        /\ ahead' = [a \in Players |-> IF a \in DOMAIN play.plan THEN play.plan[a] ELSE <<>>]
        /\ lockstep' = Aligned(play.plan)
    BY <1>1, <1>3 DEF _op_playback_path
  <2>2. /\ play'.at = "wait" /\ play'.source = play.source /\ play'.hold = play.hold
        /\ play'.plan = play.plan /\ DOMAIN play' = DOMAIN play
    BY <2>1 DEF EpisodeInv, EpisodeTypes
  <2>3. GoodPlan(play.plan) /\ DOMAIN play.plan = tape.named /\ tape.named \subseteq Players
    BY <1>1 DEF Planned, Readable
  <2>4. ahead' \in [Players -> Seq(Posture)]
    BY <2>1, <2>3, EmptySeq DEF GoodPlan, GoodPath
  <2>5. EpisodeTypes'
    BY <1>1, <2>1, <2>2, <2>4 DEF EpisodeInv, EpisodeTypes
  <2>6. (Readable' <=> Readable) /\ (Planned' <=> Planned)
    BY <1>1, <2>2 DEF Readable, Planned
  <2>7. AskedSoundly'
    BY <1>1, <2>1, <2>2, <2>6 DEF EpisodeInv, AskedSoundly
  <2>8. ASSUME lockstep' PROVE Following(0)'
    <3> SUFFICES ASSUME NEW a \in Players
                 PROVE  IF a \in tape.named
                        THEN /\ ahead'[a] = SubSeq(play.plan[a], 0 + 1, Len(play.plan[a]))
                             /\ 0 <= Len(play.plan[a])
                             /\ WithinTick(posn[a], play.plan[a][1])
                        ELSE ahead'[a] = <<>>
      BY <1>1, <2>2 DEF Following, WithinTick
    <3>1. CASE a \in tape.named
      <4>1. play.plan[a] \in Seq(Posture) /\ ahead'[a] = play.plan[a] /\ 0 + 1 = 1
        BY <2>1, <2>3, <3>1 DEF GoodPlan, GoodPath
      <4>2. WithinTick(posn[a], play.plan[a][1])
        BY <2>1, <2>3, <2>8, <3>1 DEF Aligned, WithinTick
      <4> QED BY <3>1, <4>1, <4>2, SubSeqFull, LenProperties
    <3>2. CASE a \notin tape.named
      BY <2>1, <2>3, <3>2
    <3> QED BY <3>1, <3>2
  <2>9. InStep'
    <3>1. 0 \in Nat
      OBVIOUS
    <3> QED BY <1>1, <2>1, <2>2, <2>8, <3>1, Zenon DEF InStep
  <2> QED BY <2>5, <2>7, <2>9 DEF EpisodeInv
<1> QED BY <1>2, <1>3 DEF _op_playback_path

LEMMA ReplaySubmitKeeps ==
  ASSUME EpisodeInv, _op_replay_actions
  PROVE  EpisodeInv'
<1>1. /\ play.at = "submit" /\ play.source # "state" /\ reel = 0 /\ motionClaim = "play"
      /\ UNCHANGED <<tape, posn>> /\ Readable
  BY DEF EpisodeInv, AskedSoundly, _op_replay_actions
<1>2. CASE Finish("refused") /\ UNCHANGED Loop
  BY <1>1, <1>2, AtRestKeeps DEF Finish, Answer, EpisodeInv, EpisodeTypes, Loop
<1>3. CASE ~moving
  <2>1. /\ play' = [play EXCEPT !.at = "wait"] /\ reel' = 1 /\ motionClaim' = "play"
        /\ ahead' = ahead /\ lockstep' = FALSE
    BY <1>1, <1>3 DEF _op_replay_actions
  <2>2. /\ play'.at = "wait" /\ play'.source = play.source /\ play'.hold = play.hold
        /\ play'.plan = play.plan /\ DOMAIN play' = DOMAIN play
    BY <2>1 DEF EpisodeInv, EpisodeTypes
  <2>3. EpisodeTypes'
    BY <1>1, <2>1, <2>2 DEF EpisodeInv, EpisodeTypes
  <2>4. Readable' /\ Planned'
    BY <1>1, <2>2 DEF Readable, Planned
  <2>5. AskedSoundly' /\ InStep'
    BY <1>1, <2>1, <2>2, <2>4 DEF EpisodeInv, AskedSoundly, InStep
  <2> QED BY <2>3, <2>5 DEF EpisodeInv
<1> QED BY <1>2, <1>3 DEF _op_replay_actions

LEMMA RefusalKeeps ==
  ASSUME EpisodeInv, RefusedByLoop
  PROVE  EpisodeInv'
<1>1. /\ reel = 0 /\ play' = Unasked /\ motionClaim' = "none"
      /\ UNCHANGED <<tape, posn, ahead, reel>>
  BY DEF EpisodeInv, AskedSoundly, RefusedByLoop, Finish, Answer, Loop
<1> QED BY <1>1, AtRestKeeps DEF EpisodeInv, EpisodeTypes

(* A step that leaves the request alone and lets no arm fall into step. *)
LEMMA LooseKeeps ==
  ASSUME EpisodeInv, tape' = tape, play' = play, posn' \in [Players -> Posture],
         ahead' \in [Players -> Seq(Posture)], reel' \in Nat, reel' # 0 => reel # 0,
         motionClaim' = motionClaim, lockstep' => UNCHANGED <<lockstep, posn, ahead, reel>>
  PROVE  EpisodeInv'
<1>1. EpisodeTypes'
  BY DEF EpisodeInv, EpisodeTypes
<1>2. (Readable' <=> Readable) /\ (Planned' <=> Planned)
  BY DEF Readable, Planned
<1>3. AskedSoundly'
  BY <1>2 DEF EpisodeInv, AskedSoundly
<1>4. InStep'
  <2>1. CASE ~lockstep'
    BY <2>1 DEF InStep
  <2>2. CASE UNCHANGED <<lockstep, posn, ahead, reel>>
    <3>1. \A k : Following(k)' <=> Following(k)
      BY <2>2 DEF Following, WithinTick
    <3> QED BY <2>2, <3>1 DEF EpisodeInv, InStep
  <2> QED BY <2>1, <2>2
<1> QED BY <1>1, <1>3, <1>4 DEF EpisodeInv

(* One tick of a path: the types, and an arm that is in step goes on to its next waypoint. *)
LEMMA TickTyped ==
  ASSUME EpisodeInv, NEW stopped \in SUBSET Players, PlanTick(stopped)
  PROVE  posn' \in [Players -> Posture] /\ ahead' \in [Players -> Seq(Posture)]
<1> DEFINE active == {a \in Players : ahead[a] # <<>>}
           next == [a \in active |-> Toward(posn[a], Head(ahead[a]))]
<1>1. \A a \in active : next[a] \in Posture /\ Tail(ahead[a]) \in Seq(Posture)
  <2> TAKE a \in active
  <2>1. posn[a] \in Posture /\ ahead[a] \in Seq(Posture) /\ ahead[a] # <<>>
    BY DEF EpisodeInv, EpisodeTypes
  <2>2. Head(ahead[a]) \in Posture /\ Tail(ahead[a]) \in Seq(Posture)
    BY <2>1, HeadTailProperties
  <2>3. Toward(posn[a], Head(ahead[a])) \in Posture
    BY <2>1, <2>2, TowardPosture
  <2> QED BY <2>2, <2>3
<1>2. /\ posn' = [a \in Players |-> IF a \in active \ stopped THEN next[a] ELSE posn[a]]
      /\ ahead' = [a \in Players |->
           IF a \notin active \/ next[a] # Head(ahead[a]) THEN ahead[a]
           ELSE IF a \in stopped /\ Len(ahead[a]) = 1 THEN ahead[a] ELSE Tail(ahead[a])]
  BY DEF PlanTick
<1>3. \A a \in Players : posn[a] \in Posture /\ ahead[a] \in Seq(Posture)
  BY DEF EpisodeInv, EpisodeTypes
<1> HIDE DEF next
<1>4. posn' \in [Players -> Posture]
  BY <1>1, <1>2, <1>3
<1>5. ahead' \in [Players -> Seq(Posture)]
  <2> HIDE DEF active
  <2>1. ASSUME NEW a \in Players
        PROVE  (IF a \notin active \/ next[a] # Head(ahead[a]) THEN ahead[a]
                ELSE IF a \in stopped /\ Len(ahead[a]) = 1 THEN ahead[a] ELSE Tail(ahead[a]))
               \in Seq(Posture)
    BY <1>1, <1>3
  <2> QED BY <1>2, <2>1
<1> QED BY <1>4, <1>5

(* A path in step stays in step unless the gate holds an arm. *)
LEMMA TickFollows ==
  ASSUME EpisodeInv, PlanTick({}), lockstep, play.at = "wait", NEW k \in Nat, Following(k)
  PROVE  Following(k + 1)'
<1> DEFINE active == {a \in Players : ahead[a] # <<>>}
           next == [a \in active |-> Toward(posn[a], Head(ahead[a]))]
<1>1. /\ UNCHANGED <<tape, play>> /\ active # {}
      /\ posn' = [a \in Players |-> IF a \in active \ {} THEN next[a] ELSE posn[a]]
      /\ ahead' = [a \in Players |->
           IF a \notin active \/ next[a] # Head(ahead[a]) THEN ahead[a]
           ELSE IF a \in {} /\ Len(ahead[a]) = 1 THEN ahead[a] ELSE Tail(ahead[a])]
  BY DEF PlanTick
<1>2. /\ DOMAIN play.plan = tape.named /\ tape.named \subseteq Players /\ GoodPlan(play.plan)
  BY DEF EpisodeInv, InStep, AskedSoundly, Planned, Readable
<1>3. \A a \in tape.named : /\ GoodPath(play.plan[a]) /\ play.plan[a] \in Seq(Posture)
                            /\ Len(play.plan[a]) \in Nat
  BY <1>2 DEF GoodPlan, GoodPath
<1>4. \A a \in tape.named : k < Len(play.plan[a])
  <2>1. PICK b \in active : TRUE
    BY <1>1
  <2>2. b \in tape.named /\ ahead[b] = SubSeq(play.plan[b], k + 1, Len(play.plan[b]))
    BY <2>1 DEF Following
  <2>3. k < Len(play.plan[b])
    <3> SUFFICES ASSUME Len(play.plan[b]) < k + 1 PROVE FALSE
      BY <1>3, <2>2
    <3>1. k + 1 \in Int /\ Len(play.plan[b]) \in Int
      BY <1>3, <2>2
    <3>2. ahead[b] = <<>>
      BY <2>2, <3>1, SubSeqEmpty
    <3> QED BY <2>1, <3>2
  <2> QED BY <1>2, <2>2, <2>3 DEF GoodPlan
<1>5. ASSUME NEW a \in tape.named
      PROVE  /\ a \in active /\ next[a] = play.plan[a][k + 1] /\ Head(ahead[a]) = next[a]
             /\ Tail(ahead[a]) = SubSeq(play.plan[a], (k + 1) + 1, Len(play.plan[a]))
  <2> DEFINE w == play.plan[a]
             L == Len(w)
  <2>1. w \in Seq(Posture) /\ L \in Nat /\ k < L /\ GoodPath(w)
    BY <1>3, <1>4
  <2>2. /\ ahead[a] = SubSeq(w, k + 1, L) /\ (k # 0 => posn[a] = w[k])
        /\ (k = 0 => WithinTick(posn[a], w[1]))
    BY <1>2 DEF Following
  <2> HIDE DEF w
  <2>3. k + 1 \in 1..L /\ L \in (k + 1)..L
    BY <2>1
  <2>4. Head(ahead[a]) = w[k + 1] /\ Tail(ahead[a]) = SubSeq(w, (k + 1) + 1, L)
    BY <2>1, <2>2, <2>3, HeadTailOfSubSeq
  <2>5. a \in active
    <3>1. \A i \in (k + 1)..L : w[i] \in Posture
      BY <2>1
    <3>2. Len(ahead[a]) = L - (k + 1) + 1
      BY <2>1, <2>2, <2>3, <3>1, SubSeqProperties
    <3>3. Len(ahead[a]) # 0
      BY <2>1, <3>2
    <3>4. ahead[a] # <<>>
      BY <3>3, EmptySeq
    <3> QED BY <1>2, <3>4
  <2>6. WithinTick(posn[a], w[k + 1])
    <3>1. CASE k = 0
      BY <2>2, <3>1
    <3>2. CASE k # 0
      <4>1. k \in 1..(L - 1)
        BY <2>1, <3>2
      <4> QED BY <2>1, <2>2, <3>2, <4>1 DEF GoodPath
    <3> QED BY <3>1, <3>2
  <2>7. posn[a] \in Posture /\ w[k + 1] \in Posture
    BY <1>2, <2>1, <2>3, ElementOfSeq DEF EpisodeInv, EpisodeTypes
  <2>8. Toward(posn[a], w[k + 1]) = w[k + 1]
    BY <2>6, <2>7, TowardPosture
  <2>9. next[a] = w[k + 1]
    BY <2>4, <2>5, <2>8
  <2> HIDE DEF next, active
  <2> QED BY <2>4, <2>5, <2>9 DEF w
<1> HIDE DEF next
<1>6. ASSUME NEW a \in Players
      PROVE  IF a \in tape.named
             THEN /\ ahead'[a] = SubSeq(play.plan[a], (k + 1) + 1, Len(play.plan[a]))
                  /\ k + 1 <= Len(play.plan[a])
                  /\ posn'[a] = play.plan[a][k + 1]
             ELSE ahead'[a] = <<>>
  <2>1. CASE a \in tape.named
    <3>1. a \in active \ {} /\ ~(a \notin active \/ next[a] # Head(ahead[a]))
      BY <1>5, <2>1
    <3>2. posn'[a] = next[a] /\ ahead'[a] = Tail(ahead[a])
      <4> HIDE DEF active
      <4> QED BY <1>1, <3>1
    <3>3. k + 1 <= Len(play.plan[a])
      BY <1>3, <1>4, <2>1
    <3> QED BY <1>5, <2>1, <3>2, <3>3
  <2>2. CASE a \notin tape.named
    <3>1. ahead[a] = <<>>
      BY <2>2 DEF Following
    <3> QED BY <1>1, <2>2, <3>1
  <2> QED BY <2>1, <2>2
<1>7. k + 1 # 0
  OBVIOUS
<1> HIDE DEF active
<1> QED BY <1>1, <1>6, <1>7 DEF Following

LEMMA TickKeeps ==
  ASSUME EpisodeInv, NEW stopped \in SUBSET Players, PlanTick(stopped)
  PROVE  EpisodeInv'
<1>1. /\ UNCHANGED <<tape, play, motionClaim, reel>> /\ lockstep' = (lockstep /\ stopped = {})
  BY DEF PlanTick
<1>2. posn' \in [Players -> Posture] /\ ahead' \in [Players -> Seq(Posture)]
  BY TickTyped
<1>3. EpisodeTypes'
  BY <1>1, <1>2 DEF EpisodeInv, EpisodeTypes
<1>4. (Readable' <=> Readable) /\ (Planned' <=> Planned)
  BY <1>1 DEF Readable, Planned
<1>5. AskedSoundly'
  BY <1>1, <1>4 DEF EpisodeInv, AskedSoundly
<1>6. ASSUME lockstep', play'.at = "wait"
      PROVE  play'.source = "state" /\ reel' = 0 /\ \E k \in Nat : Following(k)'
  <2>1. lockstep /\ stopped = {} /\ play.at = "wait"
    BY <1>1, <1>6
  <2>2. PlanTick({})
    BY <2>1
  <2>3. PICK k \in Nat : Following(k)
    BY <2>1 DEF EpisodeInv, InStep
  <2>4. Following(k + 1)'
    BY <2>1, <2>2, <2>3, TickFollows
  <2>5. k + 1 \in Nat /\ play.source = "state" /\ reel = 0
    BY <2>1 DEF EpisodeInv, InStep
  <2> QED BY <1>1, <2>4, <2>5
<1>7. InStep'
  BY <1>6, Zenon DEF InStep
<1> QED BY <1>3, <1>5, <1>7 DEF EpisodeInv

(* A tick of an action replay. *)
LEMMA ReplayKeeps ==
  ASSUME EpisodeInv, _replay_step
  PROVE  EpisodeInv'
<1>1. /\ reel # 0 /\ play.at = "wait" /\ play.source # "state"
      /\ UNCHANGED <<tape, play, motionClaim, ahead, lockstep>>
      /\ Legible(tape, play.hold) /\ tape.named \subseteq Players
  BY DEF EpisodeInv, EpisodeTypes, AskedSoundly, Readable, Legible, _replay_step
<1>2. ~lockstep
  BY <1>1 DEF EpisodeInv, InStep
<1>3. posn' \in [Players -> Posture] /\ reel' \in Nat
  <2>1. PICK k \in reel..(Len(tape.frames) + 1) :
          IF k > Len(tape.frames) THEN reel' = 0 /\ UNCHANGED posn
          ELSE /\ reel' = k
               /\ \E follow \in SUBSET tape.named :
                    posn' = [a \in Players |-> IF a \in follow
                                               THEN Full(tape, play.hold, a, k) ELSE posn[a]]
    BY DEF _replay_step
  <2>2. reel \in Nat /\ posn \in [Players -> Posture] /\ Len(tape.frames) \in Nat
    BY <1>1, FramesTyped DEF EpisodeInv, EpisodeTypes
  <2>3. CASE k > Len(tape.frames)
    BY <2>1, <2>2, <2>3
  <2>4. CASE ~(k > Len(tape.frames))
    <3>1. k \in 1..Len(tape.frames) /\ reel' = k
      BY <1>1, <2>1, <2>2, <2>4
    <3>2. PICK follow \in SUBSET tape.named :
            posn' = [a \in Players |-> IF a \in follow
                                       THEN Full(tape, play.hold, a, k) ELSE posn[a]]
      BY <2>1, <2>4
    <3>3. \A a \in follow : Full(tape, play.hold, a, k) \in Posture
      BY <1>1, <3>1, <3>2, FramesTyped
    <3> QED BY <2>2, <3>1, <3>2, <3>3
  <2> QED BY <2>3, <2>4
<1>4. ahead' \in [Players -> Seq(Posture)]
  BY <1>1 DEF EpisodeInv, EpisodeTypes
<1> QED BY <1>1, <1>2, <1>3, <1>4, LooseKeeps

(* What ends a motion of the loop, and the end of the wait for it. *)
LEMMA CancelTyped ==
  ASSUME EpisodeTypes, Cancelled
  PROVE  ahead' \in [Players -> Seq(Posture)] /\ reel' = 0 /\ ~lockstep'
BY EmptySeq DEF Cancelled

LEMMA EndsKeep ==
  ASSUME EpisodeInv, GiveUp \/ Over \/ Settle
  PROVE  EpisodeInv'
<1>1. CASE GiveUp
  <2>1. play' = Unasked /\ motionClaim' = "none" /\ UNCHANGED <<tape, posn>> /\ Cancelled
    BY <1>1 DEF GiveUp, Finish, Answer
  <2>2. ahead' \in [Players -> Seq(Posture)] /\ reel' = 0
    BY <2>1, CancelTyped DEF EpisodeInv
  <2> QED BY <2>1, <2>2, AtRestKeeps DEF EpisodeInv, EpisodeTypes
<1>2. CASE Over
  <2>1. /\ play.at = "wait" /\ reel = 0 /\ motionClaim = "play"
        /\ UNCHANGED <<tape, posn, ahead, reel, lockstep>>
    BY <1>2 DEF EpisodeInv, AskedSoundly, Over, Loop, moving
  <2>2. CASE cancelled
    <3>1. play' = Unasked /\ motionClaim' = "none"
      BY <1>2, <2>2 DEF Over, Finish, Answer
    <3> QED BY <2>1, <3>1, AtRestKeeps DEF EpisodeInv, EpisodeTypes
  <2>3. CASE ~cancelled
    <3>1. play' = [play EXCEPT !.at = "settle"] /\ motionClaim' = motionClaim
      BY <1>2, <2>3 DEF Over
    <3> QED BY <2>1, <3>1, GoingKeeps
  <2> QED BY <2>2, <2>3
<1>3. CASE Settle
  <2>1. /\ play.at = "settle" /\ play' = Unasked /\ motionClaim' = "none"
        /\ UNCHANGED <<tape, posn, ahead, reel, lockstep>>
    BY <1>3 DEF Settle, Finish, Answer, Loop
  <2>2. reel = 0
    BY <2>1 DEF EpisodeInv, AskedSoundly
  <2> QED BY <2>1, <2>2, AtRestKeeps DEF EpisodeInv, EpisodeTypes
<1> QED BY <1>1, <1>2, <1>3

(* The walk to the first frame, other motions, keys. *)
LEMMA OthersKeep ==
  ASSUME EpisodeInv,
         \/ _cancel_plans \/ episode_playback_goto_initial \/ GotoEnds \/ OtherMotion
         \/ \E a \in Players : Drift(a)
  PROVE  EpisodeInv'
<1>1. reel \in Nat /\ posn \in [Players -> Posture] /\ ahead \in [Players -> Seq(Posture)]
  BY DEF EpisodeInv, EpisodeTypes
<1>2. CASE _cancel_plans
  <2>1. ahead' \in [Players -> Seq(Posture)] /\ reel' = 0 /\ ~lockstep'
    BY <1>2, CancelTyped DEF _cancel_plans, EpisodeInv
  <2>2. UNCHANGED <<tape, posn, play, motionClaim>>
    BY <1>2 DEF _cancel_plans
  <2> QED BY <1>1, <2>1, <2>2, LooseKeeps
<1>3. CASE episode_playback_goto_initial
  <2>1. /\ motionClaim = "none" /\ motionClaim' = "goto" /\ Readable
        /\ UNCHANGED <<tape, posn, play, ahead, reel, lockstep>>
    BY <1>3 DEF episode_playback_goto_initial, Blocked, Loop, Readable
  <2>2. EpisodeTypes'
    BY <2>1 DEF EpisodeInv, EpisodeTypes
  <2>3. (Readable' <=> Readable) /\ (Planned' <=> Planned)
    BY <2>1 DEF Readable, Planned
  <2>4. AskedSoundly' /\ InStep'
    BY <2>1, <2>3 DEF EpisodeInv, AskedSoundly, InStep
  <2> QED BY <2>2, <2>4 DEF EpisodeInv
<1>4. CASE GotoEnds
  <2>1. /\ motionClaim = "goto" /\ motionClaim' = "none" /\ Readable
        /\ UNCHANGED <<tape, play, ahead, reel, lockstep>>
    BY <1>4 DEF GotoEnds, Loop, EpisodeInv, AskedSoundly
  <2>2. play.at \in {"idle", "claim"} \/ ~(play.at \in {"wait", "settle", "submit", "verify"})
    BY <2>1 DEF EpisodeInv, AskedSoundly
  <2>3. PICK joints \in SUBSET tape.named, rails \in SUBSET tape.named :
          posn' = [a \in Players |-> IF a \in tape.named
                                     THEN Walked(a, a \in joints, a \in rails) ELSE posn[a]]
    BY <1>4 DEF GotoEnds
  <2>4. \A a \in tape.named : Walked(a, a \in joints, a \in rails) \in Posture
    <3> TAKE a \in tape.named
    <3>1. tape.frames # <<>> /\ tape.frames \in Seq([tape.named -> Posture])
      BY <2>1, PlaybackAssumption DEF Readable, EpisodeInv, EpisodeTypes
    <3>2. tape.frames[1] \in [tape.named -> Posture]
      BY <3>1
    <3>3. tape.frames[1][a] \in Posture /\ posn[a] \in Posture
      BY <1>1, <2>1, <3>2 DEF Readable
    <3>4. /\ tape.frames[1][a][1] \in Int /\ tape.frames[1][a][2] \in Int
          /\ posn[a][1] \in Int /\ posn[a][2] \in Int
      BY <3>3, PostureParts
    <3> QED BY <3>4 DEF Walked, Posture
  <2>5. posn' \in [Players -> Posture]
    BY <1>1, <2>3, <2>4
  <2>6. EpisodeTypes'
    BY <2>1, <2>5 DEF EpisodeInv, EpisodeTypes
  <2>7. (Readable' <=> Readable) /\ (Planned' <=> Planned)
    BY <2>1 DEF Readable, Planned
  <2>8. AskedSoundly' /\ InStep'
    BY <2>1, <2>2, <2>7 DEF EpisodeInv, AskedSoundly, InStep
  <2> QED BY <2>6, <2>8 DEF EpisodeInv
<1>5. CASE OtherMotion
  <2>1. /\ motionClaim' # "goto" /\ motionClaim' # "play" /\ motionClaim # "play"
        /\ UNCHANGED <<tape, posn, play, ahead, reel, lockstep>>
    BY <1>5 DEF OtherMotion, Loop
  <2>2. EpisodeTypes'
    BY <2>1 DEF EpisodeInv, EpisodeTypes
  <2>3. (Readable' <=> Readable) /\ (Planned' <=> Planned)
    BY <2>1 DEF Readable, Planned
  <2>4. AskedSoundly' /\ InStep'
    BY <2>1, <2>3 DEF EpisodeInv, AskedSoundly, InStep
  <2> QED BY <2>2, <2>4 DEF EpisodeInv
<1>6. CASE \E a \in Players : Drift(a)
  <2>1. PICK a \in Players : Drift(a)
    BY <1>6
  <2>2. /\ posn' \in [Players -> Posture] /\ ~lockstep'
        /\ UNCHANGED <<tape, play, motionClaim, ahead, reel>>
    BY <1>1, <2>1, PlaybackAssumption DEF Drift
  <2> QED BY <1>1, <2>2, LooseKeeps
<1> QED BY <1>2, <1>3, <1>4, <1>5, <1>6

(* Every step of a replay keeps the invariant. *)
LEMMA EpisodeStep == EpisodeInv /\ [PlaybackNext]_episodeVars => EpisodeInv'
<1> SUFFICES ASSUME EpisodeInv, [PlaybackNext]_episodeVars PROVE EpisodeInv'
  OBVIOUS
<1>1. CASE UNCHANGED episodeVars
  <2>1. UNCHANGED <<tape, play, posn, ahead, reel, motionClaim, lockstep>>
    BY <1>1 DEF episodeVars
  <2> QED BY <2>1, LooseKeeps DEF EpisodeInv, EpisodeTypes
<1>2. CASE PlaybackNext
  BY <1>2, AskingKeeps, ClaimKeeps, VerifyKeeps, SubmitKeeps, ReplaySubmitKeeps, RefusalKeeps,
     TickKeeps, ReplayKeeps, EndsKeep, OthersKeep DEF PlaybackNext
<1> QED BY <1>1, <1>2

(* A state replay commands only postures of the whole cell that the twin has  *)
(* judged: of every episode that can be read, for every number of arms, of     *)
(* frames, of ticks per frame and every pair of caps, the path made by         *)
(* resample is followed by all arms in step, a waypoint a tick, as long as the *)
(* gate holds none.                                                            *)
THEOREM ReplayInStep == PlaybackInit /\ [][PlaybackNext]_episodeVars => []LockstepIsVerified
BY EpisodeStart, EpisodeStep, EpisodeImplies, PTL

(***************************************************************************)
(* The columns and the replay together.                                    *)
(***************************************************************************)
ColumnTypes ==
  /\ columns.of = "action" => columns.names \in Seq(ActionNames)
  /\ columns.of = "state" => columns.names \in Seq(StateNames)

(* A name more. *)
LEMMA NamesTyped ==
  ASSUME ColumnTypes, [Name]_columns
  PROVE  ColumnTypes'
<1>1. CASE UNCHANGED columns
  BY <1>1 DEF ColumnTypes
<1>2. CASE Name
  <2>1. PICK n \in IF columns.of = "action" THEN ActionNames ELSE StateNames :
          columns' = [columns EXCEPT !.names = Append(@, n)]
    BY <1>2 DEF Name, ActionNames, StateNames
  <2>2. columns'.of = columns.of
    BY <2>1
  <2> QED BY <2>1, <2>2 DEF ColumnTypes
<1> QED BY <1>1, <1>2

(* The columns of a recording, and what parts with it. *)
ReplayNext == (PlaybackNext /\ UNCHANGED columns) \/ (Name /\ UNCHANGED episodeVars)
ReplaySpec == PlaybackInit /\ ColumnsInit /\ [][ReplayNext]_<<episodeVars, columns>>

(* A replay gives the arms what was recorded: an action column is accepted    *)
(* exactly when it is whole layouts of different arms, a row of it reaches     *)
(* each arm of any session whatever the orders, a measured state has one entry *)
(* per arm with that arm's own values, and a state replay keeps to the         *)
(* postures that were verified; for every number of arms and of columns.       *)
THEOREM ReplaysAreTheRecording == ReplaySpec => []ReplayIsTheRecording
<1>1. PlaybackInit /\ ColumnsInit => EpisodeInv /\ ColumnTypes
  BY EpisodeStart DEF ColumnsInit, ColumnTypes
<1>2. EpisodeInv /\ ColumnTypes /\ [ReplayNext]_<<episodeVars, columns>> 
        => (EpisodeInv /\ ColumnTypes)'
  BY EpisodeStep, NamesTyped DEF ReplayNext
<1>3. EpisodeInv /\ ColumnTypes => ReplayIsTheRecording
  <2> SUFFICES ASSUME EpisodeInv, ColumnTypes PROVE ReplayIsTheRecording
    OBVIOUS
  <2>1. LockstepIsVerified
    BY EpisodeImplies
  <2>2. RowsReachTheirArms
    BY ActionColumns DEF ColumnTypes, RowsReachTheirArms
  <2>3. StatesAreNamed
    BY StateColumns DEF ColumnTypes
  <2> QED BY <2>1, <2>2, <2>3 DEF ReplayIsTheRecording
<1> QED BY <1>1, <1>2, <1>3, PTL DEF ReplaySpec
=============================================================================
