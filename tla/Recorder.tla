------------------------------ MODULE Recorder ------------------------------
(***************************************************************************)
(* The recording of episodes: RecorderThread (recorder/thread.py), the     *)
(* EpisodeDirRecorder it drives (recorder/episode_recorder.py) and what    *)
(* the session manager does with both, for sessions that record one after  *)
(* the other into one dataset.  The operator's requests run on the control *)
(* loop's thread, the writing on the recorder's, deletions and listings on *)
(* the server's, and a thread still saving 30 s after stop() is left to    *)
(* itself: its session ends and the next may begin.                        *)
(***************************************************************************)
EXTENDS EpisodeStore

CONSTANTS
  Ending,       \* bound: the sessions that end
  MaxFaults     \* bound: file operations that fail, captures that raise, restarts

ASSUME RecorderAssumption == Ending \subseteq Sessions /\ MaxFaults \in Nat

VARIABLES
  manager,    \* 0, or the session create() or teardown() is busy with
  session,    \* 0, or the live session
  life,       \* of a recorder: "none", "checked", "opened", "built", "on",
              \* "stopping" (_running is False) or "left" (stop() has returned)
  pc,         \* where its thread is
  rec,        \* the RecorderThread: its fields under _lock, its lookahead
  buf,        \* the EpisodeDirRecorder's open episode, or None
  mem,        \* self.manifest in memory, while a write of it is under way
  held,       \* what _counters read from disk and has not put there yet
  minted,     \* the last id given
  told,       \* history: what the episode hooks said of each id
  faults      \* what the bound counts

threadVars == <<pc, rec, buf>>
memVars == <<mem, held>>
managerVars == <<manager, session, life>>
historyVars == <<minted, told>>
recorderVars == <<managerVars, threadVars, memVars, historyVars, faults>>
vars == <<storeVars, recorderVars>>

NewRec == [state |-> "idle", op |-> None, degraded |-> FALSE, returning |-> FALSE,
           got |-> "nothing", prepare |-> FALSE, tries |-> 0, was |-> FALSE]

RecorderInit ==
  /\ StoreInit
  /\ manager = 0 /\ session = 0
  /\ life = [s \in Sessions |-> "none"] /\ pc = [s \in Sessions |-> "off"]
  /\ rec = [s \in Sessions |-> NewRec] /\ buf = [s \in Sessions |-> None]
  /\ mem = [s \in Sessions |-> NoManifest] /\ held = [s \in Sessions |-> NoManifest]
  /\ minted = 0 /\ told = [i \in EpisodeIds |-> "nothing"] /\ faults = 0

Fault == faults < MaxFaults /\ faults' = faults + 1
KeepStore == UNCHANGED <<manifest, lock, rest, job, askedVars>>
KeepClients == UNCHANGED <<manifest, lock, rest, job, asks, deleted>>

(* _sweep_own_tmp: every .tmp- directory goes, whoever writes into it.     *)
SweepsOwn == Erased(Temps) /\ swept' = swept \union Temps

(* The episode hooks. *)
Tell(i, what) == told' = [told EXCEPT ![i] = IF @ = "nothing" THEN what ELSE "twice"]

-----------------------------------------------------------------------------
(* The session manager, under its _lock.                                   *)

(* create: refused while the dataset is being exported. *)
Check(s) ==
  /\ manager = 0 /\ session = 0 /\ life[s] = "none" /\ \A r \in Sessions : r < s => life[r] # "none"
  /\ job = Idle
  /\ manager' = s /\ life' = [life EXCEPT ![s] = "checked"]
  /\ UNCHANGED <<storeVars, session, threadVars, memVars, historyVars, faults>>

(* EpisodeDirRecorder(): an existing dataset is swept and counted anew, *)
(* and the manifest that was read is written.                           *)
Open(s) ==
  /\ life[s] = "checked"
  /\ life' = [life EXCEPT ![s] = "opened"]
  /\ IF manifest.made THEN SweepsOwn ELSE UNCHANGED <<diskVars, swept>>
  /\ mem' = [mem EXCEPT ![s] = IF manifest.made THEN Rebuilt(manifest)
                               ELSE [NoManifest EXCEPT !.made = TRUE]]
  /\ KeepClients /\ UNCHANGED <<manager, session, threadVars, held, historyVars, faults>>

WriteOpened(s) ==
  /\ life[s] = "opened" /\ lock = None
  /\ life' = [life EXCEPT ![s] = "built"]
  /\ manifest' = mem[s] /\ mem' = [mem EXCEPT ![s] = NoManifest]
  /\ UNCHANGED <<diskVars, lock, rest, job, askedVars, manager, session, threadVars, held,
                 historyVars, faults>>

(* The control loop starts, and the recorder's thread. *)
Start(s) ==
  /\ life[s] = "built"
  /\ life' = [life EXCEPT ![s] = "on"] /\ pc' = [pc EXCEPT ![s] = "loop"]
  /\ UNCHANGED <<storeVars, manager, session, rec, buf, memVars, historyVars, faults>>

Publish(s) ==
  /\ life[s] = "on" /\ manager = s /\ session = 0
  /\ session' = s /\ manager' = 0
  /\ UNCHANGED <<storeVars, life, threadVars, memVars, historyVars, faults>>

(* A bring-up that fails later, or teardown: stop() clears _running. *)
Stop(s) ==
  /\ life[s] = "on" /\ s \in Ending
  /\ \/ manager = s /\ session = 0
     \/ manager = 0 /\ session = s
  /\ manager' = s /\ life' = [life EXCEPT ![s] = "stopping"]
  /\ UNCHANGED <<storeVars, session, threadVars, memVars, historyVars, faults>>

Ended(s) ==
  /\ manager = s /\ life[s] = "stopping"
  /\ manager' = 0 /\ session' = 0 /\ life' = [life EXCEPT ![s] = "left"]

(* The thread has ended, with its own shutdown; nothing asks it any more. *)
StopReturns(s) ==
  /\ pc[s] = "dead" /\ Ended(s)
  /\ rec' = [rec EXCEPT ![s] = NewRec]
  /\ UNCHANGED <<storeVars, pc, buf, memVars, historyVars, faults>>

Writing == {"write", "json", "replace", "count", "record", "saved", "drop", "hook"}

(* 30 s later it is still at an episode: its shutdown is left to it. *)
StopTimesOut(s) ==
  /\ pc[s] \in Writing /\ Ended(s)
  /\ UNCHANGED <<storeVars, threadVars, memVars, historyVars, faults>>

(* The return motion ends, whatever its worker reports. *)
ReturnEnds(s) ==
  /\ rec[s].returning
  /\ rec' = [rec EXCEPT ![s] = [@ EXCEPT !.returning = FALSE]]
  /\ UNCHANGED <<storeVars, managerVars, pc, buf, memVars, historyVars, faults>>

ManagerStep(s) ==
  \/ Open(s) \/ WriteOpened(s) \/ Start(s) \/ Publish(s) \/ StopReturns(s)

-----------------------------------------------------------------------------
(* The control loop: request(), while the session's loop runs.             *)
Asks(s, next) ==
  /\ life[s] \in {"on", "stopping"}
  /\ ~ rec[s].degraded /\ rec[s].op = None
  /\ rec' = [rec EXCEPT ![s] = next]
  /\ UNCHANGED <<storeVars, managerVars, pc, memVars, told, faults>>

RequestNew(s) ==
  /\ rec[s].state = "idle" /\ ~ rec[s].returning
  /\ buf[s] = None /\ pc[s] # "dead" /\ minted < MaxIds
  /\ minted' = minted + 1 /\ buf' = [buf EXCEPT ![s] = minted + 1]
  /\ Asks(s, [rec[s] EXCEPT !.state = "recording", !.got = "nothing", !.prepare = TRUE])

(* A lone capture has no action yet: nothing to save. *)
RequestSave(s) ==
  /\ rec[s].state = "recording"
  /\ rec[s].got \in {"captures", "frames"}
  /\ Asks(s, [rec[s] EXCEPT !.state = "saving", !.op = "save"])
  /\ UNCHANGED <<buf, minted>>

RequestDiscard(s) ==
  /\ rec[s].state = "recording"
  /\ Asks(s, [rec[s] EXCEPT !.state = "saving", !.op = "discard"])
  /\ UNCHANGED <<buf, minted>>

(* status(): the counters are re-read without a lock, then put in memory   *)
(* (which matters here only while a save counts).                          *)
ReadCounters(s) ==
  /\ life[s] \in {"on", "stopping"} /\ pc[s] \in {"count", "record"}
  /\ ~ held[s].made /\ Asked
  /\ held' = [held EXCEPT ![s] = manifest]
  /\ UNCHANGED <<diskVars, manifest, lock, rest, job, deleted, swept, managerVars, threadVars,
                 mem, historyVars, faults>>

PutCounters(s) ==
  /\ held[s].made /\ held' = [held EXCEPT ![s] = NoManifest]
  /\ mem' = [mem EXCEPT ![s] = IF pc[s] = "record" THEN held[s] ELSE @]
  /\ UNCHANGED <<storeVars, managerVars, threadVars, historyVars, faults>>

Request(s) == RequestNew(s) \/ RequestSave(s) \/ RequestDiscard(s)

-----------------------------------------------------------------------------
(* The recorder's thread.                                                  *)
At(s, here, there) == pc[s] = here /\ pc' = [pc EXCEPT ![s] = there]
KeepOthers == UNCHANGED <<managerVars, memVars, historyVars, faults>>

(* The loop of _run: stop() is seen before anything that was asked for. *)
LoopEnds(s) ==
  /\ life[s] # "on" /\ At(s, "loop", "shut")
  /\ UNCHANGED <<storeVars, rec, buf>> /\ KeepOthers

(* A capture is dropped, or waits for its successor (in the filter's window *)
(* or as the pending one), or turns an earlier one into a frame; a lone one *)
(* still makes nothing.                                                     *)
Captured(got) == {got, "frames"} \union (IF got = "nothing" THEN {"captures"} ELSE {})

(* run_iteration while recording; the first one opens the .tmp- directory  *)
(* and the encoder's file in it.                                           *)
Iterate(s) ==
  /\ life[s] = "on" /\ rec[s].state = "recording"
  /\ At(s, "loop", "loop")
  /\ \E got \in Captured(rec[s].got) :
       rec' = [rec EXCEPT ![s] = [@ EXCEPT !.got = got, !.prepare = FALSE]]
  /\ IF rec[s].prepare
     THEN /\ place' = [place EXCEPT ![buf[s]] = "temp"]
          /\ files' = [files EXCEPT ![buf[s]] = {"video"}]
     ELSE UNCHANGED diskVars
  /\ UNCHANGED buf /\ KeepStore /\ KeepOthers

(* What _capture does not catch ends the thread. *)
CaptureRaises(s) ==
  /\ life[s] = "on" /\ rec[s].state = "recording" /\ Fault
  /\ At(s, "loop", "shut")
  /\ UNCHANGED <<storeVars, rec, buf, managerVars, memVars, historyVars>>

(* _do_save decides what the filter still holds; with no frame it discards. *)
TakeSave(s) ==
  /\ life[s] = "on" /\ rec[s].op = "save"
  /\ \/ At(s, "loop", "write")
     \/ rec[s].got = "captures" /\ At(s, "loop", "drop")
  /\ UNCHANGED <<storeVars, rec, buf>> /\ KeepOthers

TakeDiscard(s) ==
  /\ life[s] = "on" /\ rec[s].op = "discard"
  /\ At(s, "loop", "drop")
  /\ UNCHANGED <<storeVars, rec, buf>> /\ KeepOthers

(* EpisodeDirRecorder.save: the videos are moved and the frames written,   *)
(* then episode.json, then the directory gets its name.  json is written   *)
(* by write_json_atomic, which makes the directory again if it is gone.    *)
Lost(s) == place[buf[s]] # "temp"

Write(s) ==
  /\ At(s, "write", "json") /\ ~ Lost(s)
  /\ files' = [files EXCEPT ![buf[s]] = @ \union {"frames"}]
  /\ UNCHANGED <<place, rec, buf>> /\ KeepStore /\ KeepOthers

WriteJson(s) ==
  /\ At(s, "json", "replace")
  /\ place' = [place EXCEPT ![buf[s]] = "temp"]
  /\ files' = [files EXCEPT ![buf[s]] = @ \union {"json"}]
  /\ UNCHANGED <<rec, buf>> /\ KeepStore /\ KeepOthers

Replace(s) ==
  /\ At(s, "replace", "count") /\ ~ Lost(s)
  /\ place' = [place EXCEPT ![buf[s]] = "saved"]
  /\ UNCHANGED <<files, rec, buf>> /\ KeepStore /\ KeepOthers

RetryResumes(s) == IF rec[s].tries = 0 THEN "json" ELSE "degrade"   \* mutant: redoes too little
RetryForever(s) == "write"                                          \* mutant: never given up

(* A failed save is tried once more, then recording is degraded. *)
AfterFailure(s) == IF rec[s].tries = 0 THEN "write" ELSE "degrade"

SaveFails(s) ==
  /\ \/ pc[s] \in {"write", "replace"} /\ Lost(s) /\ UNCHANGED faults
     \/ pc[s] \in {"write", "json", "replace"} /\ Fault
  /\ pc' = [pc EXCEPT ![s] = AfterFailure(s)]
  /\ rec' = [rec EXCEPT ![s] = [@ EXCEPT !.tries = 1]]
  /\ UNCHANGED <<storeVars, buf, managerVars, memVars, historyVars>>

(* _after_publication, under MANIFEST_LOCK; best effort. *)
Recount(s) ==
  /\ lock = None /\ lock' = s /\ At(s, "count", "record")
  /\ mem' = [mem EXCEPT ![s] = Rebuilt(IF manifest.made THEN manifest ELSE @)]
  /\ UNCHANGED <<diskVars, manifest, rest, job, askedVars, rec, buf, managerVars, held,
                 historyVars, faults>>

WriteManifest(s) ==
  /\ lock' = None /\ At(s, "record", "saved")
  /\ manifest' = Stale(mem[s]) /\ mem' = [mem EXCEPT ![s] = NoManifest]
  /\ UNCHANGED <<diskVars, rest, job, askedVars, rec, buf, managerVars, held, historyVars, faults>>

RecountFails(s) ==
  /\ Fault /\ At(s, "count", "saved")
  /\ UNCHANGED <<storeVars, rec, buf, managerVars, memVars, historyVars>>

(* save() has returned: the episode-saved hook. *)
TellSaved(s) ==
  /\ At(s, "saved", "hook")
  /\ Tell(buf[s], "saved") /\ buf' = [buf EXCEPT ![s] = None]
  /\ UNCHANGED <<storeVars, rec, managerVars, memVars, minted, faults>>

KeepsTemp(s) == UNCHANGED diskVars    \* mutant: the directory of a discarded episode stays

(* EpisodeDirRecorder.discard *)
RemoveTemp(s) == Erased({buf[s]})

Drop(s) ==
  /\ At(s, "drop", "hook")
  /\ RemoveTemp(s)
  /\ Tell(buf[s], "discarded") /\ buf' = [buf EXCEPT ![s] = None]
  /\ UNCHANGED rec /\ KeepStore /\ UNCHANGED <<managerVars, memVars, minted, faults>>

(* on_episode_done: the manager looks up the session that runs now.  The   *)
(* return motion is skipped for several reasons.                           *)
Hook(s) ==
  /\ At(s, "hook", "flip")
  /\ \/ UNCHANGED rec
     \/ /\ session # 0 /\ life[session] = "on"
        /\ \E b \in BOOLEAN : rec' = [rec EXCEPT ![session] = [@ EXCEPT !.returning = b]]
  /\ UNCHANGED <<storeVars, buf>> /\ KeepOthers

Flip(s) ==
  /\ At(s, "flip", "loop")
  /\ rec' = [rec EXCEPT ![s] = [@ EXCEPT !.state = "idle", !.op = None, !.got = "nothing", !.tries = 0]]
  /\ UNCHANGED <<storeVars, buf>> /\ KeepOthers

(* _degrade_after_failed_save keeps the buffer and the directory. *)
Degrade(s) ==
  /\ At(s, "degrade", "loop")
  /\ Tell(buf[s], "discarded")
  /\ rec' = [rec EXCEPT ![s] = [@ EXCEPT !.state = "idle", !.op = None, !.degraded = TRUE]]
  /\ UNCHANGED <<storeVars, buf, managerVars, memVars, minted, faults>>

ShutdownRepeats(s) ==       \* mutant: a degraded episode is announced again
  /\ At(s, "shut", "discard")
  /\ rec' = [rec EXCEPT ![s] = [@ EXCEPT !.state = "idle", !.op = None, !.was = buf[s] # None]]
  /\ UNCHANGED <<storeVars, buf>> /\ KeepOthers

(* _shutdown: an episode still open is discarded, and said to be; then     *)
(* finalize discards what a request opened meanwhile and sweeps.           *)
Shutdown(s) ==
  /\ At(s, "shut", "discard")
  /\ rec' = [rec EXCEPT ![s] = [@ EXCEPT !.state = "idle", !.op = None, !.was = rec[s].state # "idle"]]
  /\ UNCHANGED <<storeVars, buf>> /\ KeepOthers

ShutdownDiscards(s) ==
  /\ At(s, "discard", "finalize")
  /\ RemoveTemp(s) /\ buf' = [buf EXCEPT ![s] = None]
  /\ IF rec[s].was THEN Tell(buf[s], "discarded") ELSE UNCHANGED told
  /\ UNCHANGED rec /\ KeepStore /\ UNCHANGED <<managerVars, memVars, minted, faults>>

Finalize(s) ==
  /\ At(s, "finalize", "dead")
  /\ SweepsOwn /\ buf' = [buf EXCEPT ![s] = None]
  /\ UNCHANGED rec /\ KeepClients /\ KeepOthers

ThreadStep(s) ==
  \/ LoopEnds(s) \/ Iterate(s) \/ TakeSave(s) \/ TakeDiscard(s)
  \/ Write(s) \/ WriteJson(s) \/ Replace(s) \/ SaveFails(s)
  \/ Recount(s) \/ WriteManifest(s) \/ RecountFails(s)
  \/ TellSaved(s) \/ Drop(s) \/ Hook(s) \/ Flip(s) \/ Degrade(s)
  \/ Shutdown(s) \/ ShutdownDiscards(s) \/ Finalize(s)

-----------------------------------------------------------------------------
(* The process dies, and starts anew: Runtime.start sweeps every dataset.  *)
Restart ==
  /\ Fault
  /\ Erased(Temps)
  /\ lock' = None /\ rest' = Idle /\ job' = Idle
  /\ manager' = 0 /\ session' = 0
  /\ life' = [s \in Sessions |-> IF life[s] = "none" THEN "none" ELSE "left"]
  /\ pc' = [s \in Sessions |-> IF life[s] = "none" THEN "off" ELSE "dead"]
  /\ rec' = [s \in Sessions |-> NewRec] /\ buf' = [s \in Sessions |-> None]
  /\ mem' = [s \in Sessions |-> NoManifest] /\ held' = [s \in Sessions |-> NoManifest]
  /\ UNCHANGED <<manifest, askedVars, historyVars>>

InUse == session # 0
OpenEpisode == IF session # 0 /\ rec[session].state # "idle" THEN buf[session] ELSE None

Client ==
  /\ List(InUse) \/ Export(InUse) \/ (\E i \in EpisodeIds : Delete(i, OpenEpisode)) \/ StoreStep
  /\ UNCHANGED recorderVars

RecorderNext ==
  \/ Client \/ Restart
  \/ \E s \in Sessions :
       \/ Check(s) \/ Stop(s) \/ StopTimesOut(s) \/ ReturnEnds(s) \/ ManagerStep(s)
       \/ Request(s) \/ ReadCounters(s) \/ PutCounters(s)
       \/ CaptureRaises(s) \/ ThreadStep(s)

(* The recorder's thread goes on whatever a step raises, and the manager's *)
(* calls return; nobody owes a request.                                    *)
RecorderSpec ==
  /\ RecorderInit /\ [][RecorderNext]_vars
  /\ \A s \in Sessions : WF_vars(ThreadStep(s)) /\ WF_vars(ManagerStep(s))

-----------------------------------------------------------------------------
(* Types. *)
Manifests == [made : BOOLEAN, episodes : 0..Cardinality(EpisodeIds),
              export : {"none", "fresh", "stale"}, took : SUBSET EpisodeIds]
Recs == [state : {"idle", "recording", "saving"}, op : {None, "save", "discard"},
         degraded : BOOLEAN, returning : BOOLEAN, got : {"nothing", "captures", "frames"},
         prepare : BOOLEAN, tries : 0..1, was : BOOLEAN]
TypeOK ==
  /\ place \in [EpisodeIds -> {"none", "temp", "saved"}] /\ files \in [EpisodeIds -> SUBSET Parts]
  /\ manifest \in Manifests /\ lock \in Sessions \union {None}
  /\ rest \in [at : {"idle", "sweep", "rmdir", "delete", "rmtree", "refresh"}, ids : SUBSET EpisodeIds]
  /\ job \in [at : {"idle", "scan", "read", "record", "fail"}, ids : SUBSET EpisodeIds]
  /\ manager \in Sessions \union {0} /\ session \in Sessions \union {0}
  /\ life \in [Sessions -> {"none", "checked", "opened", "built", "on", "stopping", "left"}]
  /\ pc \in [Sessions -> {"off", "loop", "degrade", "flip", "shut", "discard", "finalize", "dead"}
                         \union Writing]
  /\ rec \in [Sessions -> Recs]
  /\ buf \in [Sessions -> EpisodeIds \union {None}]
  /\ mem \in [Sessions -> Manifests] /\ held \in [Sessions -> Manifests]
  /\ minted \in 0..MaxIds /\ told \in [EpisodeIds -> {"nothing", "saved", "discarded", "twice"}]

(* A saved episode is complete: whatever fails, stops or crashes while it  *)
(* is written, its directory gets its name with everything in it, unless   *)
(* somebody else swept it meanwhile (a listing, or the recorder of another *)
(* session) or a client deleted it (episode_recorder.py: "Save = one       *)
(* rename").  And what was announced is so: a saved episode is on disk     *)
(* until a client deletes it, a discarded one (degraded and torn down ones *)
(* too) is never published.                                                *)
SavedIsWhole ==
  /\ \A i \in EpisodeIds \ (swept \union deleted) : place[i] = "saved" => files[i] = Parts
  /\ \A i \in EpisodeIds \ deleted : told[i] = "saved" => place[i] = "saved"
  /\ \A i \in EpisodeIds : told[i] = "discarded" => place[i] # "saved"

(* Every .tmp- directory belongs to an episode some recorder has open: a   *)
(* discard, a teardown or a restart leaves none behind.                    *)
TempHasOwner == \A i \in Temps : \E s \in Sessions : buf[s] = i

(* The trainer and the session's books hear of an episode once.            *)
ToldOnce == [][\A i \in EpisodeIds : told[i] # "nothing" => told'[i] = told[i]]_told

(* The recorder never stays in saving: a save or a discard that its thread *)
(* has not already shut down on ends, by being done, by degrading or by    *)
(* that shutdown.                                                          *)
SavingEnds ==
  \A s \in Sessions :
    rec[s].state = "saving" /\ pc[s] \notin {"discard", "finalize", "dead"}
      ~> rec[s].state # "saving"

=============================================================================
