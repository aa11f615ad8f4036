------------------------------- MODULE Dagger -------------------------------
(***************************************************************************)
(* A DAgger session: the control loop with the takeover gate and the       *)
(* policy (dagger/loop.py), the policy's runner, the reloader and, as far  *)
(* as it decides when an episode ends, the recorder (dagger/recorder.py    *)
(* over recorder/thread.py).                                               *)
(*                                                                         *)
(* A tick handles commands ("ops"), settles the boundary of an episode     *)
(* that has closed, advances the gate, looks at the newest row ("drive"    *)
(* when it has) and moves the arms.  A boundary is several steps, as it    *)
(* waits for the policy lock: it leads through "load" and "loaded" when    *)
(* there are weights to load, then "resume", and on to where it was        *)
(* called from.                                                            *)
(***************************************************************************)
EXTENDS Reloader

CONSTANTS
  Arms,
  MaxEpisodes,    \* bound: episodes started
  MaxToggles,     \* bound: takeovers and handbacks
  StrikeLimit     \* NAN_STRIKES_PER_EPISODE

RecStates == {"idle", "returning", "recording", "saving"}
OpenStates == {"recording", "saving"}

ASSUME DaggerAssumption ==
  /\ Arms # {}
  /\ None \notin {"runner", "loop", "save", "saved", "discard"} \cup RecStates
  /\ MaxEpisodes \in Nat /\ MaxToggles \in Nat /\ StrikeLimit \in Nat \ {0}

VARIABLES
  mode,       \* of each arm: "policy", "transition" (the blend) or "human"
  active,     \* the arm the operator's keys go to
  rec,        \* recorder's state: "idle", "returning", "recording", "saving"
  job,        \* what its thread has to do: None, "save", "saved" (hook run), "discard"
  ep,         \* episodes started
  at,         \* where the loop's thread is
  after,      \* where a boundary returns to: "new" or "look"
  read,       \* the recorder's state a boundary in progress has read, or None
  prev,       \* _prev_ep_state
  episode,    \* episode_state: what the loop knew at the end of its last tick
  saved,      \* _saved_boundary
  taken,      \* _boundary_taken
  tracked,    \* _ep_id: the episode the bookkeeping is about, 0 before the first
  loading,    \* version being loaded, or None
  strikes, dirty,    \* _nan_strikes, _episode_dirty
  toggles,    \* what the bound counts
  settled     \* history: boundaries run, by episode the loop has seen

gateVars == <<mode, active>>
recVars == <<rec, job, ep>>
bookVars == <<read, prev, saved, taken, tracked, settled>>
loopVars == <<at, after, loading, episode, strikes, dirty, toggles>>
vars == <<gateVars, runnerVars, reloaderVars, recVars, bookVars, loopVars>>

(***************************************************************************)
(* The gate (dagger/gate.py): who drives an arm, the policy or the         *)
(* operator, who takes it over through a short blend, at most one arm at   *)
(* a time.                                                                 *)
(***************************************************************************)
GateTypeOK ==
  /\ mode \in [Arms -> {"policy", "transition", "human"}]
  /\ active \in Arms

GateInit == mode = [a \in Arms |-> "policy"] /\ active \in Arms

Engaged == {a \in Arms : mode[a] # "policy"}
Frozen(a) == Engaged # {} /\ a \notin Engaged

MayToggle(a) == Engaged \subseteq {a}    \* another arm engaged: nack

Toggled(a) == IF mode[a] = "policy" THEN "transition" ELSE "policy"
Toggle(a) == MayToggle(a) /\ mode' = [mode EXCEPT ![a] = Toggled(a)]

(* gate.tick: the blend's time may have passed or not. *)
Blended == {mode} \cup {[a \in Arms |-> IF mode[a] = "transition" THEN "human" ELSE mode[a]]}

Reset == mode' = [a \in Arms |-> "policy"]    \* an episode ended

(***************************************************************************)
(* The session.                                                            *)
(***************************************************************************)
TypeOK ==
  /\ GateTypeOK /\ RunnerTypeOK /\ ReloaderTypeOK
  /\ rec \in RecStates /\ read \in RecStates \cup {None}
  /\ prev \in RecStates /\ episode \in RecStates
  /\ job \in {None, "save", "saved", "discard"} /\ ep \in 0..MaxEpisodes
  /\ at \in {"ops", "load", "loaded", "resume", "new", "look", "drive"}
  /\ after \in {"new", "look", "drive"}
  /\ saved \in BOOLEAN /\ taken \in BOOLEAN /\ dirty \in BOOLEAN
  /\ tracked \in 0..MaxEpisodes /\ loading \in Versions \cup {None}
  /\ strikes \in 0..MaxNans /\ toggles \in 0..MaxToggles
  /\ DOMAIN settled \subseteq 1..MaxEpisodes /\ \A e \in DOMAIN settled : settled[e] \in Nat

Init ==
  /\ GateInit /\ RunnerInit /\ ReloaderInit
  /\ rec = "idle" /\ job = None /\ ep = 0
  /\ at = "ops" /\ after = "look" /\ read = None /\ prev = "idle" /\ episode = "idle"
  /\ saved = FALSE /\ taken = FALSE /\ tracked = 0 /\ loading = None
  /\ strikes = 0 /\ dirty = FALSE /\ toggles = 0
  /\ settled = << >>

(***************************************************************************)
(* The boundary.                                                           *)
(***************************************************************************)
Closed(state) ==
  prev \in OpenStates /\ (state \notin OpenStates \/ (prev = "saving" /\ state = "recording"))

DueTwice(state) == saved \/ Closed(state)    \* mutant: a saved episode closes once more
Due(state) == saved \/ (Closed(state) /\ ~taken)

(* The end of _settle_boundary, in the step that reaches it. *)
Track(state) ==
  /\ prev' = state
  /\ IF state = "recording" /\ prev # "recording"
     THEN /\ taken' = FALSE /\ tracked' = ep
          /\ settled' = [e \in DOMAIN settled \cup {ep} |->
                           IF e \in DOMAIN settled THEN settled[e] ELSE 0]
     ELSE UNCHANGED <<taken, tracked, settled>>

MarkGood == good' = IF ~dirty /\ strikes = 0 THEN current ELSE good

(* _settle_boundary up to where the weights are loaded. *)
Settle(then) ==
  /\ saved' = FALSE
  /\ IF Due(rec)
     THEN /\ read' = rec /\ after' = then
          /\ taken' = TRUE /\ UNCHANGED <<prev, tracked>>
          /\ settled' = [e \in DOMAIN settled |-> settled[e] + IF e = tracked THEN 1 ELSE 0]
          /\ Reset /\ MarkGood
          /\ loading' = Wanted /\ staged' = None
          /\ at' = IF Wanted = None THEN "resume" ELSE "load"
     ELSE /\ Track(rec) /\ at' = then
          /\ UNCHANGED <<mode, good, loading, staged, read, after>>
  /\ UNCHANGED <<active, runnerVars, written, latest, current, found,
                 recVars, episode, strikes, dirty, toggles>>

(* mutant: the weights are loaded without the policy lock. *)
LoadUnlocked ==
  /\ at = "load" /\ weights' = loading /\ at' = "loaded"
  /\ UNCHANGED <<loading, gateVars, threadVars, slotVars, reloaderVars, recVars, bookVars,
                 after, episode, strikes, dirty, toggles>>

(* _load, for a swap or a rollback: it may fail and leave the weights as they are. *)
Load ==
  /\ at = "load" /\ locked = None
  /\ \/ weights' = loading /\ at' = "loaded" /\ UNCHANGED loading
     \/ loading' = None /\ at' = (IF after = "drive" THEN "drive" ELSE "resume")
        /\ UNCHANGED weights
  /\ UNCHANGED <<gateVars, threadVars, slotVars, reloaderVars, recVars, bookVars,
                 after, episode, strikes, dirty, toggles>>

Loaded ==
  /\ at = "loaded"
  /\ current' = loading /\ loading' = None
  /\ at' = IF after = "drive" THEN "drive" ELSE "resume"
  /\ UNCHANGED <<gateVars, runnerVars, storeVars, staged, found, recVars, bookVars,
                 after, episode, strikes, dirty, toggles>>

(* The rest of the boundary, and of _settle_boundary. *)
Resume ==
  /\ at = "resume" /\ at' = after
  /\ strikes' = 0 /\ dirty' = FALSE
  /\ paused' = FALSE /\ DropAndRequery
  /\ read' = None /\ Track(read)
  /\ UNCHANGED <<gateVars, weights, threadVars, looked, reloaderVars, recVars,
                 saved, after, loading, episode, toggles>>

(***************************************************************************)
(* Commands.                                                               *)
(***************************************************************************)
OpEpisodeNew == at = "ops" /\ ep < MaxEpisodes /\ Settle("new")

EpisodeOp(state, todo, n) ==
  /\ rec' = state /\ job' = todo /\ ep' = n
  /\ UNCHANGED <<gateVars, runnerVars, reloaderVars, bookVars, after, loading,
                 episode, strikes, dirty, toggles>>

RequestNew ==
  /\ at = "new" /\ at' = "ops"
  /\ IF rec = "idle" /\ job = None
     THEN EpisodeOp("recording", None, ep + 1)
     ELSE EpisodeOp(rec, job, ep)

OpEpisodeSave ==
  /\ at = "ops" /\ UNCHANGED at
  /\ rec = "recording" /\ tracked = ep    \* two captures, so a tick between them
  /\ EpisodeOp("saving", "save", ep)

OpEpisodeDiscard ==
  /\ at = "ops" /\ UNCHANGED at
  /\ rec = "recording"
  /\ EpisodeOp("saving", "discard", ep)

(* takeover, handback and the toggle, from the active arm. *)
OpTakeover ==
  /\ at = "ops" /\ toggles < MaxToggles /\ Toggle(active)
  /\ toggles' = toggles + 1
  /\ IF mode[active] = "policy" THEN UNCHANGED <<out, requery, dropped>> ELSE DropAndRequery
  /\ UNCHANGED <<active, weights, threadVars, looked, paused, reloaderVars, recVars, bookVars,
                 at, after, loading, episode, strikes, dirty>>

OpSwitchArm ==
  /\ at = "ops" /\ Engaged = {} /\ active' \in Arms \ {active}
  /\ UNCHANGED <<mode, runnerVars, reloaderVars, recVars, bookVars, loopVars>>

(***************************************************************************)
(* The rest of the tick.                                                   *)
(***************************************************************************)
BeginTick == at = "ops" /\ Settle("look")

(* The gate's clock, and the newest row if the loop has not seen it.  The  *)
(* strike that reaches the limit pauses the runner and rolls back.         *)
Strike == out # None /\ ~looked /\ ~out.finite
Out == Strike /\ strikes + 1 >= StrikeLimit /\ ~paused

LookAtRow ==
  /\ at = "look" /\ mode' \in Blended
  /\ looked' = TRUE
  /\ strikes' = IF Strike THEN strikes + 1 ELSE strikes
  /\ dirty' = (dirty \/ Strike)
  /\ paused' = (paused \/ Out) /\ out' = IF Out THEN None ELSE out
  /\ loading' = IF Out THEN RollbackTarget ELSE None
  /\ after' = "drive" /\ at' = IF loading' = None THEN "drive" ELSE "load"
  /\ UNCHANGED <<active, weights, threadVars, requery, dropped, reloaderVars, recVars, bookVars,
                 episode, toggles>>

(* The arms move; the tick's end reads the recorder's state.  A run of     *)
(* blocked ticks is an anomaly: the episode is not a clean one.            *)
PolicyDrives == episode = "recording" /\ ~paused /\ Engaged = {} /\ out # None

Drive ==
  /\ at = "drive" /\ at' = "ops" /\ episode' = rec
  /\ \/ UNCHANGED dirty
     \/ PolicyDrives /\ dirty' = TRUE
  /\ UNCHANGED <<gateVars, runnerVars, reloaderVars, recVars, bookVars, after, loading,
                 strikes, toggles>>

(***************************************************************************)
(* The recorder's thread and the manager's return motion.                  *)
(***************************************************************************)
Recorder(state, todo) ==
  /\ rec' = state /\ job' = todo
  /\ UNCHANGED <<gateVars, runnerVars, reloaderVars, ep, read, prev, taken, tracked, settled,
                 loopVars>>

EpisodeSaved == job = "save" /\ Recorder(rec, "saved") /\ saved' = TRUE

(* Discarded, empty, or failed twice: no callback. *)
EpisodeOver ==
  /\ job # None /\ UNCHANGED saved
  /\ \E state \in {"idle", "returning"} : Recorder(state, None)

Returned == rec = "returning" /\ Recorder("idle", job) /\ UNCHANGED saved

----------------------------------------------------------------------------
LoopStep == BeginTick \/ Load \/ Loaded \/ Resume \/ RequestNew \/ LookAtRow \/ Drive

Command == OpEpisodeNew \/ OpEpisodeSave \/ OpEpisodeDiscard \/ OpTakeover \/ OpSwitchArm

Thread(A) == A /\ UNCHANGED <<gateVars, recVars, bookVars, loopVars>>

RunnerRuns == Thread(RunnerStep /\ UNCHANGED reloaderVars)
ReloaderRuns == Thread(ReloaderStep /\ UNCHANGED runnerVars)
RecorderRuns == EpisodeSaved \/ EpisodeOver

Next == LoopStep \/ Command \/ RunnerRuns \/ ReloaderRuns \/ RecorderRuns \/ Returned

Spec == Init /\ [][Next]_vars
----------------------------------------------------------------------------
(* Every episode the loop has seen gets one boundary: not while it still   *)
(* records, not a second one from the other of the two sources (the save   *)
(* callback and the recorder's state), and no arm is moved in an episode   *)
(* before the boundary of the one before.                                  *)
OneBoundaryEach ==
  /\ \A e \in DOMAIN settled : settled[e] <= IF e = ep /\ rec = "recording" THEN 0 ELSE 1
  /\ at = "drive" =>
       /\ \A e \in DOMAIN settled \ {tracked} : settled[e] = 1
       /\ prev = "recording" => tracked = ep

(* The weights are never changed under an act: the row names the version   *)
(* that computed it.                                                       *)
WeightsStandDuringAct == [][thread = "act" => weights' = weights]_vars

(* The reloader keeps what PolicyVersions promises.                        *)
EpisodeOpen == tracked # 0 /\ ~taken
Promise == INSTANCE PolicyVersions WITH running <- weights, open <- EpisodeOpen
VersionsKept == Promise!VersionsSpec

=============================================================================
