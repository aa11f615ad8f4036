---------------------------- MODULE Dagger_proofs ----------------------------
(***************************************************************************)
(* Proofs about a DAgger session (Dagger): its types, one boundary for     *)
(* each episode, weights that stand while the policy acts, and that the    *)
(* session implements PolicyVersions.                                      *)
(***************************************************************************)
EXTENDS Dagger, TLAPS

(* The policy lock is the runner's exactly while it resets the policy or   *)
(* acts; the loop never keeps it beyond its own step.                      *)
LockInv ==
  /\ locked = IF thread \in {"clear", "act"} THEN "runner" ELSE None
  /\ thread = "publish" => row \in Rows

(* Rows that are not finite and still to be struck: one in the slot, one   *)
(* in the runner's hand.  A strike is one the bound on such rows has paid. *)
Unstruck ==
  (IF out # None /\ ~looked /\ ~out.finite THEN 1 ELSE 0)
    + (IF thread = "publish" /\ ~row.finite THEN 1 ELSE 0)
StrikeInv == strikes + Unstruck <= nans

(* A boundary's thread is between its two halves. *)
Midway == at \in {"load", "loaded", "resume"} /\ after # "drive"

(* The weights are those of the current version but between the load and   *)
(* the note of it; what is loaded is newer in a boundary and the last      *)
(* version known to be good in a rollback.                                 *)
WeightsInv ==
  /\ weights = IF at = "loaded" THEN loading ELSE current
  /\ at \in {"load", "loaded"} => loading \in Versions
  /\ at = "resume" => after # "drive"
  /\ at = "load" => IF after = "drive" THEN loading = good ELSE loading > current
  /\ at = "loaded" /\ after = "drive" => loading = good
  /\ tracked = 0 /\ ~taken => good = current

(* What the loop knows of the episode the recorder has. *)
EpisodeInv ==
  /\ tracked <= ep
  /\ job # None <=> rec = "saving"
  /\ rec = "recording" => ep > 0
  /\ rec = "recording" /\ tracked = ep => ~taken /\ ~saved /\ prev = "recording"
  /\ job = "save" => ~taken /\ ~saved /\ tracked = ep
  /\ saved => ~taken
  /\ at = "new" /\ prev = "recording" => rec = "recording"
  /\ prev = "recording" /\ ~Midway => tracked = ep
  /\ prev \notin OpenStates => taken \/ tracked = 0
  /\ at = "new" \/ (Midway /\ after = "new") => ep < MaxEpisodes
  /\ Midway =>
       /\ taken /\ read \in RecStates
       /\ read = "recording" => /\ rec = "recording" /\ ~saved
                                /\ tracked # ep /\ prev # "recording"

(* The boundaries counted: every episode before the one tracked has had    *)
(* its own, the one tracked when the loop says so.                         *)
SettledInv ==
  /\ DOMAIN settled \subseteq 1..tracked
  /\ \A e \in DOMAIN settled : settled[e] = IF e = tracked /\ ~taken THEN 0 ELSE 1

DaggerInv ==
  TypeOK /\ LockInv /\ StrikeInv /\ WeightsInv /\ EpisodeInv /\ SettledInv

----------------------------------------------------------------------------
(* The groups of variables a step leaves alone. *)
USE DEF gateVars, runnerVars, slotVars, threadVars, reloaderVars, storeVars, recVars, bookVars,
     loopVars

LEMMA DaggerStart == Init => DaggerInv
<1> SUFFICES ASSUME Init PROVE DaggerInv
  OBVIOUS
<1> USE RunnerAssumption, DaggerAssumption DEF Init, GateInit, RunnerInit, ReloaderInit
<1>1. GateTypeOK /\ RunnerTypeOK /\ ReloaderTypeOK
  <2>1. GateTypeOK
    BY DEF GateTypeOK
  <2>2. RunnerTypeOK
    <3>1. weights \in Versions /\ nans \in 0..MaxNans
      OBVIOUS
    <3>2. locked \in {None, "runner", "loop"} /\ thread \in {"look", "lock", "clear", "act",
         "publish"}
      OBVIOUS
    <3> QED BY <3>1, <3>2 DEF RunnerTypeOK
  <2>3. ReloaderTypeOK
    BY DEF ReloaderTypeOK
  <2> QED BY <2>1, <2>2, <2>3
<1>2. DOMAIN settled = {}
  OBVIOUS
<1>3. TypeOK
  <2>1. /\ rec \in RecStates /\ read \in RecStates \cup {None}
        /\ prev \in RecStates /\ episode \in RecStates
        /\ job \in {None, "save", "saved", "discard"} /\ after \in {"new", "look", "drive"}
        /\ at \in {"ops", "load", "loaded", "resume", "new", "look", "drive"}
    BY DEF RecStates
  <2>2. /\ saved \in BOOLEAN /\ taken \in BOOLEAN /\ dirty \in BOOLEAN
        /\ loading \in Versions \cup {None}
    OBVIOUS
  <2>3. /\ ep \in 0..MaxEpisodes /\ tracked \in 0..MaxEpisodes
        /\ strikes \in 0..MaxNans /\ toggles \in 0..MaxToggles
    OBVIOUS
  <2> QED BY <1>1, <1>2, <2>1, <2>2, <2>3 DEF TypeOK
<1>4. LockInv /\ StrikeInv
  BY DEF LockInv, StrikeInv, Unstruck
<1>5. WeightsInv /\ EpisodeInv /\ SettledInv
  BY <1>2 DEF WeightsInv, EpisodeInv, SettledInv, Midway, OpenStates, RecStates
<1> QED BY <1>3, <1>4, <1>5 DEF DaggerInv

(* The gate and its commands keep its types. *)
LEMMA GateTypes == ASSUME TypeOK, [Next]_vars PROVE GateTypeOK'
<1> USE DEF TypeOK, GateTypeOK, Reset, Toggle, Toggled, Blended
<1>1. CASE Command
  BY <1>1 DEF Command, OpEpisodeNew, Settle, OpEpisodeSave, OpEpisodeDiscard, EpisodeOp, OpTakeover,
              OpSwitchArm
<1>2. CASE LoopStep
  BY <1>2 DEF LoopStep, BeginTick, Settle, Load, Loaded, Resume, RequestNew, EpisodeOp, LookAtRow,
              Drive
<1>3. CASE RunnerRuns \/ ReloaderRuns \/ RecorderRuns \/ Returned \/ UNCHANGED vars
  BY <1>3 DEF RunnerRuns, ReloaderRuns, Thread, RecorderRuns, EpisodeSaved, EpisodeOver, Returned,
              Recorder, vars
<1> QED BY <1>1, <1>2, <1>3 DEF Next

(* The runner's. *)
LEMMA RunnerTypes ==
  ASSUME TypeOK, LockInv, WeightsInv, [Next]_vars
  PROVE  RunnerTypeOK' /\ LockInv'
<1> USE RunnerAssumption, DaggerAssumption DEF TypeOK, RunnerTypeOK, LockInv
<1>1. CASE Command
  BY <1>1, ZenonT(40) DEF Command, OpEpisodeNew, Settle, OpEpisodeSave, OpEpisodeDiscard,
       EpisodeOp, OpTakeover,
              OpSwitchArm, DropAndRequery
<1>2. CASE LoopStep
  <2>1. CASE LookAtRow
    <3>1. looked' \in BOOLEAN /\ paused' \in BOOLEAN /\ out' \in Rows \cup {None}
      BY <2>1 DEF LookAtRow, Out
    <3> QED BY <2>1, <3>1 DEF LookAtRow
  <2>2. CASE Resume
    BY <2>2 DEF Resume, DropAndRequery
  <2>3. CASE Load
    BY <2>3 DEF Load, WeightsInv
  <2>4. CASE BeginTick \/ Loaded \/ RequestNew \/ Drive
    BY <2>4 DEF BeginTick, Settle, Loaded, RequestNew, EpisodeOp, Drive
  <2> QED BY <1>2, <2>1, <2>2, <2>3, <2>4 DEF LoopStep
<1>3. CASE RunnerRuns
  <2> USE <1>3 DEF RunnerRuns, Thread, RunnerStep
  <2>1. CASE Look
    BY <2>1 DEF Look
  <2>2. CASE Lock
    BY <2>2 DEF Lock
  <2>3. CASE Clear
    BY <2>3 DEF Clear
  <2>4. CASE Act
    <3>1. PICK finite \in IF nans < MaxNans THEN BOOLEAN ELSE {TRUE} :
             /\ row' = [version |-> weights, finite |-> finite, old |-> FALSE]
             /\ nans' = IF finite THEN nans ELSE nans + 1
      BY <2>4 DEF Act
    <3>2. row' \in Rows
      BY <3>1 DEF Rows
    <3>3. nans' \in 0..MaxNans
      <4>1. nans \in Nat /\ nans <= MaxNans
        OBVIOUS
      <4>2. nans < MaxNans \/ finite = TRUE
        BY ONLY <3>1, Zenon
      <4>3. nans' = nans \/ (nans < MaxNans /\ nans' = nans + 1)
        BY ONLY <3>1, <4>2, Zenon
      <4> QED BY <4>1, <4>3
    <3> QED BY <2>4, <3>2, <3>3 DEF Act
  <2>5. CASE Publish
    <3>1. row \in Rows /\ out' = [row EXCEPT !.old = dropped] /\ dropped \in BOOLEAN
      BY <2>5 DEF Publish
    <3>2. out' \in Rows
      BY <3>1 DEF Rows
    <3> QED BY <2>5, <3>2 DEF Publish
  <2> QED BY <2>1, <2>2, <2>3, <2>4, <2>5
<1>4. CASE ReloaderRuns \/ RecorderRuns \/ Returned \/ UNCHANGED vars
  BY <1>4 DEF ReloaderRuns, Thread, RecorderRuns, EpisodeSaved, EpisodeOver, Returned, Recorder,
       vars
<1> QED BY <1>1, <1>2, <1>3, <1>4 DEF Next

(* The reloader's. *)
LEMMA ReloaderTypes == ASSUME TypeOK, WeightsInv, [Next]_vars PROVE ReloaderTypeOK'
<1> USE RunnerAssumption DEF TypeOK, ReloaderTypeOK
<1>1. CASE Command
  BY <1>1 DEF Command, OpEpisodeNew, Settle, OpEpisodeSave, OpEpisodeDiscard, EpisodeOp, OpTakeover,
              OpSwitchArm, MarkGood
<1>2. CASE LoopStep
  BY <1>2 DEF LoopStep, BeginTick, Settle, Load, Loaded, Resume, RequestNew, EpisodeOp, LookAtRow,
              Drive, MarkGood, WeightsInv
<1>3. CASE ReloaderRuns
  BY <1>3 DEF ReloaderRuns, Thread, ReloaderStep, WriteCheckpoint, Poll, Stage
<1>4. CASE RunnerRuns \/ RecorderRuns \/ Returned \/ UNCHANGED vars
  BY <1>4 DEF RunnerRuns, Thread, RecorderRuns, EpisodeSaved, EpisodeOver, Returned, Recorder, vars
<1> QED BY <1>1, <1>2, <1>3, <1>4 DEF Next

(* A strike is counted once: the row it is of has been looked at.          *)
LEMMA StrikeStep ==
  ASSUME TypeOK, LockInv, StrikeInv, [Next]_vars
  PROVE  strikes' \in 0..MaxNans /\ StrikeInv'
<1>1. nans \in Nat /\ strikes \in Nat /\ MaxNans \in Nat /\ nans <= MaxNans
  BY RunnerAssumption DEF TypeOK, RunnerTypeOK
<1>2. /\ out # None => out \in Rows
      /\ thread = "publish" => row \in Rows
      /\ looked \in BOOLEAN
  BY DEF TypeOK, RunnerTypeOK, LockInv
<1> USE DEF StrikeInv, Unstruck
<1>3. CASE Command
  BY <1>1, <1>3 DEF Command, OpEpisodeNew, Settle, OpEpisodeSave, OpEpisodeDiscard, EpisodeOp,
                    OpTakeover, OpSwitchArm, DropAndRequery
<1>4. CASE LoopStep
  <2>1. CASE LookAtRow
    BY <1>1, <2>1 DEF LookAtRow, Strike, Out
  <2>2. CASE Resume
    BY <1>1, <2>2 DEF Resume, DropAndRequery
  <2>3. CASE BeginTick \/ Load \/ Loaded \/ RequestNew \/ Drive
    BY <1>1, <2>3 DEF BeginTick, Settle, Load, Loaded, RequestNew, EpisodeOp, Drive
  <2> QED BY <1>4, <2>1, <2>2, <2>3 DEF LoopStep
<1>5. CASE RunnerRuns
  <2> USE <1>1, <1>5 DEF RunnerRuns, Thread, RunnerStep
  <2>1. CASE Look \/ Lock \/ Clear
    BY <2>1 DEF Look, Lock, Clear
  <2>2. CASE Act
    BY <2>2 DEF Act
  <2>3. CASE Publish
    BY <1>2, <2>3 DEF Publish, Rows
  <2> QED BY <2>1, <2>2, <2>3
<1>6. CASE ReloaderRuns \/ RecorderRuns \/ Returned \/ UNCHANGED vars
  BY <1>1, <1>6
     DEF ReloaderRuns, Thread, RecorderRuns, EpisodeSaved, EpisodeOver, Returned, Recorder, vars
<1> QED BY <1>3, <1>4, <1>5, <1>6 DEF Next

(* The weights follow the reloader's word, and a swap goes forward.        *)
LEMMA WeightsStep ==
  ASSUME TypeOK, WeightsInv, EpisodeInv, [Next]_vars
  PROVE  WeightsInv'
<1>1. /\ Versions \subseteq Nat /\ None \notin Nat
      /\ current \in Versions /\ good \in Versions /\ staged \in Versions \cup {None}
      /\ taken \in BOOLEAN /\ tracked \in Nat /\ ep \in Nat /\ after \in {"new", "look", "drive"}
  BY RunnerAssumption, DaggerAssumption DEF TypeOK, ReloaderTypeOK
<1> USE DEF WeightsInv
<1>2. CASE Command \/ BeginTick
  <2>1. CASE \E then \in {"new", "look"} : at = "ops" /\ Settle(then)
    <3>1. PICK then \in {"new", "look"} : at = "ops" /\ Settle(then)
      BY <2>1
    <3>2. CASE Due(rec)
      <4>1. good' = good \/ good' = current
        BY <3>1, <3>2 DEF Settle, MarkGood
      <4> QED BY <1>1, <3>1, <3>2 DEF Settle, Wanted
    <3>3. CASE ~Due(rec)
      <4>1. rec = "recording" => ep > 0
        BY DEF EpisodeInv
      <4> QED BY <1>1, <3>1, <3>3, <4>1 DEF Settle, Track
    <3> QED BY <3>2, <3>3
  <2>2. CASE OpEpisodeSave \/ OpEpisodeDiscard \/ OpTakeover \/ OpSwitchArm
    BY <2>2 DEF OpEpisodeSave, OpEpisodeDiscard, EpisodeOp, OpTakeover, OpSwitchArm
  <2> QED BY <1>2, <2>1, <2>2 DEF Command, OpEpisodeNew, BeginTick
<1>3. CASE LoopStep /\ ~BeginTick
  <2>1. CASE Load
    BY <1>1, <2>1 DEF Load
  <2>2. CASE Loaded
    <3>1. after # "drive" => taken
      BY <2>2 DEF Loaded, EpisodeInv, Midway
    <3> QED BY <1>1, <2>2, <3>1 DEF Loaded
  <2>3. CASE Resume
    <3>1. read = "recording" => ep > 0
      BY <2>3 DEF Resume, EpisodeInv, Midway
    <3>2. taken
      BY <2>3 DEF Resume, EpisodeInv, Midway
    <3>3. at' = after /\ after # "drive" /\ UNCHANGED <<weights, current, good, after, loading>>
      BY <2>3 DEF Resume
    <3>4. tracked' = 0 => taken'
      <4>1. IF read = "recording" /\ prev # "recording" THEN tracked' = ep ELSE taken' = taken
        BY <2>3 DEF Resume, Track
      <4>2. CASE tracked' = ep /\ ep > 0
        BY <1>1, <4>2
      <4>3. CASE taken' = taken
        BY <3>2, <4>3, Zenon
      <4> QED BY <3>1, <4>1, <4>2, <4>3
    <3>5. weights = current
      BY <2>3 DEF Resume
    <3> QED BY ONLY <1>1, <3>3, <3>4, <3>5 DEF WeightsInv
  <2>4. CASE RequestNew \/ Drive
    BY <2>4 DEF RequestNew, EpisodeOp, Drive
  <2>5. CASE LookAtRow
    BY <1>1, <2>5 DEF LookAtRow, RollbackTarget
  <2> QED BY <1>3, <2>1, <2>2, <2>3, <2>4, <2>5 DEF LoopStep
<1>4. CASE RunnerRuns
  BY <1>4 DEF RunnerRuns, Thread, RunnerStep, Look, Lock, Clear, Act, Publish
<1>5. CASE ReloaderRuns
  BY <1>5 DEF ReloaderRuns, Thread, ReloaderStep, WriteCheckpoint, Poll, Stage
<1>6. CASE RecorderRuns \/ Returned \/ UNCHANGED vars
  BY <1>6 DEF RecorderRuns, EpisodeSaved, EpisodeOver, Returned, Recorder, vars
<1> QED BY <1>2, <1>3, <1>4, <1>5, <1>6 DEF Next, LoopStep

(* Only the recorder and the loop's bookkeeping decide about episodes.     *)
LEMMA EpisodeStep ==
  ASSUME TypeOK, WeightsInv, EpisodeInv, [Next]_vars
  PROVE  EpisodeInv'
<1>1. /\ ep \in Nat /\ tracked \in Nat /\ MaxEpisodes \in Nat
      /\ rec \in RecStates /\ prev \in RecStates /\ after \in {"new", "look", "drive"}
      /\ taken \in BOOLEAN /\ saved \in BOOLEAN
      /\ None \notin {"save", "saved", "discard"} \cup RecStates
  BY DaggerAssumption DEF TypeOK
<1> USE DEF EpisodeInv, Midway, OpenStates, RecStates
<1>2. CASE \E then \in {"new", "look"} :
             at = "ops" /\ (then = "new" => ep < MaxEpisodes) /\ Settle(then)
  <2>1. PICK then \in {"new", "look"} :
               at = "ops" /\ (then = "new" => ep < MaxEpisodes) /\ Settle(then)
    BY <1>2
  <2>2. CASE Due(rec)
    BY <1>1, <2>1, <2>2 DEF Settle, Due, Closed
  <2>3. CASE ~Due(rec)
    BY <1>1, <2>1, <2>3 DEF Settle, Due, Closed, Track
  <2> QED BY <2>2, <2>3
<1>3. CASE OpEpisodeSave \/ OpEpisodeDiscard
  BY <1>1, <1>3 DEF OpEpisodeSave, OpEpisodeDiscard, EpisodeOp
<1>4. CASE OpTakeover \/ OpSwitchArm
  BY <1>4 DEF OpTakeover, OpSwitchArm
<1>5. CASE Load \/ Loaded
  BY <1>5 DEF Load, Loaded
<1>6. CASE Resume
  <2>1. at' \in {"new", "look"} /\ at' = after /\ UNCHANGED <<ep, rec, job, saved, after>>
    BY <1>1, <1>6 DEF Resume, WeightsInv
  <2>2. prev' = read /\ IF read = "recording" /\ prev # "recording"
                         THEN taken' = FALSE /\ tracked' = ep
                         ELSE UNCHANGED <<taken, tracked>>
    BY <1>6 DEF Resume, Track
  <2>3. Midway
    BY <1>6 DEF Resume, WeightsInv
  <2> QED BY <1>1, <2>1, <2>2, <2>3
<1>7. CASE RequestNew
  BY <1>1, <1>7 DEF RequestNew, EpisodeOp
<1>8. CASE LookAtRow \/ Drive
  BY <1>8 DEF LookAtRow, Drive
<1>9. CASE RunnerRuns \/ ReloaderRuns \/ UNCHANGED vars
  BY <1>9 DEF RunnerRuns, ReloaderRuns, Thread, vars
<1>10. CASE EpisodeSaved
  BY <1>1, <1>10 DEF EpisodeSaved, Recorder
<1>11. CASE EpisodeOver
  BY <1>1, <1>11 DEF EpisodeOver, Recorder
<1>12. CASE Returned
  BY <1>1, <1>12 DEF Returned, Recorder
<1> QED BY <1>2, <1>3, <1>4, <1>5, <1>6, <1>7, <1>8, <1>9, <1>10, <1>11, <1>12
        DEF Next, LoopStep, Command, OpEpisodeNew, BeginTick, RecorderRuns

(* Every boundary run is counted for the episode tracked. *)
LEMMA SettledStep ==
  ASSUME TypeOK, WeightsInv, EpisodeInv, SettledInv, [Next]_vars
  PROVE  SettledInv'
<1>1. /\ ep \in Nat /\ tracked \in Nat
      /\ rec \in RecStates /\ prev \in RecStates
      /\ taken \in BOOLEAN /\ saved \in BOOLEAN
  BY DEF TypeOK
<1>2. ASSUME NEW state, Track(state), state = "recording" => ep # tracked \/ prev = "recording",
             prev # "recording" => taken \/ tracked = 0
      PROVE  SettledInv'
  <2>1. CASE state = "recording" /\ prev # "recording"
    <3>1. tracked < ep /\ ep \notin DOMAIN settled
      BY <1>1, <1>2, <2>1 DEF EpisodeInv, SettledInv
    <3>2. /\ tracked' = ep /\ taken' = FALSE
          /\ settled' = [e \in DOMAIN settled \cup {ep} |->
                           IF e \in DOMAIN settled THEN settled[e] ELSE 0]
      BY <1>2, <2>1 DEF Track
    <3>3. \A e \in DOMAIN settled : settled[e] = 1 /\ e # ep
      BY <1>1, <1>2, <2>1, <3>1 DEF SettledInv
    <3> QED BY <1>1, <3>1, <3>2, <3>3 DEF SettledInv
  <2>2. CASE ~(state = "recording" /\ prev # "recording")
    BY <1>2, <2>2 DEF Track, SettledInv
  <2> QED BY <2>1, <2>2
<1>3. CASE \E then \in {"new", "look"} : at = "ops" /\ Settle(then)
  <2>1. PICK then \in {"new", "look"} : at = "ops" /\ Settle(then)
    BY <1>3
  <2>2. CASE Due(rec)
    BY <1>1, <2>1, <2>2 DEF Settle, Due, SettledInv, EpisodeInv
  <2>3. CASE ~Due(rec)
    <3>1. rec = "recording" => ep # tracked \/ prev = "recording"
      BY DEF EpisodeInv
    <3>2. prev # "recording" /\ rec = "recording" => taken \/ tracked = 0
      BY <2>3 DEF EpisodeInv, Due, Closed, OpenStates
    <3> QED BY <1>2, <2>1, <2>3, <3>1, <3>2 DEF Settle, Track, SettledInv
  <2> QED BY <2>2, <2>3
<1>4. CASE Resume
  <2>1. taken /\ (read = "recording" => ep # tracked)
    BY <1>4 DEF Resume, WeightsInv, EpisodeInv, Midway
  <2> QED BY <1>2, <1>4, <2>1 DEF Resume
<1>5. CASE OpEpisodeSave \/ OpEpisodeDiscard \/ OpTakeover \/ OpSwitchArm
  BY <1>5 DEF OpEpisodeSave, OpEpisodeDiscard, EpisodeOp, OpTakeover, OpSwitchArm, SettledInv
<1>6. CASE Load \/ Loaded \/ RequestNew \/ LookAtRow \/ Drive
  BY <1>6 DEF Load, Loaded, RequestNew, EpisodeOp, LookAtRow, Drive, SettledInv
<1>7. CASE RunnerRuns \/ ReloaderRuns \/ RecorderRuns \/ Returned \/ UNCHANGED vars
  BY <1>7 DEF RunnerRuns, ReloaderRuns, Thread, RecorderRuns, EpisodeSaved, EpisodeOver, Returned,
              Recorder, vars, SettledInv
<1> QED BY <1>3, <1>4, <1>5, <1>6, <1>7 DEF Next, LoopStep, Command, OpEpisodeNew, BeginTick

(* The types that are the loop's and the recorder's. *)
LEMMA LoopTypes ==
  ASSUME DaggerInv, [Next]_vars, GateTypeOK', RunnerTypeOK', ReloaderTypeOK',
         strikes' \in 0..MaxNans, EpisodeInv', SettledInv'
  PROVE  TypeOK'
<1>1. TypeOK /\ WeightsInv /\ EpisodeInv
  BY DEF DaggerInv
<1>2. /\ ep' \in 0..MaxEpisodes /\ toggles' \in 0..MaxToggles /\ tracked' \in 0..MaxEpisodes
  <2> USE <1>1, DaggerAssumption DEF TypeOK
  <2>1. CASE Command \/ BeginTick \/ Resume
    BY <2>1 DEF Command, OpEpisodeNew, BeginTick, Settle, Track, OpEpisodeSave, OpEpisodeDiscard,
                EpisodeOp, OpTakeover, OpSwitchArm, Resume
  <2>2. CASE RequestNew
    BY <2>2 DEF RequestNew, EpisodeOp, EpisodeInv
  <2>3. CASE Load \/ Loaded \/ LookAtRow \/ Drive
    BY <2>3 DEF Load, Loaded, LookAtRow, Drive
  <2>4. CASE RunnerRuns \/ ReloaderRuns \/ RecorderRuns \/ Returned \/ UNCHANGED vars
    BY <2>4 DEF RunnerRuns, ReloaderRuns, Thread, RecorderRuns, EpisodeSaved, EpisodeOver, Returned,
                Recorder, vars
  <2> QED BY <2>1, <2>2, <2>3, <2>4 DEF Next, LoopStep
<1>3. /\ rec' \in RecStates /\ read' \in RecStates \cup {None}
      /\ prev' \in RecStates /\ episode' \in RecStates
      /\ job' \in {None, "save", "saved", "discard"}
      /\ at' \in {"ops", "load", "loaded", "resume", "new", "look", "drive"}
      /\ after' \in {"new", "look", "drive"}
  <2> USE <1>1 DEF TypeOK
  <2>1. CASE Command
    BY <2>1 DEF Command, OpEpisodeNew, Settle, Track, OpEpisodeSave, OpEpisodeDiscard, EpisodeOp,
                OpTakeover, OpSwitchArm, RecStates
  <2>2. CASE BeginTick \/ Load \/ Loaded
    BY <2>2 DEF BeginTick, Settle, Track, Load, Loaded
  <2>3. CASE Resume
    <3>1. read \in RecStates
      BY <2>3 DEF Resume, WeightsInv, EpisodeInv, Midway
    <3> QED BY <2>3, <3>1 DEF Resume, Track
  <2>4. CASE RequestNew \/ LookAtRow \/ Drive
    BY <2>4 DEF RequestNew, EpisodeOp, LookAtRow, Drive, RecStates
  <2>5. CASE RunnerRuns \/ ReloaderRuns \/ RecorderRuns \/ Returned \/ UNCHANGED vars
    BY <2>5 DEF RunnerRuns, ReloaderRuns, Thread, RecorderRuns, EpisodeSaved, EpisodeOver, Returned,
                Recorder, vars, RecStates
  <2> QED BY <2>1, <2>2, <2>3, <2>4, <2>5 DEF Next, LoopStep
<1>4. saved' \in BOOLEAN /\ taken' \in BOOLEAN /\ dirty' \in BOOLEAN
  <2> USE <1>1 DEF TypeOK
  <2>1. CASE Command
    BY <2>1 DEF Command, OpEpisodeNew, Settle, Track, OpEpisodeSave, OpEpisodeDiscard, EpisodeOp,
                OpTakeover, OpSwitchArm
  <2>2. CASE LoopStep
    BY <2>2 DEF LoopStep, BeginTick, Settle, Track, Load, Loaded, Resume, RequestNew, EpisodeOp,
                LookAtRow, Drive
  <2>3. CASE RunnerRuns \/ ReloaderRuns \/ RecorderRuns \/ Returned \/ UNCHANGED vars
    BY <2>3 DEF RunnerRuns, ReloaderRuns, Thread, RecorderRuns, EpisodeSaved, EpisodeOver, Returned,
                Recorder, vars
  <2> QED BY <2>1, <2>2, <2>3 DEF Next
<1>5. loading' \in Versions \cup {None}
  <2> USE <1>1 DEF TypeOK
  <2>1. CASE Command
    BY <2>1 DEF Command, OpEpisodeNew, Settle, Wanted, OpEpisodeSave, OpEpisodeDiscard, EpisodeOp,
                OpTakeover, OpSwitchArm, ReloaderTypeOK
  <2>2. CASE LoopStep
    BY <2>2 DEF LoopStep, BeginTick, Settle, Wanted, Load, Loaded, Resume, RequestNew, EpisodeOp,
                LookAtRow, RollbackTarget, Drive, ReloaderTypeOK
  <2>3. CASE RunnerRuns \/ ReloaderRuns \/ RecorderRuns \/ Returned \/ UNCHANGED vars
    BY <2>3 DEF RunnerRuns, ReloaderRuns, Thread, RecorderRuns, EpisodeSaved, EpisodeOver, Returned,
                Recorder, vars
  <2> QED BY <2>1, <2>2, <2>3 DEF Next
<1>6. DOMAIN settled' \subseteq 1..MaxEpisodes /\ \A e \in DOMAIN settled' : settled'[e] \in Nat
  BY <1>2, DaggerAssumption DEF SettledInv
<1> QED BY <1>2, <1>3, <1>4, <1>5, <1>6 DEF TypeOK

LEMMA DaggerStep == DaggerInv /\ [Next]_vars => DaggerInv'
<1> SUFFICES ASSUME DaggerInv, [Next]_vars PROVE DaggerInv'
  OBVIOUS
<1>1. TypeOK /\ LockInv /\ StrikeInv /\ WeightsInv /\ EpisodeInv /\ SettledInv
  BY DEF DaggerInv
<1>2. LockInv' /\ WeightsInv' /\ EpisodeInv' /\ SettledInv' /\ StrikeInv'
  BY <1>1, RunnerTypes, WeightsStep, EpisodeStep, SettledStep, StrikeStep
<1>3. TypeOK'
  BY <1>1, <1>2, GateTypes, RunnerTypes, ReloaderTypes, StrikeStep, LoopTypes
<1> QED BY <1>2, <1>3 DEF DaggerInv

(* The session never leaves its types.                                     *)
THEOREM DaggerTypes == Spec => []TypeOK
<1>1. DaggerInv => TypeOK
  BY DEF DaggerInv
<1> QED BY <1>1, DaggerStart, DaggerStep, PTL DEF Spec

(* Every episode the loop has seen gets one boundary, from whichever of    *)
(* the save callback and the recorder's state comes first, and no arm is   *)
(* moved in an episode before it.                                          *)
THEOREM OneBoundary == Spec => []OneBoundaryEach
<1>1. DaggerInv => OneBoundaryEach
  <2> SUFFICES ASSUME DaggerInv PROVE OneBoundaryEach
    OBVIOUS
  <2>1. /\ ep \in Nat /\ tracked \in Nat /\ taken \in BOOLEAN
        /\ EpisodeInv /\ SettledInv
    BY DEF DaggerInv, TypeOK
  <2>2. \A e \in DOMAIN settled : settled[e] <= IF e = ep /\ rec = "recording" THEN 0 ELSE 1
    BY <2>1 DEF EpisodeInv, SettledInv
  <2>3. at = "drive" /\ prev = "recording" => tracked = ep
    BY <2>1 DEF EpisodeInv, Midway
  <2> QED BY <2>1, <2>2, <2>3 DEF OneBoundaryEach, SettledInv
<1> QED BY <1>1, DaggerStart, DaggerStep, PTL DEF Spec

(* The weights are never loaded under an act: a row names the version that *)
(* computed it.                                                            *)
THEOREM WeightsStand == Spec => WeightsStandDuringAct
<1>1. DaggerInv /\ [Next]_vars => [thread = "act" => weights' = weights]_vars
  <2> SUFFICES ASSUME DaggerInv, Next, thread = "act" PROVE weights' = weights
    OBVIOUS
  <2>1. locked # None
    BY DaggerAssumption DEF DaggerInv, LockInv
  <2>2. CASE Command
    BY <2>2 DEF Command, OpEpisodeNew, Settle, OpEpisodeSave, OpEpisodeDiscard, EpisodeOp,
                OpTakeover, OpSwitchArm
  <2>3. CASE LoopStep
    BY <2>1, <2>3 DEF LoopStep, BeginTick, Settle, Load, Loaded, Resume, RequestNew, EpisodeOp,
                      LookAtRow, Drive
  <2>4. CASE RunnerRuns
    BY <2>4 DEF RunnerRuns, Thread, RunnerStep, Look, Lock, Clear, Act, Publish
  <2>5. CASE ReloaderRuns \/ RecorderRuns \/ Returned
    BY <2>5 DEF ReloaderRuns, Thread, RecorderRuns, EpisodeSaved, EpisodeOver, Returned, Recorder
  <2> QED BY <2>2, <2>3, <2>4, <2>5 DEF Next
<1> QED BY <1>1, DaggerStart, DaggerStep, PTL DEF Spec, WeightsStandDuringAct

----------------------------------------------------------------------------
(* The session implements PolicyVersions, step by step. *)
LEMMA SettleKeepsPromise ==
  ASSUME DaggerInv, NEW then, at = "ops", Settle(then)
  PROVE  [Promise!VersionsNext]_<<weights, good, EpisodeOpen>>
<1>1. /\ tracked \in Nat /\ ep \in Nat /\ taken \in BOOLEAN
      /\ WeightsInv /\ EpisodeInv
  BY DEF DaggerInv, TypeOK
<1>2. weights' = weights /\ weights = current
  BY <1>1 DEF Settle, WeightsInv
<1>3. CASE Due(rec)
  <2>1. ~EpisodeOpen' /\ good' \in {good, weights}
    BY <1>2, <1>3 DEF Settle, EpisodeOpen, MarkGood
  <2>2. EpisodeOpen \/ good = current
    BY <1>1, <1>3 DEF EpisodeOpen, Due, EpisodeInv, WeightsInv
  <2>3. EpisodeOpen \in BOOLEAN /\ EpisodeOpen' \in BOOLEAN
    BY DEF EpisodeOpen
  <2>4. CASE EpisodeOpen
    BY <1>2, <2>1, <2>3, <2>4 DEF Promise!VersionsNext, Promise!Close
  <2>5. CASE ~EpisodeOpen
    BY <1>2, <2>1, <2>2, <2>3, <2>5
  <2> QED BY <2>4, <2>5
<1>4. CASE ~Due(rec)
  <2>1. good' = good
    BY <1>4 DEF Settle
  <2>2. EpisodeOpen \in BOOLEAN /\ EpisodeOpen' \in BOOLEAN
    BY DEF EpisodeOpen
  <2> QED BY <1>2, <2>1, <2>2 DEF Promise!VersionsNext, Promise!Open, Promise!Close
<1> QED BY <1>3, <1>4

LEMMA PromiseStep ==
  DaggerInv /\ [Next]_vars => [Promise!VersionsNext]_<<weights, good, EpisodeOpen>>
<1> SUFFICES ASSUME DaggerInv, [Next]_vars
             PROVE  [Promise!VersionsNext]_<<weights, good, EpisodeOpen>>
  OBVIOUS
<1>1. TypeOK /\ WeightsInv /\ EpisodeInv
  BY DEF DaggerInv
<1>2. CASE OpEpisodeNew \/ BeginTick
  BY <1>2, SettleKeepsPromise DEF OpEpisodeNew, BeginTick
<1>3. CASE Load
  <2>1. UNCHANGED <<good, EpisodeOpen>>
    BY <1>3 DEF Load, EpisodeOpen
  <2>2. CASE weights' = loading /\ after = "drive"
    BY <1>1, <1>3, <2>1, <2>2 DEF Load, WeightsInv, Promise!VersionsNext, Promise!RollBack
  <2>3. CASE weights' = loading /\ after # "drive"
    <3>1. ~EpisodeOpen
      BY <1>1, <1>3, <2>3 DEF Load, EpisodeInv, Midway, EpisodeOpen
    <3>2. loading \in Versions /\ loading > weights
      BY <1>1, <1>3, <2>3 DEF Load, WeightsInv
    <3> QED BY <2>1, <2>3, <3>1, <3>2 DEF Promise!VersionsNext, Promise!Swap
  <2>4. CASE UNCHANGED weights
    BY <2>1, <2>4
  <2> QED BY <1>3, <2>2, <2>3, <2>4 DEF Load
<1>4. CASE Resume
  <2>1. UNCHANGED <<weights, good>>
    BY <1>4 DEF Resume
  <2>2. EpisodeOpen \in BOOLEAN /\ EpisodeOpen' \in BOOLEAN
    BY DEF EpisodeOpen
  <2> QED BY <2>1, <2>2 DEF Promise!VersionsNext, Promise!Open, Promise!Close
<1>5. CASE OpEpisodeSave \/ OpEpisodeDiscard \/ OpTakeover \/ OpSwitchArm
  BY <1>5 DEF OpEpisodeSave, OpEpisodeDiscard, EpisodeOp, OpTakeover, OpSwitchArm, EpisodeOpen
<1>6. CASE Loaded \/ RequestNew \/ LookAtRow \/ Drive
  BY <1>6 DEF Loaded, RequestNew, EpisodeOp, LookAtRow, Drive, EpisodeOpen
<1>7. CASE RunnerRuns
  BY <1>7 DEF RunnerRuns, Thread, RunnerStep, Look, Lock, Clear, Act, Publish, EpisodeOpen
<1>8. CASE ReloaderRuns
  BY <1>8 DEF ReloaderRuns, Thread, ReloaderStep, WriteCheckpoint, Poll, Stage, EpisodeOpen
<1>9. CASE RecorderRuns \/ Returned \/ UNCHANGED vars
  BY <1>9 DEF RecorderRuns, EpisodeSaved, EpisodeOver, Returned, Recorder, vars, EpisodeOpen
<1> QED BY <1>2, <1>3, <1>4, <1>5, <1>6, <1>7, <1>8, <1>9 DEF Next, LoopStep, Command

(* The weights that drive change between episodes and only forwards;       *)
(* inside one they go back to the last version known to be good at most.   *)
THEOREM SessionKeepsVersions == Spec => VersionsKept
<1>1. Init => Promise!VersionsInit
  BY DEF Init, RunnerInit, ReloaderInit, EpisodeOpen, Promise!VersionsInit
<1> QED BY <1>1, DaggerStart, DaggerStep, PromiseStep, PTL
        DEF Spec, VersionsKept, Promise!VersionsSpec
=============================================================================
