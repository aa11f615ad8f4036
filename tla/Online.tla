------------------------------- MODULE Online -------------------------------
(***************************************************************************)
(* An Online DAgger session (dagger/online_dagger.py and its hooks in      *)
(* session/manager.py): the coordinator, the worker that publishes its     *)
(* events and writes session.json, and a trainer somewhere on the bus.     *)
(*                                                                         *)
(* Statuses carry the time they were received by the hub; the replay of    *)
(* the hub's cache when the sink attaches races the newest heartbeat.      *)
(* The process may die between any two steps; a session with the same name *)
(* is then resumed from the file.                                          *)
(***************************************************************************)
EXTENDS Naturals, Sequences, FiniteSets, SequencesExt

CONSTANTS
  WaitForReady, PauseWhileTraining,    \* OnlineDaggerConfig
  MaxSessions, MaxStatuses, MaxRollouts,    \* bounds
  Nobody

Doc == [rollouts: Seq(1..MaxRollouts), saved: Nat]    \* session.json

ASSUME OnlineAssumption ==
  /\ WaitForReady \in BOOLEAN /\ PauseWhileTraining \in BOOLEAN
  /\ MaxSessions \in Nat /\ MaxStatuses \in Nat /\ MaxRollouts \in Nat
  /\ Nobody \notin Nat /\ Nobody \notin Doc

VARIABLES
  run,        \* "none", "built", "running", "closing"
  session,    \* sessions created: the id of the one that runs
  createdFresh,    \* the directory is this session's own
  file,       \* session.json: its rollouts and its count, or Nobody
  kept,       \* rollouts in the dataset, in order
  phase, seenReady, rollouts, saved,    \* the coordinator's state
  view,       \* the newest status it has taken, or Nobody
  fresh,      \* the newest status is not stale
  worker,     \* SerialWorker's queue: documents to write, events to publish
  wire,       \* rollouts announced in this session
  cache, air, \* the hub's cached status; statuses on their way to the coordinator
  sent,       \* what the bound counts
  heard,      \* history: the newest status delivered that was not another session's
  episode,    \* "none", "open", "saved" (on disk, hook not yet run)
  orderly     \* history: the last session was closed, not killed

coordinatorVars == <<phase, seenReady, rollouts, saved, view, fresh>>
busVars == <<cache, air, sent, heard>>
ioVars == <<file, worker, wire>>
onlineVars == <<run, session, createdFresh, kept, coordinatorVars, busVars, ioVars, episode, orderly>>

States == {"idle", "ready", "training", "error"}    \* "preparing" is treated as "idle"
Status == [at: 1..MaxStatuses, of: 0..MaxSessions \cup {Nobody}, state: States]
Work == [what: {"write"}, doc: Doc] \cup [what: {"saved"}, id: 1..MaxRollouts, n: Nat]

OnlineTypeOK ==
  /\ run \in {"none", "built", "running", "closing"} /\ session \in 0..MaxSessions /\ createdFresh \in BOOLEAN
  /\ file \in Doc \cup {Nobody} /\ kept \in Seq(1..MaxRollouts)
  /\ phase \in {"waiting_trainer", "rollout", "training", "error"} /\ seenReady \in BOOLEAN
  /\ rollouts \in Seq(1..MaxRollouts) /\ saved \in Nat
  /\ view \in Status \cup {Nobody} /\ fresh \in BOOLEAN
  /\ \A i \in DOMAIN worker : worker[i] \in Work
  /\ \A i \in DOMAIN wire : wire[i] \in [id: 1..MaxRollouts, n: Nat]
  /\ cache \in Status \cup {Nobody} /\ air \subseteq Status /\ sent \in 0..MaxStatuses
  /\ heard \in Status \cup {Nobody}
  /\ episode \in {"none", "open", "saved"} /\ orderly \in BOOLEAN

StartPhase == IF WaitForReady THEN "waiting_trainer" ELSE "rollout"
Blank == [rollouts |-> << >>, saved |-> 0]

OnlineInit ==
  /\ run = "none" /\ session = 0 /\ createdFresh = FALSE /\ file = Nobody /\ kept = << >>
  /\ phase = StartPhase /\ seenReady = FALSE /\ rollouts = << >> /\ saved = 0
  /\ view = Nobody /\ fresh = FALSE /\ worker = << >> /\ wire = << >>
  /\ cache = Nobody /\ air = {} /\ sent = 0 /\ heard = Nobody /\ episode = "none" /\ orderly = TRUE

(***************************************************************************)
(* The session's life.                                                     *)
(***************************************************************************)
Resumed(doc) ==
  /\ rollouts' = doc.rollouts
  /\ saved' = IF doc.saved > Len(doc.rollouts) THEN doc.saved ELSE Len(doc.rollouts)

(* _build_online_dagger: a name that exists is resumed, another is made now. *)
Build ==
  /\ run = "none" /\ session < MaxSessions /\ run' = "built" /\ session' = session + 1
  /\ createdFresh' = (file = Nobody)
  /\ IF file = Nobody THEN file' = Blank /\ rollouts' = << >> /\ saved' = 0
     ELSE UNCHANGED file /\ Resumed(file)
  /\ phase' = StartPhase /\ seenReady' = FALSE /\ view' = Nobody /\ fresh' = FALSE
  /\ worker' = << >> /\ wire' = << >> /\ heard' = Nobody /\ episode' = "none"
  /\ orderly' = FALSE
  /\ UNCHANGED <<kept, cache, air, sent>>

(* Bring-up failed after that: a fresh directory goes again. *)
Abandon ==
  /\ run = "built" /\ run' = "none"
  /\ file' = IF createdFresh THEN Nobody ELSE file
  /\ UNCHANGED <<session, createdFresh, kept, coordinatorVars, busVars, worker, wire, episode, orderly>>

Document == [what |-> "write", doc |-> [rollouts |-> rollouts, saved |-> saved]]

(* on_session_start, and the hub's cached status is replayed to the sink. *)
Start ==
  /\ run = "built" /\ run' = "running"
  /\ worker' = Append(worker, Document)
  /\ air' = IF cache = Nobody THEN air ELSE air \cup {cache}
  /\ UNCHANGED <<session, createdFresh, file, kept, coordinatorVars, wire, cache, sent, heard, episode, orderly>>

(* Teardown, after the recorder's: sink off, the last document, drained. *)
Close ==
  /\ run = "running" /\ episode # "saved"
  /\ run' = "closing" /\ episode' = "none" /\ air' = {}
  /\ worker' = Append(worker, Document)
  /\ UNCHANGED <<session, createdFresh, file, kept, coordinatorVars, wire, cache, sent, heard, orderly>>

ClosedAtOnce ==    \* mutant: the worker is not drained
  /\ run = "closing" /\ worker' = << >> /\ run' = "none" /\ orderly' = TRUE
  /\ UNCHANGED <<session, createdFresh, kept, coordinatorVars, busVars, file, wire, episode>>

Closed ==
  /\ run = "closing" /\ worker = << >> /\ run' = "none" /\ orderly' = TRUE
  /\ UNCHANGED <<session, createdFresh, kept, coordinatorVars, busVars, ioVars, episode>>

Crash ==
  /\ run # "none" /\ run' = "none"
  /\ worker' = << >> /\ air' = {} /\ episode' = "none"
  /\ UNCHANGED <<session, createdFresh, file, kept, coordinatorVars, wire, cache, sent, heard, orderly>>

(***************************************************************************)
(* The trainer's statuses.                                                 *)
(***************************************************************************)
TrainerSends ==
  /\ sent < MaxStatuses /\ sent' = sent + 1
  /\ \E m \in [at: {sent + 1}, of: {session, 0, Nobody}, state: States] :
       /\ cache' = m
       /\ air' = IF run = "running" THEN air \cup {m} ELSE air
  /\ UNCHANGED <<run, session, createdFresh, kept, coordinatorVars, heard, ioVars, episode, orderly>>

AnyOrder(m) == TRUE    \* mutant: an older status is taken too
Newer(m) == view = Nobody \/ m.at >= view.at
Taken(m) == Newer(m) /\ m.of \in {session, Nobody}

PhaseFor(state, ready) ==
  CASE state = "error" -> "error"
    [] state = "training" /\ PauseWhileTraining -> "training"
    [] state = "ready" \/ ready \/ ~WaitForReady -> "rollout"
    [] OTHER -> "waiting_trainer"

(* on_trainer_status; the file is written on a change, or when it is due. *)
Deliver(m) ==
  /\ m \in air /\ air' = air \ {m}
  /\ heard' = IF m.of \in {session, Nobody} /\ (heard # Nobody => m.at >= heard.at) THEN m ELSE heard
  /\ IF Taken(m)
     THEN /\ view' = m /\ fresh' = TRUE
          /\ IF m.of = Nobody
             THEN UNCHANGED <<seenReady, phase>>
             ELSE /\ seenReady' = (seenReady \/ m.state = "ready")
                  /\ phase' = PhaseFor(m.state, seenReady')
          /\ \/ worker' = Append(worker, Document)
             \/ phase' = phase /\ UNCHANGED worker
     ELSE UNCHANGED <<view, fresh, seenReady, phase, worker>>
  /\ UNCHANGED <<run, session, createdFresh, kept, rollouts, saved, cache, sent, file, wire, episode, orderly>>

DeliverStatus == run = "running" /\ \E m \in air : Deliver(m)

Silence ==
  /\ fresh /\ run = "running" /\ fresh' = FALSE
  /\ UNCHANGED <<run, session, createdFresh, kept, phase, seenReady, rollouts, saved, view, busVars, ioVars,
                 episode, orderly>>

(***************************************************************************)
(* Rollouts.                                                               *)
(***************************************************************************)
MayRollOut == fresh /\ phase = "rollout"    \* refuse_episode_new

EpisodeNew ==
  /\ run = "running" /\ episode = "none" /\ MayRollOut /\ Len(kept) < MaxRollouts
  /\ episode' = "open"
  /\ UNCHANGED <<run, session, createdFresh, kept, coordinatorVars, busVars, ioVars, orderly>>

EpisodeDiscarded ==
  /\ episode = "open" /\ episode' = "none"
  /\ UNCHANGED <<run, session, createdFresh, kept, coordinatorVars, busVars, ioVars, orderly>>

(* The recorder publishes the directory, then runs the hook. *)
EpisodeOnDisk ==
  /\ episode = "open" /\ episode' = "saved"
  /\ kept' = Append(kept, Len(kept) + 1)
  /\ UNCHANGED <<run, session, createdFresh, coordinatorVars, busVars, ioVars, orderly>>

EpisodeSaved ==
  /\ episode = "saved" /\ episode' = "none"
  /\ rollouts' = Append(rollouts, Len(kept)) /\ saved' = saved + 1
  /\ worker' = worker \o <<[what |-> "saved", id |-> Len(kept), n |-> saved'],
                           [what |-> "write", doc |-> [rollouts |-> rollouts', saved |-> saved']]>>
  /\ UNCHANGED <<run, session, createdFresh, kept, phase, seenReady, view, fresh, busVars, file, wire, orderly>>

(* SerialWorker: one side effect at a time, in order. *)
WorkerRuns ==
  /\ run # "none" /\ worker # << >> /\ worker' = Tail(worker)
  /\ LET w == Head(worker) IN
       IF w.what = "write" THEN file' = w.doc /\ UNCHANGED wire
       ELSE wire' = Append(wire, [id |-> w.id, n |-> w.n]) /\ UNCHANGED file
  /\ UNCHANGED <<run, session, createdFresh, kept, coordinatorVars, busVars, episode, orderly>>

----------------------------------------------------------------------------
OnlineNext ==
  Build \/ Abandon \/ Start \/ Close \/ Closed \/ Crash \/ TrainerSends \/ DeliverStatus \/ Silence
  \/ EpisodeNew \/ EpisodeDiscarded \/ EpisodeOnDisk \/ EpisodeSaved \/ WorkerRuns

OnlineSpec == OnlineInit /\ [][OnlineNext]_onlineVars
----------------------------------------------------------------------------
(* The trainer's view never runs backwards: if the newest status delivered *)
(* is this session's trainer's, the phase is what it says, whatever order  *)
(* the cached one and the heartbeats came in.                              *)
PhaseIsNewest ==
  run = "running" /\ heard # Nobody /\ heard.of = session => phase = PhaseFor(heard.state, seenReady)

(* After an orderly close the file names every rollout of the session and  *)
(* the trainer has been told of each, with its number.  Only a process     *)
(* that died leaves rollouts in the dataset the file does not know.        *)
NothingUntold ==
  run = "none" /\ orderly /\ session > 0 =>
    /\ file # Nobody /\ file.saved = Len(file.rollouts)
    /\ \A i \in DOMAIN wire : wire[i].n = saved - Len(wire) + i /\ rollouts[wire[i].n] = wire[i].id
    /\ file.rollouts = rollouts /\ (kept # << >> /\ rollouts # << >> /\ wire # << >> => Last(rollouts) = Last(kept))
=============================================================================
