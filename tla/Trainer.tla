------------------------------ MODULE Trainer ------------------------------
(***************************************************************************)
(* The trainer's process (dagger/trainer/trainer.py, control.py) and the   *)
(* client that looks after it (dagger/client.py).  The client's thread     *)
(* sends one request at a time and waits two seconds for the reply; it     *)
(* restarts a process that has died, once.  A request outlives the client  *)
(* that sent it: the trainer answers it later, to nobody.                  *)
(***************************************************************************)
EXTENDS Checkpoints, Sequences

CONSTANTS
  MaxRequests,    \* bound: episodes submitted and rollbacks asked for
  MaxInbox        \* bound: status requests are sent while fewer are unanswered

ASSUME TrainerAssumption == MaxRequests \in Nat /\ MaxInbox \in Nat \ {0}

VARIABLES
  proc,       \* the process: "up" or "dead"
  spawned,    \* processes started
  working,    \* where the process is: "poll", or inside a burst and its checkpoint
  version,    \* self.version
  parent,     \* parent_version
  labels,     \* new_label_frames: are there any
  due,        \* _boundary_pending
  polled,     \* a status request was answered within the orphan timeout
  inbox,      \* requests in the REP socket
  queue,      \* the client's queue
  client,     \* where the client's thread is
  waiting,    \* the request it waits for, or None
  running,    \* its flag
  missed,     \* unanswered status requests, up to MISSED_REPLIES_DEAD
  degraded,
  stopping,   \* how far request_stop is
  asked       \* what the bound counts

memVars == <<working, version, parent, labels, due, polled>>
procVars == <<proc, spawned, memVars, inbox>>
clientVars == <<queue, client, waiting, running, missed, degraded, stopping, asked>>
trainerVars == <<diskVars, procVars, clientVars>>

MissedDead == 2    \* MISSED_REPLIES_DEAD, kept small

(* awaited: the socket it came through is still open. *)
Request == [cmd: {"submit", "rollback", "status", "stop"}, version: 0..MaxVersions, awaited: BOOLEAN]
Ask(c, v) == [cmd |-> c, version |-> v, awaited |-> TRUE]

TrainerTypeOK ==
  /\ StoreTypeOK
  /\ proc \in {"up", "dead"} /\ spawned \in Nat
  /\ working \in {"poll", "burst", "dir", "weights", "state", "manifest", "latest"}
  /\ version \in 0..MaxVersions /\ parent \in 0..MaxVersions
  /\ labels \in BOOLEAN /\ due \in BOOLEAN /\ polled \in BOOLEAN
  /\ inbox \in Seq(Request) /\ queue \in Seq(Request)
  /\ client \in {"look", "send", "reply", "status", "answer", "out"}
  /\ waiting \in Request \cup {None} /\ running \in BOOLEAN
  /\ missed \in 0..MissedDead /\ degraded \in BOOLEAN
  /\ stopping \in {"no", "join", "ask", "term", "kill", "done"}
  /\ asked \in 0..MaxRequests

TrainerInit ==
  /\ StoreInit
  /\ proc = "up" /\ spawned = 1 /\ working = "poll" /\ version = 0 /\ parent = 0
  /\ labels = FALSE /\ due = FALSE /\ polled = TRUE /\ inbox = << >> /\ queue = << >>
  /\ client = "look" /\ waiting = None /\ running = TRUE /\ missed = 0
  /\ degraded = FALSE /\ stopping = "no" /\ asked = 0

(***************************************************************************)
(* The process: one loop, one request at a time.                           *)
(***************************************************************************)
Reply(r) == waiting' = IF r.awaited THEN None ELSE waiting

HandleRequest ==
  /\ proc = "up" /\ working = "poll" /\ inbox # << >>
  /\ LET r == Head(inbox) IN
       /\ inbox' = Tail(inbox) /\ Reply(r)
       /\ polled' = (polled \/ r.cmd = "status")
       /\ \/ r.cmd = "submit" /\ labels' = TRUE /\ due' = TRUE /\ UNCHANGED <<proc, parent>>
          \/ r.cmd = "submit" /\ due' = TRUE /\ UNCHANGED <<proc, labels, parent>>  \* no labels in it
          \/ r.cmd = "submit" /\ UNCHANGED <<proc, labels, due, parent>>            \* unreadable
          \/ r.cmd = "rollback" /\ parent' = r.version /\ UNCHANGED <<proc, labels, due>>
          \/ r.cmd = "status" /\ UNCHANGED <<proc, labels, due, parent>>
          \/ r.cmd = "stop" /\ proc' = "dead" /\ UNCHANGED <<labels, due, parent>>
  /\ UNCHANGED <<spawned, working, version, diskVars, queue, client, running, missed, degraded,
                 stopping, asked>>

Working(here, there) == proc = "up" /\ working = here /\ working' = there
Keep == UNCHANGED <<proc, spawned, parent, inbox, clientVars>>

Burst ==
  /\ Working("poll", "burst") /\ labels /\ due
  /\ due' = FALSE /\ labels' = FALSE
  /\ UNCHANGED <<version, polled, diskVars>> /\ Keep

(* The burst ends: the checkpoint may be throttled (push_period_s); it may *)
(* have taken longer than the orphan timeout.                              *)
BurstOver ==
  /\ \/ Working("burst", "poll") /\ UNCHANGED version
     \/ Working("burst", "dir") /\ version < MaxVersions /\ version' = version + 1
  /\ polled' \in {polled, FALSE}
  /\ UNCHANGED <<labels, due, diskVars>> /\ Keep

WriteDir ==
  /\ Working("dir", "weights") /\ MakeDir(version, spawned)
  /\ UNCHANGED <<version, labels, due, polled, latest>> /\ Keep

WriteWeights ==
  /\ Working("weights", "state") /\ AddFile(version, "weights")
  /\ UNCHANGED <<version, labels, due, polled, latest>> /\ Keep

WriteState ==
  /\ Working("state", "manifest") /\ AddFile(version, "state")
  /\ UNCHANGED <<version, labels, due, polled, latest>> /\ Keep

(* mutant: LATEST is advanced whatever the sanity gate says. *)
ManifestUngated ==
  /\ \E ok \in BOOLEAN : Working("manifest", "latest") /\ WriteManifest(version, ok)
  /\ parent' = version
  /\ UNCHANGED <<proc, spawned, version, labels, due, polled, inbox, latest, clientVars>>

(* write_manifest with the sanity gate's verdict. *)
Manifest ==
  /\ \E ok \in BOOLEAN :
       Working("manifest", IF ok THEN "latest" ELSE "poll") /\ WriteManifest(version, ok)
  /\ parent' = version
  /\ UNCHANGED <<proc, spawned, version, labels, due, polled, inbox, latest, clientVars>>

AdvanceLatest ==
  /\ Working("latest", "poll") /\ latest' = version
  /\ UNCHANGED <<version, labels, due, polled, dirs>> /\ Keep

Gone == proc' = "dead" /\ inbox' = << >>
        /\ UNCHANGED <<spawned, memVars, diskVars, queue, client, waiting, running, missed,
                       degraded, stopping, asked>>

NeverOrphaned == FALSE /\ UNCHANGED trainerVars    \* mutant: no orphan timeout
OrphanExit == proc = "up" /\ working = "poll" /\ ~polled /\ Gone

Die == proc = "up" /\ Gone

(* Nobody has asked for the status for the length of the timeout. *)
Unpolled == proc = "up" /\ client = "out" /\ inbox = << >> /\ polled
            /\ polled' = FALSE
            /\ UNCHANGED <<working, version, labels, due, diskVars>> /\ Keep

(***************************************************************************)
(* The client.                                                             *)
(***************************************************************************)
Submit(r) ==
  /\ running /\ asked < MaxRequests /\ asked' = asked + 1
  /\ queue' = Append(queue, r)
  /\ UNCHANGED <<procVars, diskVars, client, waiting, running, missed, degraded, stopping>>

SubmitEpisode == Submit(Ask("submit", 0))
NotifyRollback == \E v \in versions : Whole(v) /\ Submit(Ask("rollback", v))

(* TrainerMain.__init__ with --resume: the newest directory, whole or not. *)
NewestAnnounced == IF latest = None THEN 0 ELSE latest    \* mutant
NewestOnDisk == LastOf(versions)

Spawn ==
  /\ proc' = "up" /\ spawned' = spawned + 1 /\ inbox' = << >>
  /\ working' = "poll" /\ version' = NewestOnDisk /\ parent' = NewestOnDisk
  /\ labels' = FALSE /\ due' = FALSE /\ polled' = TRUE

HandleDeath ==
  /\ missed' = 0
  /\ IF spawned > 1
     THEN degraded' = TRUE /\ UNCHANGED procVars
     ELSE \/ Spawn /\ UNCHANGED degraded
          \/ degraded' = TRUE /\ UNCHANGED procVars    \* Popen failed

ClientAt(here, there) == client = here /\ client' = there

ClientLook ==
  /\ \/ ~running /\ ClientAt("look", "out") /\ UNCHANGED <<procVars, missed, degraded>>
     \/ /\ running /\ ClientAt("look", "send")
        /\ IF proc = "dead" /\ ~degraded THEN HandleDeath
           ELSE UNCHANGED <<procVars, missed, degraded>>
  /\ UNCHANGED <<diskVars, queue, waiting, running, stopping, asked>>

(* A request to a process that is not there goes nowhere. *)
SendTo(r) == waiting' = r /\ inbox' = IF proc = "up" THEN Append(inbox, r) ELSE inbox
Rest == UNCHANGED <<proc, spawned, memVars, diskVars, running, degraded, stopping, asked>>

ClientSend ==
  /\ \/ queue # << >> /\ ClientAt("send", "reply") /\ SendTo(Head(queue)) /\ queue' = Tail(queue)
     \/ queue = << >> /\ ClientAt("send", "status") /\ UNCHANGED <<queue, waiting, inbox>>
  /\ UNCHANGED missed /\ Rest

(* The reply, or two seconds without one; the socket is closed. *)
Abandoned == [i \in DOMAIN inbox |-> [inbox[i] EXCEPT !.awaited = FALSE]]

ClientReply ==
  /\ ClientAt("reply", "status") /\ waiting' = None /\ inbox' = Abandoned
  /\ UNCHANGED <<queue, missed>> /\ Rest

(* Once a second; in between the thread only looks at the process. *)
ClientStatus ==
  /\ \/ ClientAt("status", "answer") /\ Len(inbox) < MaxInbox /\ SendTo(Ask("status", 0))
     \/ ClientAt("status", "look") /\ UNCHANGED <<waiting, inbox>>
  /\ UNCHANGED <<queue, missed>> /\ Rest

Unheard == missed + 1 >= MissedDead /\ proc = "dead" /\ ~degraded

ClientAnswer ==
  /\ ClientAt("answer", "look") /\ waiting' = None
  /\ \/ waiting = None /\ missed' = 0 /\ UNCHANGED <<procVars, degraded>>
     \/ /\ waiting # None /\ Unheard
        /\ HandleDeath
     \/ /\ waiting # None /\ ~Unheard
        /\ missed' = IF missed < MissedDead THEN missed + 1 ELSE missed
        /\ inbox' = Abandoned /\ UNCHANGED <<proc, spawned, memVars, degraded>>
  /\ UNCHANGED <<diskVars, queue, running, stopping, asked>>

(***************************************************************************)
(* request_stop: the thread is waited for, but not for ever.               *)
(***************************************************************************)
StopAt(here, there) == stopping = here /\ stopping' = there
StopKeeps == UNCHANGED <<spawned, memVars, diskVars, queue, client, waiting, missed, degraded, asked>>

RequestStop == StopAt("no", "join") /\ running' = FALSE /\ UNCHANGED <<proc, inbox>> /\ StopKeeps

Joined ==
  /\ StopAt("join", IF proc = "up" THEN "ask" ELSE "done")
  /\ UNCHANGED <<proc, inbox, running>> /\ StopKeeps

AskToStop ==
  /\ StopAt("ask", "term") /\ inbox' = IF proc = "up" THEN Append(inbox, [Ask("stop", 0) EXCEPT !.awaited = FALSE]) ELSE inbox
  /\ UNCHANGED <<proc, running>> /\ StopKeeps

(* Gone within its grace, or terminated; SIGTERM may not be enough. *)
Terminate ==
  /\ proc' \in {proc, "dead"} /\ StopAt("term", IF proc' = "up" THEN "kill" ELSE "done")
  /\ inbox' = (IF proc' = "up" THEN inbox ELSE << >>)
  /\ UNCHANGED running /\ StopKeeps

Kill ==
  /\ StopAt("kill", "done") /\ proc' = "dead" /\ inbox' = << >>
  /\ UNCHANGED running /\ StopKeeps

----------------------------------------------------------------------------
ProcessStep ==
  HandleRequest \/ Burst \/ BurstOver \/ WriteDir \/ WriteWeights \/ WriteState \/ Manifest
  \/ AdvanceLatest \/ OrphanExit \/ Unpolled

ClientStep == ClientLook \/ ClientSend \/ ClientReply \/ ClientStatus \/ ClientAnswer
StopStep == Joined \/ AskToStop \/ Terminate \/ Kill

TrainerNext ==
  ProcessStep \/ ClientStep \/ StopStep \/ Die \/ SubmitEpisode \/ NotifyRollback \/ RequestStop

TrainerSpec == TrainerInit /\ [][TrainerNext]_trainerVars

----------------------------------------------------------------------------
(* LATEST names a version that is whole and sane, however the process ends *)
(* in the middle of writing one (advance_latest after the manifest).       *)
LatestIsWhole == latest # None => Whole(latest) /\ dirs[latest].sane

(* A version is never written a second time, by this process or the one    *)
(* that replaces it: what a row's policy_version names stays what it was.  *)
NeverRewritten == [][
  /\ \A v \in versions : v \in DOMAIN dirs' /\ dirs'[v].by = dirs[v].by /\ dirs[v].files \subseteq dirs'[v].files
  /\ latest # None => latest' # None /\ latest' >= latest ]_trainerVars

(* After a stop no process is left, even if the client's thread restarts   *)
(* one while the stop goes by: that one finds itself orphaned.             *)
NoneLeftBehind == ~running ~> [](proc = "dead")
=============================================================================
