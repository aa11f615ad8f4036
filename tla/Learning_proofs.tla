--------------------------- MODULE Learning_proofs ---------------------------
(***************************************************************************)
(* Proofs about what learns: the trainer's store of checkpoints, whenever  *)
(* its process dies and whoever restarts it, and the coordinator of an     *)
(* Online DAgger session, for every number of versions, requests, sessions,*)
(* statuses and rollouts.                                                  *)
(***************************************************************************)
EXTENDS Trainer, Online, SequenceTheorems, TLAPS

(***************************************************************************)
(* The trainer.                                                            *)
(***************************************************************************)
(* How far a checkpoint is at each step of its writing; the versions on    *)
(* disk are all those up to the one in hand, which nobody names before it  *)
(* is whole.                                                               *)
Writing == {"dir", "weights", "state", "manifest", "latest"}

OnDisk == IF working = "dir" THEN version - 1 ELSE version

WritingInv ==
  /\ working = "dir" => version > 0
  /\ versions = 0..OnDisk
  /\ working \in Writing => latest # version
  /\ working = "state" => "weights" \in dirs[version].files
  /\ working = "manifest" => {"weights", "state"} \subseteq dirs[version].files
  /\ working = "latest" => Whole(version) /\ dirs[version].sane
  /\ latest # None => latest <= version

StoreInv == /\ StoreTypeOK /\ version \in 0..MaxVersions
            /\ working \in {"poll", "burst"} \cup Writing
            /\ WritingInv /\ LatestIsWhole

(* What a step may do to the store. *)
StoreKept ==
  /\ \A v \in versions : /\ v \in DOMAIN dirs' /\ dirs'[v].by = dirs[v].by
                         /\ dirs[v].files \subseteq dirs'[v].files
  /\ latest # None => latest' # None /\ latest' >= latest

LEMMA StoreStart == TrainerInit => StoreInv
<1> SUFFICES ASSUME TrainerInit PROVE StoreInv
  OBVIOUS
<1> USE StoreAssumption DEF TrainerInit, StoreInit
<1>1. versions = 0..0 /\ dirs[0] \in Dir
  BY DEF versions, Dir, Files
<1>2. StoreTypeOK
  BY <1>1 DEF StoreTypeOK, versions
<1> QED BY <1>1, <1>2 DEF StoreInv, WritingInv, OnDisk, Writing, LatestIsWhole

(* A new process takes up the newest version there is. *)
LEMMA NewestIsOnDisk ==
  ASSUME StoreInv
  PROVE  NewestOnDisk = OnDisk /\ OnDisk \in 0..MaxVersions /\ OnDisk \in versions
<1>1. OnDisk \in 0..MaxVersions /\ versions = 0..OnDisk
  BY StoreAssumption DEF StoreInv, WritingInv, OnDisk
<1>2. \A m \in 0..OnDisk : (\A v \in 0..OnDisk : m >= v) <=> m = OnDisk
  BY <1>1
<1>3. NewestOnDisk = CHOOSE m \in 0..OnDisk : \A v \in 0..OnDisk : m >= v
  BY <1>1 DEF NewestOnDisk, LastOf, Max
<1>4. (CHOOSE m \in 0..OnDisk : \A v \in 0..OnDisk : m >= v) = OnDisk
  BY <1>1, <1>2
<1> QED BY <1>1, <1>3, <1>4

(* The steps that leave the disk alone: the process stays where it is, is  *)
(* started anew, or begins a burst.                                        *)
LEMMA DiskLeft ==
  ASSUME StoreInv, UNCHANGED diskVars,
         \/ UNCHANGED <<working, version>>
         \/ working' = "poll" /\ version' = NewestOnDisk
         \/ working = "poll" /\ working' = "burst" /\ version' = version
         \/ working = "burst" /\ working' = "poll" /\ version' = version
         \/ working = "burst" /\ working' = "dir" /\ version < MaxVersions /\ version' = version + 1
  PROVE  StoreInv' /\ StoreKept
<1>1. StoreTypeOK' /\ versions' = versions /\ LatestIsWhole'
  BY DEF diskVars, StoreInv, StoreTypeOK, versions, LatestIsWhole, Whole
<1>2. StoreKept
  BY StoreAssumption DEF StoreKept, diskVars, versions, StoreInv, StoreTypeOK
<1>3. version' \in 0..MaxVersions /\ working' \in {"poll", "burst"} \cup Writing
  BY NewestIsOnDisk, StoreAssumption DEF StoreInv, Writing
<1>4. WritingInv'
  <2>1. CASE UNCHANGED <<working, version>>
    BY <1>1, <2>1 DEF StoreInv, WritingInv, OnDisk, Writing, Whole, diskVars
  <2>2. CASE working' = "poll" /\ version' = NewestOnDisk
    <3>1. latest # None => latest \in 0..OnDisk
      BY DEF StoreInv, LatestIsWhole, Whole, WritingInv
    <3> QED BY <1>1, <2>2, <3>1, NewestIsOnDisk DEF StoreInv, WritingInv, OnDisk, Writing, diskVars
  <2>3. CASE working = "poll" /\ working' = "burst" /\ version' = version
    BY <1>1, <2>3 DEF StoreInv, WritingInv, OnDisk, Writing, diskVars
  <2>4. CASE working = "burst" /\ working' = "poll" /\ version' = version
    BY <1>1, <2>4 DEF StoreInv, WritingInv, OnDisk, Writing, diskVars
  <2>5. CASE working = "burst" /\ working' = "dir" /\ version < MaxVersions
       /\ version' = version + 1
    <3>1. latest # None => latest \in 0..version
      BY <2>5 DEF StoreInv, LatestIsWhole, Whole, WritingInv, OnDisk
    <3> QED BY <1>1, <2>5, <3>1, StoreAssumption DEF StoreInv, WritingInv, OnDisk, Writing, diskVars
  <2> QED BY <2>1, <2>2, <2>3, <2>4, <2>5
<1> QED BY <1>1, <1>2, <1>3, <1>4 DEF StoreInv

(* The steps of the writing. *)
LEMMA DirWritten ==
  ASSUME StoreInv, working = "dir", working' = "weights", version' = version, latest' = latest,
         MakeDir(version, spawned), spawned \in Nat
  PROVE  StoreInv' /\ StoreKept
<1>1. version \in 1..MaxVersions /\ versions = 0..(version - 1) /\ version \notin versions
  BY StoreAssumption DEF StoreInv, WritingInv, OnDisk
<1>2. /\ versions' = 0..version /\ dirs'[version] = [files |-> {}, sane |-> FALSE, by |-> spawned]
      /\ \A v \in versions : v \in versions' /\ dirs'[v] = dirs[v]
  BY <1>1 DEF MakeDir, versions
<1>3. dirs'[version] \in Dir
  BY <1>2 DEF Dir
<1>4. StoreTypeOK'
  <2>1. versions' \subseteq 0..MaxVersions
    BY <1>1, <1>2, StoreAssumption
  <2>2. \A v \in versions' : v = version \/ v \in versions
    BY <1>1, <1>2
  <2>3. \A v \in versions' : dirs'[v] \in Dir
    BY <1>2, <1>3, <2>2 DEF StoreInv, StoreTypeOK, versions
  <2> QED BY <2>1, <2>3 DEF StoreInv, StoreTypeOK, versions
<1>5. LatestIsWhole' /\ (latest # None => latest <= version)
  BY <1>1, <1>2 DEF StoreInv, LatestIsWhole, Whole, WritingInv
<1>6. WritingInv'
  BY <1>1, <1>2, <1>5 DEF StoreInv, WritingInv, OnDisk, Writing
<1>7. StoreKept
  BY <1>2, StoreAssumption DEF StoreKept, versions, StoreInv, StoreTypeOK
<1> QED BY <1>4, <1>5, <1>6, <1>7 DEF StoreInv, Writing

LEMMA FileWritten ==
  ASSUME StoreInv, version' = version, latest' = latest,
         \/ working = "weights" /\ working' = "state" /\ AddFile(version, "weights")
         \/ working = "state" /\ working' = "manifest" /\ AddFile(version, "state")
         \/ \E ok \in BOOLEAN : /\ working = "manifest"
                                /\ working' = (IF ok THEN "latest" ELSE "poll")
                                /\ WriteManifest(version, ok)
  PROVE  StoreInv' /\ StoreKept
<1>1. version \in 0..MaxVersions /\ versions = 0..version /\ version \in versions
     /\ latest # version
  BY StoreAssumption DEF StoreInv, WritingInv, OnDisk, Writing
<1>2. dirs[version] \in Dir
  BY <1>1 DEF StoreInv, StoreTypeOK, versions
<1>3. /\ versions' = versions
      /\ \A v \in versions \ {version} : dirs'[v] = dirs[v]
      /\ dirs'[version].by = dirs[version].by /\ dirs[version].files \subseteq dirs'[version].files
      /\ dirs'[version] \in Dir
  BY <1>1, <1>2 DEF AddFile, WriteManifest, versions, Dir, Files
<1>4. StoreTypeOK'
  BY <1>1, <1>3 DEF StoreInv, StoreTypeOK, versions
<1>5. LatestIsWhole'
  BY <1>1, <1>3 DEF StoreInv, LatestIsWhole, Whole
<1>6. /\ working' = "state" => "weights" \in dirs'[version].files
      /\ working' = "manifest" => {"weights", "state"} \subseteq dirs'[version].files
      /\ working' = "latest" => dirs'[version].files = Files /\ dirs'[version].sane
  BY <1>1, <1>2 DEF StoreInv, WritingInv, AddFile, WriteManifest, versions, Dir, Files
<1>7. WritingInv'
  BY <1>1, <1>3, <1>6 DEF StoreInv, WritingInv, OnDisk, Writing, Whole
<1>8. StoreKept
  BY <1>1, <1>3, StoreAssumption DEF StoreKept, versions, StoreInv, StoreTypeOK
<1> QED BY <1>1, <1>4, <1>5, <1>7, <1>8 DEF StoreInv, Writing

LEMMA LatestWritten ==
  ASSUME StoreInv, AdvanceLatest
  PROVE  StoreInv' /\ StoreKept
<1>1. /\ working = "latest" /\ working' = "poll" /\ latest' = version
      /\ UNCHANGED <<version, dirs>>
  BY DEF AdvanceLatest, Working
<1>2. version \in 0..MaxVersions /\ Whole(version) /\ dirs[version].sane
     /\ (latest # None => latest <= version)
  BY <1>1 DEF StoreInv, WritingInv
<1>3. StoreTypeOK' /\ versions' = versions /\ LatestIsWhole'
  BY <1>1, <1>2 DEF StoreInv, StoreTypeOK, versions, LatestIsWhole, Whole
<1>4. WritingInv'
  BY <1>1, <1>2, <1>3, StoreAssumption DEF StoreInv, WritingInv, OnDisk, Writing
<1>5. StoreKept
  BY <1>1, <1>2, StoreAssumption DEF StoreKept, versions
<1> QED BY <1>1, <1>3, <1>4, <1>5 DEF StoreInv

(* The trainer's types: its flags, where everybody is, and what is in the  *)
(* requests and which of them waits.                                       *)
Flags == /\ labels \in BOOLEAN /\ due \in BOOLEAN /\ polled \in BOOLEAN
         /\ running \in BOOLEAN /\ degraded \in BOOLEAN

Standing ==
  /\ proc \in {"up", "dead"} /\ spawned \in Nat
  /\ client \in {"look", "send", "reply", "status", "answer", "out"}
  /\ missed \in 0..MissedDead
  /\ stopping \in {"no", "join", "ask", "term", "kill", "done"}
  /\ asked \in 0..MaxRequests

Asking == /\ inbox \in Seq(Request) /\ queue \in Seq(Request) /\ waiting \in Request \cup {None}
          /\ parent \in 0..MaxVersions

TrainerInv == StoreInv /\ Flags /\ Standing /\ Asking

(* Every step writes the store in one of the four ways. *)
LEMMA StoreStep ==
  ASSUME TrainerInv, [TrainerNext]_trainerVars
  PROVE  StoreInv' /\ StoreKept
<1> USE DEF TrainerInv
<1>1. CASE Die \/ SubmitEpisode \/ NotifyRollback \/ RequestStop \/ StopStep
          \/ UNCHANGED trainerVars
  BY <1>1, DiskLeft DEF Die, Gone, SubmitEpisode, NotifyRollback, Submit, RequestStop, StopStep,
       Joined,
     AskToStop, Terminate, Kill, StopKeeps, procVars, memVars, trainerVars
<1>2. CASE ClientLook
  BY <1>2, DiskLeft DEF ClientLook, ClientAt, HandleDeath, Spawn, procVars, memVars
<1>3. CASE ClientSend \/ ClientReply \/ ClientStatus
  BY <1>3, DiskLeft DEF ClientSend, ClientReply, ClientStatus, ClientAt, Rest, memVars
<1>4. CASE ClientAnswer
  BY <1>4, DiskLeft DEF ClientAnswer, ClientAt, HandleDeath, Spawn, procVars, memVars
<1>5. CASE HandleRequest \/ OrphanExit \/ Unpolled
  BY <1>5, DiskLeft DEF HandleRequest, OrphanExit, Gone, Unpolled, memVars
<1>6. CASE Burst \/ BurstOver
  BY <1>6, DiskLeft DEF Burst, BurstOver, Working
<1>7. CASE WriteDir
  BY <1>7, DirWritten DEF WriteDir, Working, Standing
<1>8. CASE WriteWeights \/ WriteState
  BY <1>8, FileWritten DEF WriteWeights, WriteState, Working
<1>9. CASE Manifest
  BY <1>9, FileWritten DEF Manifest, Working
<1>10. CASE AdvanceLatest
  BY <1>10, LatestWritten
<1> QED
  BY <1>1, <1>2, <1>3, <1>4, <1>5, <1>6, <1>7, <1>8, <1>9, <1>10
     DEF TrainerNext, ProcessStep, ClientStep, StopStep

LEMMA FlagsStep == ASSUME Flags, [TrainerNext]_trainerVars PROVE Flags'
<1> USE DEF Flags, memVars, procVars, clientVars
<1>1. CASE Die \/ OrphanExit
  BY <1>1 DEF Die, OrphanExit, Gone
<1>2. CASE SubmitEpisode \/ NotifyRollback
  BY <1>2 DEF SubmitEpisode, NotifyRollback, Submit
<1>3. CASE RequestStop \/ StopStep
  BY <1>3 DEF RequestStop, StopStep, Joined, AskToStop, Terminate, Kill, StopAt, StopKeeps
<1>4. CASE ClientLook \/ ClientAnswer
  BY <1>4 DEF ClientLook, ClientAnswer, HandleDeath, Spawn
<1>5. CASE ClientSend \/ ClientReply \/ ClientStatus
  BY <1>5 DEF ClientSend, ClientReply, ClientStatus, Rest
<1>6. CASE HandleRequest
  BY <1>6 DEF HandleRequest
<1>7. CASE Burst \/ BurstOver
  BY <1>7 DEF Burst, BurstOver, Keep
<1>8. CASE WriteDir \/ WriteWeights \/ WriteState \/ AdvanceLatest \/ Unpolled
  BY <1>8 DEF WriteDir, WriteWeights, WriteState, AdvanceLatest, Unpolled, Keep
<1>9. CASE Manifest
  BY <1>9 DEF Manifest
<1>10. CASE UNCHANGED trainerVars
  BY <1>10 DEF trainerVars
<1> QED
  BY <1>1, <1>2, <1>3, <1>4, <1>5, <1>6, <1>7, <1>8, <1>9, <1>10
     DEF TrainerNext, ProcessStep, ClientStep

LEMMA StandingStep == ASSUME Standing, [TrainerNext]_trainerVars PROVE Standing'
<1> USE TrainerAssumption DEF Standing, MissedDead, memVars, procVars, clientVars
<1>1. CASE Die \/ OrphanExit
  BY <1>1 DEF Die, OrphanExit, Gone
<1>2. CASE SubmitEpisode \/ NotifyRollback
  BY <1>2 DEF SubmitEpisode, NotifyRollback, Submit
<1>3. CASE RequestStop \/ StopStep
  BY <1>3 DEF RequestStop, StopStep, Joined, AskToStop, Terminate, Kill, StopAt, StopKeeps
<1>4. CASE ClientLook
  BY <1>4 DEF ClientLook, ClientAt, HandleDeath, Spawn
<1>5. CASE ClientAnswer
  BY <1>5 DEF ClientAnswer, ClientAt, HandleDeath, Spawn
<1>6. CASE ClientSend \/ ClientReply \/ ClientStatus
  BY <1>6 DEF ClientSend, ClientReply, ClientStatus, ClientAt, Rest
<1>7. CASE HandleRequest
  BY <1>7 DEF HandleRequest
<1>8. CASE Burst \/ BurstOver
  BY <1>8 DEF Burst, BurstOver, Working, Keep
<1>9. CASE WriteDir \/ WriteWeights \/ WriteState \/ AdvanceLatest \/ Unpolled
  BY <1>9 DEF WriteDir, WriteWeights, WriteState, AdvanceLatest, Unpolled, Working, Keep
<1>10. CASE Manifest
  BY <1>10 DEF Manifest, Working
<1>11. CASE UNCHANGED trainerVars
  BY <1>11 DEF trainerVars
<1> QED
  BY <1>1, <1>2, <1>3, <1>4, <1>5, <1>6, <1>7, <1>8, <1>9, <1>10, <1>11
     DEF TrainerNext, ProcessStep, ClientStep

(* What goes into the requests' queues. *)
LEMMA Asked ==
  ASSUME NEW c \in {"submit", "rollback", "status", "stop"}, NEW v \in 0..MaxVersions
  PROVE  Ask(c, v) \in Request /\ [Ask(c, v) EXCEPT !.awaited = FALSE] \in Request
<1>1. Ask(c, v) \in Request
  BY DEF Ask, Request
<1> QED BY <1>1 DEF Request

LEMMA AskedNothing ==
  ASSUME NEW c \in {"submit", "status", "stop"}
  PROVE  Ask(c, 0) \in Request /\ [Ask(c, 0) EXCEPT !.awaited = FALSE] \in Request
<1>1. 0 \in 0..MaxVersions
  BY StoreAssumption
<1> QED BY <1>1, Asked

LEMMA AbandonedTyped == ASSUME Asking PROVE Abandoned \in Seq(Request)
<1>1. inbox \in Seq(Request) /\ Len(inbox) \in Nat /\ DOMAIN inbox = 1..Len(inbox)
  BY DEF Asking
<1>2. ASSUME NEW i \in 1..Len(inbox) PROVE [inbox[i] EXCEPT !.awaited = FALSE] \in Request
  <2>1. inbox[i] \in Request
    BY <1>1, ElementOfSeq
  <2> QED BY <2>1 DEF Request
<1>3. Abandoned \in [1..Len(inbox) -> Request]
  BY <1>1, <1>2 DEF Abandoned
<1> QED BY <1>1, <1>3

LEMMA Dequeued ==
  ASSUME NEW q \in Seq(Request), q # <<>>
  PROVE  Head(q) \in Request /\ Tail(q) \in Seq(Request) /\ Head(q).version \in 0..MaxVersions
<1>1. Head(q) \in Request /\ Tail(q) \in Seq(Request)
  BY HeadTailProperties
<1> QED BY <1>1 DEF Request

LEMMA Enqueued ==
  ASSUME NEW q \in Seq(Request), NEW r \in Request
  PROVE  Append(q, r) \in Seq(Request)
BY AppendProperties

LEMMA AskingStep ==
  ASSUME StoreInv, Asking, [TrainerNext]_trainerVars
  PROVE  Asking'
<1>0. <<>> \in Seq(Request)
  BY EmptySeq
<1> USE DEF Asking, memVars, procVars, clientVars
<1>1. CASE Die \/ OrphanExit
  BY <1>0, <1>1 DEF Die, OrphanExit, Gone
<1>2. CASE SubmitEpisode \/ NotifyRollback
  <2>1. PICK r \in Request : Submit(r)
    <3>1. CASE SubmitEpisode
      <4>1. Ask("submit", 0) \in Request
        BY AskedNothing
      <4> QED BY <3>1, <4>1 DEF SubmitEpisode
    <3>2. CASE NotifyRollback
      <4>1. PICK v \in versions : Submit(Ask("rollback", v))
        BY <3>2 DEF NotifyRollback
      <4>2. v \in 0..MaxVersions
        BY <4>1 DEF StoreInv, StoreTypeOK, versions
      <4>3. Ask("rollback", v) \in Request
        BY <4>2, Asked
      <4> QED BY <4>1, <4>3
    <3> QED BY <1>2, <3>1, <3>2
  <2>2. queue' \in Seq(Request)
    BY <2>1, Enqueued DEF Submit
  <2> QED BY <2>1, <2>2 DEF Submit
<1>3. CASE RequestStop \/ Joined \/ Terminate \/ Kill
  BY <1>0, <1>3 DEF RequestStop, Joined, Terminate, Kill, StopKeeps
<1>4. CASE AskToStop
  <2>1. inbox' \in Seq(Request)
    BY <1>4, AskedNothing, Enqueued DEF AskToStop
  <2> QED BY <1>4, <2>1 DEF AskToStop, StopKeeps
<1>5. ASSUME HandleDeath PROVE inbox' \in Seq(Request) /\ parent' \in 0..MaxVersions
  BY <1>0, <1>5, NewestIsOnDisk DEF HandleDeath, Spawn
<1>6. CASE ClientLook
  BY <1>5, <1>6 DEF ClientLook
<1>7. CASE ClientSend
  <2>1. CASE queue # <<>> /\ SendTo(Head(queue)) /\ queue' = Tail(queue)
    <3>1. Head(queue) \in Request /\ Tail(queue) \in Seq(Request)
      BY <2>1, Dequeued
    <3>2. inbox' \in Seq(Request) /\ waiting' \in Request
      BY <2>1, <3>1, Enqueued DEF SendTo
    <3> QED BY <1>7, <2>1, <3>1, <3>2 DEF ClientSend, Rest
  <2>2. CASE UNCHANGED <<queue, waiting, inbox>>
    BY <1>7, <2>2 DEF ClientSend, Rest
  <2> QED BY <1>7, <2>1, <2>2 DEF ClientSend
<1>8. CASE ClientReply
  BY <1>8, AbandonedTyped DEF ClientReply, Rest
<1>9. CASE ClientStatus
  <2>1. Ask("status", 0) \in Request
    BY AskedNothing
  <2>2. inbox' \in Seq(Request) /\ waiting' \in Request \cup {None}
    BY <1>9, <2>1, Enqueued DEF ClientStatus, SendTo
  <2> QED BY <1>9, <2>2 DEF ClientStatus, Rest
<1>10. CASE ClientAnswer
  BY <1>5, <1>10, AbandonedTyped DEF ClientAnswer
<1>11. CASE HandleRequest
  <2>1. Head(inbox) \in Request /\ Tail(inbox) \in Seq(Request)
       /\ Head(inbox).version \in 0..MaxVersions
    BY <1>11, Dequeued DEF HandleRequest
  <2>2. /\ inbox' = Tail(inbox) /\ waiting' \in {None, waiting} /\ queue' = queue
        /\ parent' \in {parent, Head(inbox).version}
    BY <1>11 DEF HandleRequest, Reply
  <2> QED BY <2>1, <2>2
<1>12. CASE Burst \/ BurstOver \/ Unpolled \/ WriteDir \/ WriteWeights
          \/ WriteState \/ AdvanceLatest
  BY <1>12 DEF Burst, BurstOver, Unpolled, WriteDir, WriteWeights, WriteState, AdvanceLatest, Keep
<1>13. CASE Manifest
  BY <1>13 DEF Manifest, StoreInv
<1>14. CASE UNCHANGED trainerVars
  BY <1>14 DEF trainerVars
<1> QED
  BY <1>1, <1>2, <1>3, <1>4, <1>6, <1>7, <1>8, <1>9, <1>10, <1>11, <1>12, <1>13, <1>14
     DEF TrainerNext, ProcessStep, ClientStep, StopStep

LEMMA TrainerStart == TrainerInit => TrainerInv
<1> SUFFICES ASSUME TrainerInit PROVE TrainerInv
  OBVIOUS
<1>1. Flags
  BY DEF TrainerInit, Flags
<1>2. Standing
  BY TrainerAssumption DEF TrainerInit, Standing, MissedDead
<1>3. Asking
  BY StoreAssumption DEF TrainerInit, Asking
<1> QED BY <1>1, <1>2, <1>3, StoreStart DEF TrainerInv

LEMMA TrainerStep == TrainerInv /\ [TrainerNext]_trainerVars => TrainerInv' /\ StoreKept
BY StoreStep, FlagsStep, StandingStep, AskingStep DEF TrainerInv

(* Trainer and client never leave their types, whoever dies and whatever   *)
(* is asked and answered late.                                             *)
THEOREM TrainerTypes == TrainerSpec => []TrainerTypeOK
<1>1. TrainerInv => TrainerTypeOK
  BY DEF TrainerInv, StoreInv, Flags, Standing, Asking, TrainerTypeOK, Writing
<1> QED BY <1>1, TrainerStart, TrainerStep, PTL DEF TrainerSpec

(* LATEST names a version with every file and a good verdict, wherever in  *)
(* the writing of another one the process dies.                            *)
THEOREM LatestStaysWhole == TrainerSpec => []LatestIsWhole
<1>1. TrainerInv => LatestIsWhole
  BY DEF TrainerInv, StoreInv
<1> QED BY <1>1, TrainerStart, TrainerStep, PTL DEF TrainerSpec

(* No process writes a version again that another has begun, and LATEST    *)
(* only goes forward.                                                      *)
THEOREM VersionsStand == TrainerSpec => NeverRewritten
<1>1. TrainerInv /\ [TrainerNext]_trainerVars =>
        [ /\ \A v \in versions : v \in DOMAIN dirs' /\ dirs'[v].by = dirs[v].by
                                 /\ dirs[v].files \subseteq dirs'[v].files
          /\ latest # None => latest' # None /\ latest' >= latest ]_trainerVars
  BY TrainerStep DEF StoreKept
<1> QED BY <1>1, TrainerStart, TrainerStep, PTL DEF TrainerSpec, NeverRewritten

(***************************************************************************)
(* The coordinator of an Online DAgger session.                            *)
(***************************************************************************)
Announced == [id: 1..MaxRollouts, n: Nat]

OnlineTypes ==
  /\ run \in {"none", "built", "running", "closing"} /\ session \in 0..MaxSessions
  /\ file \in Doc \cup {Nobody} /\ rollouts \in Seq(1..MaxRollouts) /\ saved \in Nat
  /\ worker \in Seq(Work) /\ wire \in Seq(Announced)
  /\ kept \in Seq(1..MaxRollouts) /\ episode \in {"none", "open", "saved"}

(* What was delivered is what the coordinator has taken, and the phase is  *)
(* what it says.                                                           *)
ViewInv ==
  /\ heard = view
  /\ view # Nobody /\ view.of # Nobody => phase = PhaseFor(view.state, seenReady)

(* The count is the number of rollouts, in memory, in the file and in every *)
(* document on its way there.                                              *)
DocInv ==
  /\ saved = Len(rollouts)
  /\ file # Nobody => file.saved = Len(file.rollouts)
  /\ \A i \in 1..Len(worker) :
       worker[i].what = "write" => worker[i].doc.saved = Len(worker[i].doc.rollouts)

(* A session that closes has the last document behind it or last in line.  *)
Now == [rollouts |-> rollouts, saved |-> saved]

LifeInv ==
  /\ orderly => run = "none" /\ worker = <<>> /\ (session > 0 => file = Now)
  /\ run # "none" => file # Nobody
  /\ episode # "none" => run = "running"
  /\ run = "closing" => IF worker = <<>> THEN file = Now ELSE worker[Len(worker)] = Document

KeptInv ==
  /\ Len(kept) <= MaxRollouts /\ (episode = "open" => Len(kept) < MaxRollouts)
  /\ episode = "saved" => Len(kept) > 0
  /\ \A i \in 1..Len(kept) : kept[i] = i

(* The announcements on the wire and those in line are numbered one after  *)
(* the other up to the count, each with the rollout of that number.        *)
WorkInv(q, told, r, n) ==
  /\ \A i \in 1..Len(q) : q[i].what = "saved" => told < q[i].n /\ q[i].n <= n /\ r[q[i].n] = q[i].id
  /\ \A i \in 1..Len(q) : \A j \in 1..(i - 1) :
       q[i].what = "saved" /\ q[j].what = "saved" => q[j].n < q[i].n
  /\ \A m \in (told + 1)..n : \E i \in 1..Len(q) : q[i].what = "saved" /\ q[i].n = m

WireInv(q, told, r) ==
  \A i \in 1..Len(q) : /\ q[i].n = told - Len(q) + i /\ q[i].n \in 1..Len(r)
                       /\ r[q[i].n] = q[i].id

NewestKept ==
  rollouts # <<>>
       /\ rollouts[Len(rollouts)] = IF episode = "saved" THEN Len(kept) - 1 ELSE Len(kept)

ToldUpTo(told) ==
  /\ WireInv(wire, told, rollouts) /\ WorkInv(worker, told, rollouts, saved)
  /\ wire # <<>> \/ told < saved => NewestKept

ToldInv == run # "none" \/ orderly => \E told \in 0..saved : ToldUpTo(told)

OnlineInv == OnlineTypes /\ ViewInv /\ DocInv /\ LifeInv /\ KeptInv /\ ToldInv

(* What stands in the worker's line. *)
LEMMA WorkTyped ==
  ASSUME NEW q \in Seq(Work), NEW i \in 1..Len(q)
  PROVE  /\ q[i] \in Work /\ q[i].what \in {"write", "saved"}
         /\ q[i].what = "saved" => q[i].n \in Nat /\ q[i].id \in 1..MaxRollouts
         /\ q[i].what = "write" => q[i].doc \in Doc
<1>1. q[i] \in Work
  BY ElementOfSeq
<1> QED BY <1>1 DEF Work

(* A document joins the line. *)
LEMMA WriteJoins ==
  ASSUME NEW q \in Seq(Work), NEW w \in Work, w.what = "write",
         NEW told \in Nat, NEW n \in Nat, NEW r, WorkInv(q, told, r, n)
  PROVE  WorkInv(Append(q, w), told, r, n)
<1> DEFINE G == Append(q, w)
<1>1. /\ Len(G) = Len(q) + 1 /\ Len(q) \in Nat /\ G[Len(q) + 1] = w
      /\ \A i \in 1..Len(q) : G[i] = q[i]
  BY AppendProperties
<1> HIDE DEF G
<1>2. \A i \in 1..Len(G) : G[i].what = "saved" => i \in 1..Len(q) /\ G[i] = q[i]
  BY <1>1
<1>3. \A i \in 1..Len(G) : G[i].what = "saved" => told < G[i].n /\ G[i].n <= n
     /\ r[G[i].n] = G[i].id
  BY <1>2 DEF WorkInv
<1>4. ASSUME NEW i \in 1..Len(G), NEW j \in 1..(i - 1), G[i].what = "saved", G[j].what = "saved"
      PROVE  G[j].n < G[i].n
  <2>1. j \in 1..Len(G)
    BY <1>1
  <2> QED BY <1>2, <1>4, <2>1 DEF WorkInv
<1>5. ASSUME NEW m \in (told + 1)..n PROVE \E i \in 1..Len(G) : G[i].what = "saved" /\ G[i].n = m
  <2>1. PICK i \in 1..Len(q) : q[i].what = "saved" /\ q[i].n = m
    BY DEF WorkInv
  <2>2. i \in 1..Len(G) /\ G[i] = q[i]
    BY <1>1
  <2> QED BY <2>1, <2>2
<1>6. WorkInv(G, told, r, n)
  BY <1>3, <1>4, <1>5 DEF WorkInv
<1> QED BY <1>6 DEF G

(* The next announcement joins it. *)
LEMMA SavedJoins ==
  ASSUME NEW q \in Seq(Work), NEW id \in 1..MaxRollouts, NEW told \in Nat,
         NEW r \in Seq(1..MaxRollouts), WorkInv(q, told, r, Len(r)), told <= Len(r)
  PROVE  WorkInv(Append(q, [what |-> "saved", id |-> id, n |-> Len(r) + 1]), told,
                 Append(r, id), Len(r) + 1)
<1> DEFINE w == [what |-> "saved", id |-> id, n |-> Len(r) + 1]
           G == Append(q, w)
           R == Append(r, id)
           n == Len(r)
<1>1. w \in Work /\ n \in Nat
  BY DEF Work
<1>2. /\ Len(G) = Len(q) + 1 /\ Len(q) \in Nat /\ G[Len(q) + 1] = w
      /\ \A i \in 1..Len(q) : G[i] = q[i]
  BY <1>1, AppendProperties
<1>3. R[n + 1] = id /\ \A m \in 1..n : R[m] = r[m]
  BY AppendProperties
<1>4. w.what = "saved" /\ w.n = n + 1 /\ w.id = id
  OBVIOUS
<1>5. \A i \in 1..Len(q) : q[i].what = "saved" =>
        /\ q[i].n \in Nat /\ told < q[i].n /\ q[i].n <= n /\ R[q[i].n] = q[i].id
  <2>1. ASSUME NEW i \in 1..Len(q), q[i].what = "saved"
        PROVE  /\ q[i].n \in Nat /\ told < q[i].n /\ q[i].n <= n /\ R[q[i].n] = q[i].id
    <3>1. q[i].n \in Nat
      BY <2>1, WorkTyped
    <3>2. told < q[i].n /\ q[i].n <= n /\ r[q[i].n] = q[i].id
      BY <2>1 DEF WorkInv
    <3>3. q[i].n \in 1..n
      BY <1>1, <3>1, <3>2
    <3> QED BY <1>3, <3>1, <3>2, <3>3
  <2> QED BY <2>1
<1> HIDE DEF G, R, w, n
<1>6. ASSUME NEW i \in 1..Len(G), G[i].what = "saved"
      PROVE  told < G[i].n /\ G[i].n <= n + 1 /\ R[G[i].n] = G[i].id
  <2>1. CASE i \in 1..Len(q)
    BY <1>1, <1>2, <1>5, <1>6, <2>1
  <2>2. CASE i = Len(q) + 1
    BY <1>1, <1>2, <1>3, <1>4, <2>2 DEF n
  <2> QED BY <1>2, <2>1, <2>2
<1>7. ASSUME NEW i \in 1..Len(G), NEW j \in 1..(i - 1), G[i].what = "saved", G[j].what = "saved"
      PROVE  G[j].n < G[i].n
  <2>1. j \in 1..Len(q) /\ G[j] = q[j]
    BY <1>2
  <2>2. CASE i \in 1..Len(q)
    <3>1. G[i] = q[i]
      BY <1>2, <2>2
    <3> QED BY <1>7, <2>1, <2>2, <3>1 DEF WorkInv
  <2>3. CASE i = Len(q) + 1
    BY <1>1, <1>2, <1>4, <1>5, <1>7, <2>1, <2>3
  <2> QED BY <1>2, <2>2, <2>3
<1>8. ASSUME NEW m \in (told + 1)..(n + 1) PROVE \E i \in 1..Len(G) : G[i].what = "saved"
     /\ G[i].n = m
  <2>1. CASE m = n + 1
    <3>1. Len(q) + 1 \in 1..Len(G)
      BY <1>2
    <3> QED BY <1>2, <1>4, <2>1, <3>1
  <2>2. CASE m # n + 1
    <3>1. m \in (told + 1)..n
      BY <1>1, <2>2
    <3>2. PICK i \in 1..Len(q) : q[i].what = "saved" /\ q[i].n = m
      BY <3>1 DEF WorkInv, n
    <3>3. i \in 1..Len(G) /\ G[i] = q[i]
      BY <1>2
    <3> QED BY <3>2, <3>3
  <2> QED BY <2>1, <2>2
<1>9. WorkInv(G, told, R, n + 1)
  BY <1>6, <1>7, <1>8 DEF WorkInv
<1> QED BY <1>9 DEF G, R, w, n

(* The line moves on: a document changes nothing, an announcement is the   *)
(* one whose turn it is.                                                   *)
LEMMA LineMoves ==
  ASSUME NEW q \in Seq(Work), q # <<>>, NEW told \in Nat, NEW n \in Nat, NEW r,
         told <= n, WorkInv(q, told, r, n)
  PROVE  /\ Head(q).what = "write" => WorkInv(Tail(q), told, r, n)
         /\ Head(q).what = "saved" =>
              /\ Head(q).n = told + 1 /\ told + 1 <= n /\ r[told + 1] = Head(q).id
              /\ WorkInv(Tail(q), told + 1, r, n)
<1>1. /\ Tail(q) \in Seq(Work) /\ Len(Tail(q)) = Len(q) - 1 /\ Len(q) \in Nat /\ Len(q) > 0
      /\ \A i \in 1..Len(Tail(q)) : Tail(q)[i] = q[i + 1]
      /\ Head(q) = q[1]
  BY HeadTailProperties, EmptySeq
<1> DEFINE T == Tail(q)
<1>2. Len(T) = Len(q) - 1 /\ \A i \in 1..Len(T) : T[i] = q[i + 1] /\ i + 1 \in 1..Len(q)
  BY <1>1
<1> HIDE DEF T
<1>3. \A i \in 1..Len(q) : q[i].what = "saved" => q[i].n \in Nat
  BY WorkTyped
<1>4. ASSUME NEW i \in 1..Len(T), NEW j \in 1..(i - 1), T[i].what = "saved", T[j].what = "saved"
      PROVE  T[j].n < T[i].n
  <2>1. j \in 1..Len(T) /\ j + 1 \in 1..(i + 1 - 1)
    BY <1>1, <1>2
  <2>2. /\ i + 1 \in 1..Len(q) /\ T[i] = q[i + 1] /\ T[j] = q[j + 1]
    BY <1>2, <2>1
  <2>3. q[j + 1].n < q[i + 1].n
    <3>1. \A k \in 1..Len(q) : \A l \in 1..(k - 1) :
            q[k].what = "saved" /\ q[l].what = "saved" => q[l].n < q[k].n
      BY DEF WorkInv
    <3> QED BY <1>4, <2>1, <2>2, <3>1
  <2> QED BY <2>2, <2>3
<1>5. ASSUME Head(q).what = "write" PROVE WorkInv(T, told, r, n)
  <2>1. \A i \in 1..Len(T) : T[i].what = "saved" => told < T[i].n /\ T[i].n <= n
       /\ r[T[i].n] = T[i].id
    <3>1. ASSUME NEW i \in 1..Len(T), T[i].what = "saved"
          PROVE  told < T[i].n /\ T[i].n <= n /\ r[T[i].n] = T[i].id
      <4>1. i + 1 \in 1..Len(q) /\ T[i] = q[i + 1]
        BY <1>2
      <4> QED BY <3>1, <4>1 DEF WorkInv
    <3> QED BY <3>1
  <2>2. ASSUME NEW m \in (told + 1)..n PROVE \E i \in 1..Len(T) : T[i].what = "saved" /\ T[i].n = m
    <3>1. PICK i \in 1..Len(q) : q[i].what = "saved" /\ q[i].n = m
      BY DEF WorkInv
    <3>2. i # 1
      BY <1>1, <1>5, <3>1
    <3>3. i - 1 \in 1..Len(T) /\ T[i - 1] = q[i]
      BY <1>1, <1>2, <3>2
    <3> QED BY <3>1, <3>3
  <2> QED BY <1>4, <2>1, <2>2 DEF WorkInv
<1>6. ASSUME Head(q).what = "saved"
      PROVE  /\ Head(q).n = told + 1 /\ told + 1 <= n /\ r[told + 1] = Head(q).id
             /\ WorkInv(T, told + 1, r, n)
  <2>1. q[1].what = "saved" /\ 1 \in 1..Len(q) /\ q[1].n \in Nat
    BY <1>1, <1>3, <1>6
  <2>2. told < q[1].n /\ q[1].n <= n /\ r[q[1].n] = q[1].id
    BY <2>1 DEF WorkInv
  <2>3. told + 1 \in (told + 1)..n
    BY <2>1, <2>2
  <2>4. PICK k \in 1..Len(q) : q[k].what = "saved" /\ q[k].n = told + 1
    BY <2>3 DEF WorkInv
  <2>5. k # 1 => q[1].n < q[k].n
    BY <1>1, <2>1, <2>4 DEF WorkInv
  <2>6. q[1].n = told + 1
    BY <2>1, <2>2, <2>4, <2>5
  <2>7. \A i \in 1..Len(T) : T[i].what = "saved" => told + 1 < T[i].n /\ T[i].n <= n
       /\ r[T[i].n] = T[i].id
    <3>1. ASSUME NEW i \in 1..Len(T), T[i].what = "saved"
          PROVE  told + 1 < T[i].n /\ T[i].n <= n /\ r[T[i].n] = T[i].id
      <4>1. i + 1 \in 1..Len(q) /\ T[i] = q[i + 1] /\ 1 \in 1..(i + 1 - 1)
        BY <1>2
      <4> QED BY <2>1, <2>6, <3>1, <4>1 DEF WorkInv
    <3> QED BY <3>1
  <2>8. ASSUME NEW m \in (told + 1 + 1)..n PROVE \E i \in 1..Len(T) : T[i].what = "saved"
       /\ T[i].n = m
    <3>1. PICK i \in 1..Len(q) : q[i].what = "saved" /\ q[i].n = m
      BY DEF WorkInv
    <3>2. i # 1
      BY <2>6, <3>1
    <3>3. i - 1 \in 1..Len(T) /\ T[i - 1] = q[i]
      BY <1>1, <1>2, <3>2
    <3> QED BY <3>1, <3>3
  <2>9. WorkInv(T, told + 1, r, n)
    BY <1>4, <2>7, <2>8 DEF WorkInv
  <2> QED BY <1>1, <2>1, <2>2, <2>3, <2>6, <2>9
<1> QED BY <1>5, <1>6 DEF T

LEMMA DocumentTyped ==
  ASSUME OnlineTypes
  PROVE  Now \in Doc /\ Document \in Work /\ Document.what = "write" /\ Document.doc = Now
BY DEF OnlineTypes, Now, Document, Doc, Work

LEMMA NoDocument == Nobody \notin Doc
BY OnlineAssumption

LEMMA LineGrows ==
  ASSUME OnlineTypes, NEW w \in Work
  PROVE  /\ Append(worker, w) \in Seq(Work) /\ Append(worker, w) # <<>>
         /\ Len(Append(worker, w)) = Len(worker) + 1 /\ Len(worker) \in Nat
         /\ Append(worker, w)[Len(worker) + 1] = w
         /\ \A i \in 1..Len(worker) : Append(worker, w)[i] = worker[i]
<1>1. worker \in Seq(Work)
  BY DEF OnlineTypes
<1> QED BY <1>1, AppendProperties

(* An episode's announcement and its document. *)
SavedWork == [what |-> "saved", id |-> Len(kept), n |-> saved + 1]
SavedDoc == [rollouts |-> Append(rollouts, Len(kept)), saved |-> saved + 1]

LEMMA EpisodeSavedIs ==
  ASSUME OnlineTypes, DocInv, KeptInv, EpisodeSaved
  PROVE  /\ episode = "saved" /\ episode' = "none" /\ Len(kept) \in 1..MaxRollouts
         /\ rollouts' = Append(rollouts, Len(kept)) /\ saved' = saved + 1
         /\ rollouts' \in Seq(1..MaxRollouts) /\ Len(rollouts') = saved + 1
         /\ rollouts'[saved + 1] = Len(kept) /\ \A m \in 1..saved : rollouts'[m] = rollouts[m]
         /\ SavedWork \in Work /\ [what |-> "write", doc |-> SavedDoc] \in Work
         /\ worker' = Append(Append(worker, SavedWork), [what |-> "write", doc |-> SavedDoc])
         /\ SavedDoc.saved = Len(SavedDoc.rollouts)
<1>1. Len(kept) \in 1..MaxRollouts /\ episode = "saved" /\ episode' = "none"
  BY OnlineAssumption DEF OnlineTypes, KeptInv, EpisodeSaved
<1>2. /\ rollouts \in Seq(1..MaxRollouts) /\ saved = Len(rollouts) /\ saved \in Nat
  BY DEF OnlineTypes, DocInv
<1>3. /\ Append(rollouts, Len(kept)) \in Seq(1..MaxRollouts)
      /\ Len(Append(rollouts, Len(kept))) = saved + 1
      /\ Append(rollouts, Len(kept))[saved + 1] = Len(kept)
      /\ \A m \in 1..saved : Append(rollouts, Len(kept))[m] = rollouts[m]
  BY <1>1, <1>2, AppendProperties
<1>4. rollouts' = Append(rollouts, Len(kept)) /\ saved' = saved + 1
  BY DEF EpisodeSaved
<1>5. SavedDoc \in Doc /\ SavedDoc.saved = Len(SavedDoc.rollouts)
  BY <1>2, <1>3 DEF SavedDoc, Doc
<1>6. SavedWork \in Work /\ [what |-> "write", doc |-> SavedDoc] \in Work
  BY <1>1, <1>2, <1>5 DEF SavedWork, Work
<1>7. worker' = worker \o <<SavedWork, [what |-> "write", doc |-> SavedDoc]>>
  BY <1>4 DEF EpisodeSaved, SavedWork, SavedDoc
<1>8. ASSUME NEW q \in Seq(Work), NEW a \in Work, NEW b \in Work
      PROVE  q \o <<a, b>> = Append(Append(q, a), b)
  OBVIOUS
<1>9. worker' = Append(Append(worker, SavedWork), [what |-> "write", doc |-> SavedDoc])
  BY <1>6, <1>7, <1>8 DEF OnlineTypes
<1> QED BY <1>1, <1>3, <1>4, <1>5, <1>6, <1>9

(* What a step does to the worker's line: nothing, most of them. *)
LineKept == worker' = worker \/ worker' = Append(worker, Document)

LEMMA WorkerRunsIs ==
  ASSUME OnlineTypes, WorkerRuns
  PROVE  /\ worker # <<>> /\ worker' = Tail(worker) /\ worker' \in Seq(Work)
         /\ Len(worker') = Len(worker) - 1 /\ Len(worker) \in Nat /\ Len(worker) > 0
         /\ \A i \in 1..Len(worker') : worker'[i] = worker[i + 1] /\ i + 1 \in 1..Len(worker)
         /\ Head(worker) = worker[1] /\ Head(worker) \in Work /\ 1 \in 1..Len(worker)
         /\ Head(worker).what \in {"write", "saved"}
         /\ Head(worker).what = "write" =>
              file' = Head(worker).doc /\ Head(worker).doc \in Doc /\ wire' = wire
         /\ Head(worker).what = "saved" =>
              /\ Head(worker).n \in Nat /\ Head(worker).id \in 1..MaxRollouts
              /\ file' = file
              /\ wire' = Append(wire, [id |-> Head(worker).id, n |-> Head(worker).n])
         /\ UNCHANGED <<run, session, kept, rollouts, saved, episode, orderly>>
<1>1. worker \in Seq(Work) /\ worker # <<>> /\ worker' = Tail(worker)
  BY DEF OnlineTypes, WorkerRuns
<1>2. /\ Tail(worker) \in Seq(Work) /\ Len(Tail(worker)) = Len(worker) - 1
     /\ Head(worker) = worker[1]
      /\ Len(worker) \in Nat /\ Len(worker) > 0
      /\ \A i \in 1..Len(Tail(worker)) : Tail(worker)[i] = worker[i + 1]
  BY <1>1, HeadTailProperties, EmptySeq
<1>3. \A i \in 1..Len(Tail(worker)) : i + 1 \in 1..Len(worker)
  BY <1>2
<1>4. 1 \in 1..Len(worker)
  BY <1>2
<1>5. /\ Head(worker) \in Work /\ Head(worker).what \in {"write", "saved"}
      /\ Head(worker).what = "saved" => Head(worker).n \in Nat /\ Head(worker).id \in 1..MaxRollouts
      /\ Head(worker).what = "write" => Head(worker).doc \in Doc
  BY <1>1, <1>2, <1>4, WorkTyped
<1>6. UNCHANGED <<run, session, kept, rollouts, saved, episode, orderly>>
  BY DEF WorkerRuns, coordinatorVars
<1> QED BY <1>1, <1>2, <1>3, <1>4, <1>5, <1>6 DEF WorkerRuns

LEMMA OnlineStart == OnlineInit => OnlineInv
<1> SUFFICES ASSUME OnlineInit PROVE OnlineInv
  OBVIOUS
<1> USE OnlineAssumption DEF OnlineInit
<1>1. OnlineTypes
  BY DEF OnlineTypes
<1>2. ViewInv /\ DocInv
  BY DEF ViewInv, DocInv
<1>3. LifeInv /\ KeptInv
  BY DEF LifeInv, KeptInv
<1>4. ToldUpTo(0)
  BY DEF ToldUpTo, WireInv, WorkInv
<1>5. ToldInv
  BY <1>4 DEF ToldInv
<1> QED BY <1>1, <1>2, <1>3, <1>5 DEF OnlineInv

(* The steps that are none of the coordinator's documents or rollouts.     *)
Aside ==
  \/ Abandon \/ TrainerSends \/ Silence \/ EpisodeNew \/ EpisodeDiscarded \/ UNCHANGED onlineVars

LEMMA ViewStep == ASSUME ViewInv, [OnlineNext]_onlineVars PROVE ViewInv'
<1> USE DEF ViewInv, coordinatorVars, busVars, ioVars
<1>1. CASE Build
  BY <1>1 DEF Build
<1>2. CASE Abandon \/ Start \/ Close
  BY <1>2 DEF Abandon, Start, Close
<1>3. CASE Closed \/ Crash \/ TrainerSends \/ Silence
  BY <1>3 DEF Closed, Crash, TrainerSends, Silence
<1>4. CASE DeliverStatus
  <2>1. PICK m \in air : Deliver(m)
    BY <1>4 DEF DeliverStatus
  <2>2. CASE Taken(m)
    <3>1. heard' = m /\ view' = m
      BY <2>1, <2>2 DEF Deliver, Taken, Newer
    <3>2. m.of # Nobody => phase' = PhaseFor(m.state, seenReady')
      BY <2>1, <2>2 DEF Deliver
    <3> QED BY <3>1, <3>2 DEF PhaseFor
  <2>3. CASE ~ Taken(m)
    BY <2>1, <2>3 DEF Deliver, Taken, Newer, PhaseFor
  <2> QED BY <2>2, <2>3
<1>5. CASE EpisodeNew \/ EpisodeDiscarded \/ EpisodeOnDisk
  BY <1>5 DEF EpisodeNew, EpisodeDiscarded, EpisodeOnDisk
<1>6. CASE EpisodeSaved \/ WorkerRuns
  BY <1>6 DEF EpisodeSaved, WorkerRuns
<1>7. CASE UNCHANGED onlineVars
  BY <1>7 DEF onlineVars
<1> QED BY <1>1, <1>2, <1>3, <1>4, <1>5, <1>6, <1>7 DEF OnlineNext

(* The steps by what they do to the documents and the rollouts.            *)
LEMMA OnlineSteps ==
  ASSUME [OnlineNext]_onlineVars
  PROVE  \/ Build \/ Close \/ Crash \/ EpisodeOnDisk \/ EpisodeSaved \/ WorkerRuns \/ Abandon
         \/ /\ LineKept /\ UNCHANGED <<session, file, kept, rollouts, saved, wire>>
            /\ \/ run' = run /\ run = "running" /\ UNCHANGED <<episode, orderly>>
               \/ run = "built" /\ run' = "running" /\ UNCHANGED <<episode, orderly>>
               \/ run = "running" /\ run' = run /\ episode = "none" /\ Len(kept) < MaxRollouts
                  /\ episode' = "open" /\ orderly' = orderly
               \/ run' = run /\ episode = "open" /\ episode' = "none" /\ orderly' = orderly
               \/ run = "closing" /\ run' = "none" /\ worker = <<>> /\ worker' = worker
                  /\ episode' = episode /\ orderly' = TRUE
               \/ worker' = worker /\ UNCHANGED <<run, episode, orderly>>
<1> USE DEF LineKept, coordinatorVars, busVars, ioVars
<1>1. CASE Start
  BY <1>1 DEF Start
<1>2. CASE DeliverStatus
  BY <1>2 DEF DeliverStatus, Deliver
<1>3. CASE EpisodeNew
  BY <1>3 DEF EpisodeNew
<1>4. CASE EpisodeDiscarded
  BY <1>4 DEF EpisodeDiscarded
<1>5. CASE Closed
  BY <1>5 DEF Closed
<1>6. CASE TrainerSends \/ Silence \/ UNCHANGED onlineVars
  BY <1>6 DEF TrainerSends, Silence, onlineVars
<1> QED BY <1>1, <1>2, <1>3, <1>4, <1>5, <1>6 DEF OnlineNext

LEMMA BuildIs ==
  ASSUME OnlineTypes, DocInv, Build
  PROVE  /\ run' = "built" /\ session' \in 0..MaxSessions /\ file' \in Doc /\ wire' = <<>>
       /\ worker' = <<>>
         /\ rollouts' \in Seq(1..MaxRollouts) /\ saved' = Len(rollouts') /\ saved' \in Nat
         /\ file'.saved = Len(file'.rollouts)
         /\ episode' = "none" /\ orderly' = FALSE /\ kept' = kept
<1>1. CASE file = Nobody
  <2>1. Blank \in Doc /\ Blank.saved = Len(Blank.rollouts)
    BY DEF Blank, Doc
  <2> QED BY <1>1, <2>1, OnlineAssumption DEF Build, OnlineTypes
<1>2. CASE file # Nobody
  <2>1. file \in Doc /\ file.saved = Len(file.rollouts) /\ file.rollouts \in Seq(1..MaxRollouts)
    BY <1>2 DEF OnlineTypes, DocInv, Doc
  <2>2. rollouts' = file.rollouts /\ saved' = Len(file.rollouts) /\ file' = file
    BY <1>2, <2>1 DEF Build, Resumed
  <2> QED BY <2>1, <2>2, OnlineAssumption DEF Build, OnlineTypes
<1> QED BY <1>1, <1>2

LEMMA OnlineTypesStep ==
  ASSUME OnlineTypes, DocInv, KeptInv, [OnlineNext]_onlineVars
  PROVE  OnlineTypes'
<1>0. /\ worker \in Seq(Work) /\ wire \in Seq(Announced) /\ kept \in Seq(1..MaxRollouts)
      /\ <<>> \in Seq(Work) /\ <<>> \in Seq(Announced)
  BY EmptySeq DEF OnlineTypes
<1>1. CASE Build
  <2>1. /\ run' = "built" /\ session' \in 0..MaxSessions /\ file' \in Doc /\ wire' = <<>>
       /\ worker' = <<>>
        /\ rollouts' \in Seq(1..MaxRollouts) /\ saved' \in Nat /\ episode' = "none" /\ kept' = kept
    BY <1>1, BuildIs
  <2> QED BY <1>0, <2>1 DEF OnlineTypes
<1>2. CASE Abandon
  BY <1>2 DEF Abandon, coordinatorVars, OnlineTypes
<1>3. CASE Close
  <2>1. worker' \in Seq(Work)
    BY <1>3, DocumentTyped, LineGrows DEF Close
  <2> QED BY <1>3, <2>1 DEF Close, coordinatorVars, OnlineTypes
<1>4. CASE Crash
  BY <1>0, <1>4 DEF Crash, coordinatorVars, OnlineTypes
<1>5. CASE EpisodeOnDisk
  <2>1. Len(kept) + 1 \in 1..MaxRollouts
    BY <1>0, <1>5, OnlineAssumption DEF EpisodeOnDisk, KeptInv
  <2>2. Append(kept, Len(kept) + 1) \in Seq(1..MaxRollouts)
    BY <1>0, <2>1, AppendProperties
  <2> QED BY <1>5, <2>2 DEF EpisodeOnDisk, coordinatorVars, ioVars, OnlineTypes
<1>6. CASE EpisodeSaved
  <2>1. /\ SavedWork \in Work /\ [what |-> "write", doc |-> SavedDoc] \in Work
        /\ worker' = Append(Append(worker, SavedWork), [what |-> "write", doc |-> SavedDoc])
        /\ rollouts' \in Seq(1..MaxRollouts) /\ saved' = saved + 1 /\ episode' = "none"
    BY <1>6, EpisodeSavedIs
  <2>2. Append(worker, SavedWork) \in Seq(Work)
    BY <1>0, <2>1, AppendProperties
  <2>3. worker' \in Seq(Work)
    BY <2>1, <2>2, AppendProperties
  <2> QED BY <1>6, <2>1, <2>3 DEF EpisodeSaved, OnlineTypes
<1>7. CASE WorkerRuns
  <2>1. wire' \in Seq(Announced)
    <3>1. CASE Head(worker).what = "saved"
      <4>1. /\ [id |-> Head(worker).id, n |-> Head(worker).n] \in Announced
            /\ wire' = Append(wire, [id |-> Head(worker).id, n |-> Head(worker).n])
        BY <1>7, <3>1, WorkerRunsIs DEF Announced
      <4> QED BY <1>0, <4>1, AppendProperties
    <3>2. CASE Head(worker).what = "write"
      BY <1>0, <1>7, <3>2, WorkerRunsIs
    <3> QED BY <1>7, <3>1, <3>2, WorkerRunsIs
  <2>2. file' \in Doc \cup {Nobody}
    BY <1>7, WorkerRunsIs DEF OnlineTypes
  <2>3. worker' \in Seq(Work) /\ UNCHANGED <<run, session, kept, rollouts, saved, episode>>
    BY <1>7, WorkerRunsIs
  <2> QED BY <2>1, <2>2, <2>3 DEF OnlineTypes
<1>8. CASE LineKept /\ UNCHANGED <<session, file, kept, rollouts, saved, wire>>
           /\ run' \in {"none", "running", run} /\ episode' \in {"none", "open", episode}
  <2>1. worker' \in Seq(Work)
    BY <1>0, <1>8, DocumentTyped, LineGrows DEF LineKept
  <2> QED BY <1>8, <2>1 DEF OnlineTypes
<1> QED BY OnlineSteps, <1>1, <1>2, <1>3, <1>4, <1>5, <1>6, <1>7, <1>8

(* What an episode adds to the line.                                       *)
LEMMA EpisodeLine ==
  ASSUME OnlineTypes, DocInv, KeptInv, EpisodeSaved
  PROVE  \A i \in 1..Len(worker') :
           \/ i \in 1..Len(worker) /\ worker'[i] = worker[i]
           \/ worker'[i] = SavedWork
           \/ worker'[i] = [what |-> "write", doc |-> SavedDoc]
<1> DEFINE A == Append(worker, SavedWork)
<1>1. /\ A \in Seq(Work) /\ Len(A) = Len(worker) + 1 /\ Len(worker) \in Nat
     /\ A[Len(worker) + 1] = SavedWork
      /\ \A i \in 1..Len(worker) : A[i] = worker[i]
  BY EpisodeSavedIs, LineGrows
<1>2. /\ worker' = Append(A, [what |-> "write", doc |-> SavedDoc])
      /\ [what |-> "write", doc |-> SavedDoc] \in Work
  BY EpisodeSavedIs
<1> HIDE DEF A
<1>3. /\ Len(worker') = Len(A) + 1 /\ worker'[Len(A) + 1] = [what |-> "write", doc |-> SavedDoc]
      /\ \A i \in 1..Len(A) : worker'[i] = A[i]
  BY <1>1, <1>2, AppendProperties
<1> QED BY <1>1, <1>3

LEMMA DocStep ==
  ASSUME OnlineTypes, DocInv, KeptInv, [OnlineNext]_onlineVars
  PROVE  DocInv'
<1>1. CASE Build
  <2>1. /\ worker' = <<>> /\ saved' = Len(rollouts') /\ file'.saved = Len(file'.rollouts)
    BY <1>1, BuildIs
  <2>2. Len(<<>>) = 0
    OBVIOUS
  <2> QED BY <2>1, <2>2 DEF DocInv
<1>2. CASE Abandon
  BY <1>2 DEF Abandon, coordinatorVars, DocInv
<1>3. CASE Crash
  <2>1. worker' = <<>> /\ UNCHANGED <<file, rollouts, saved>>
    BY <1>3 DEF Crash, coordinatorVars
  <2>2. Len(<<>>) = 0
    OBVIOUS
  <2> QED BY <2>1, <2>2 DEF DocInv
<1>4. CASE EpisodeOnDisk
  BY <1>4 DEF EpisodeOnDisk, coordinatorVars, ioVars, DocInv
<1>5. CASE EpisodeSaved
  <2>1. \A i \in 1..Len(worker') :
          \/ i \in 1..Len(worker) /\ worker'[i] = worker[i]
          \/ worker'[i] = SavedWork
          \/ worker'[i] = [what |-> "write", doc |-> SavedDoc]
    BY <1>5, EpisodeLine
  <2>2. SavedWork.what = "saved" /\ SavedDoc.saved = Len(SavedDoc.rollouts)
    BY <1>5, EpisodeSavedIs DEF SavedWork
  <2>3. \A i \in 1..Len(worker') :
          worker'[i].what = "write" => worker'[i].doc.saved = Len(worker'[i].doc.rollouts)
    BY <2>1, <2>2 DEF DocInv
  <2>4. saved' = Len(rollouts') /\ file' = file
    BY <1>5, EpisodeSavedIs DEF EpisodeSaved
  <2> QED BY <2>3, <2>4 DEF DocInv
<1>6. CASE WorkerRuns
  <2>1. \A i \in 1..Len(worker') :
          worker'[i].what = "write" => worker'[i].doc.saved = Len(worker'[i].doc.rollouts)
    BY <1>6, WorkerRunsIs DEF DocInv
  <2>2. file' # Nobody => file'.saved = Len(file'.rollouts)
    BY <1>6, WorkerRunsIs DEF DocInv
  <2> QED BY <1>6, <2>1, <2>2, WorkerRunsIs DEF DocInv
<1>7. CASE LineKept /\ UNCHANGED <<file, rollouts, saved>>
  <2>1. \A i \in 1..Len(worker') :
          \/ i \in 1..Len(worker) /\ worker'[i] = worker[i]
          \/ worker'[i] = Document
    BY <1>7, DocumentTyped, LineGrows DEF LineKept
  <2>2. Document.doc.saved = Len(Document.doc.rollouts)
    BY DocumentTyped DEF Now, DocInv
  <2> QED BY <1>7, <2>1, <2>2 DEF DocInv
<1>8. CASE Close
  BY <1>7, <1>8 DEF Close, LineKept, coordinatorVars
<1> QED BY OnlineSteps, <1>1, <1>2, <1>3, <1>4, <1>5, <1>6, <1>7, <1>8

LEMMA KeptStep ==
  ASSUME OnlineTypes, DocInv, KeptInv, [OnlineNext]_onlineVars
  PROVE  KeptInv'
<1>0. kept \in Seq(1..MaxRollouts) /\ Len(kept) \in Nat /\ MaxRollouts \in Nat
  BY OnlineAssumption DEF OnlineTypes
<1>1. CASE UNCHANGED kept /\ (episode' = episode \/ episode' = "none"
                              \/ (episode' = "open" /\ Len(kept) < MaxRollouts))
  BY <1>0, <1>1 DEF KeptInv
<1>2. CASE EpisodeOnDisk
  <2>1. episode = "open" /\ episode' = "saved" /\ kept' = Append(kept, Len(kept) + 1)
    BY <1>2 DEF EpisodeOnDisk
  <2>2. Len(kept) + 1 \in 1..MaxRollouts
    BY <1>0, <2>1 DEF KeptInv
  <2>3. /\ Len(kept') = Len(kept) + 1 /\ kept'[Len(kept) + 1] = Len(kept) + 1
        /\ \A i \in 1..Len(kept) : kept'[i] = kept[i]
    BY <1>0, <2>1, <2>2, AppendProperties
  <2>4. ASSUME NEW i \in 1..Len(kept') PROVE kept'[i] = i
    BY <1>0, <2>3, <2>4 DEF KeptInv
  <2> QED BY <1>0, <2>1, <2>2, <2>3, <2>4 DEF KeptInv
<1>3. CASE Build \/ Close \/ Crash \/ Abandon
  <2>1. UNCHANGED kept /\ (episode' = episode \/ episode' = "none")
    BY <1>3 DEF Build, Close, Crash, Abandon
  <2> QED BY <1>1, <2>1
<1>4. CASE EpisodeSaved \/ WorkerRuns
  <2>1. UNCHANGED kept /\ (episode' = episode \/ episode' = "none")
    BY <1>4 DEF EpisodeSaved, WorkerRuns
  <2> QED BY <1>1, <2>1
<1>5. ASSUME ~ (Build \/ Close \/ Crash \/ EpisodeOnDisk \/ EpisodeSaved \/ WorkerRuns \/ Abandon)
      PROVE  KeptInv'
  <2>1. UNCHANGED kept /\ (episode' = episode \/ episode' = "none"
                           \/ (episode' = "open" /\ Len(kept) < MaxRollouts))
    BY <1>5, OnlineSteps
  <2> QED BY <1>1, <2>1
<1> QED BY <1>2, <1>3, <1>4, <1>5

LEMMA LifeStep ==
  ASSUME OnlineTypes, DocInv, KeptInv, LifeInv, [OnlineNext]_onlineVars
  PROVE  LifeInv'
<1>0. worker \in Seq(Work) /\ Document \in Work /\ Document.what = "write" /\ Document.doc = Now
  BY DocumentTyped DEF OnlineTypes
<1>1. CASE Build
  <2>1. /\ run' = "built" /\ file' \in Doc /\ episode' = "none" /\ orderly' = FALSE
    BY <1>1, BuildIs
  <2>2. Nobody \notin Doc
    BY NoDocument
  <2> QED BY <2>1, <2>2 DEF LifeInv
<1>2. CASE Abandon
  BY <1>2 DEF Abandon, LifeInv
<1>3. CASE Crash
  BY <1>3 DEF Crash, LifeInv
<1>4. CASE Close
  <2>1. /\ run = "running" /\ run' = "closing" /\ episode' = "none"
        /\ worker' = Append(worker, Document)
        /\ UNCHANGED <<file, rollouts, saved, orderly>>
    BY <1>4 DEF Close, coordinatorVars
  <2>2. worker' # <<>> /\ worker'[Len(worker')] = Document
    BY <1>0, <2>1, LineGrows
  <2>3. Document' = Document
    BY <2>1 DEF Document
  <2> QED BY <2>1, <2>2, <2>3 DEF LifeInv
<1>5. CASE EpisodeOnDisk
  BY <1>5 DEF EpisodeOnDisk, coordinatorVars, ioVars, LifeInv, Now, Document
<1>6. CASE EpisodeSaved
  <2>1. episode' = "none" /\ episode # "none" /\ UNCHANGED <<run, session, file, orderly>>
    BY <1>6 DEF EpisodeSaved
  <2> QED BY <2>1 DEF LifeInv
<1>7. CASE WorkerRuns
  <2>1. run # "none" /\ file # Nobody /\ (episode # "none" => run = "running")
        /\ UNCHANGED <<run, session, rollouts, saved, episode, orderly>>
    BY <1>7, WorkerRunsIs DEF WorkerRuns, LifeInv
  <2>2. ~ orderly
    BY <2>1 DEF LifeInv
  <2>3. file' # Nobody
    BY <1>7, <2>1, WorkerRunsIs, NoDocument
  <2>4. Document' = Document /\ Now' = Now
    BY <2>1 DEF Document, Now
  <2>5. ASSUME run = "closing"
        PROVE  IF worker' = <<>> THEN file' = Now ELSE worker'[Len(worker')] = Document
    <3>1. worker # <<>> /\ worker[Len(worker)] = Document
      BY <1>7, <2>5, WorkerRunsIs DEF LifeInv
    <3>2. /\ Len(worker') = Len(worker) - 1 /\ Len(worker) \in Nat /\ Len(worker) > 0
          /\ worker' \in Seq(Work) /\ Head(worker) = worker[1]
          /\ \A i \in 1..Len(worker') : worker'[i] = worker[i + 1]
          /\ Head(worker).what = "write" => file' = Head(worker).doc
      BY <1>7, WorkerRunsIs
    <3>3. CASE worker' = <<>>
      <4>1. Len(worker) = 1
        BY <3>2, <3>3
      <4> QED BY <1>0, <3>1, <3>2, <3>3, <4>1
    <3>4. CASE worker' # <<>>
      <4>1. Len(worker') \in 1..Len(worker')
        BY <3>2, <3>4, EmptySeq
      <4>2. worker'[Len(worker')] = worker[Len(worker)]
        BY <3>2, <4>1
      <4> QED BY <3>1, <3>4, <4>2
    <3> QED BY <3>3, <3>4
  <2> QED BY <2>1, <2>2, <2>3, <2>4, <2>5 DEF LifeInv
<1>8. CASE /\ LineKept /\ UNCHANGED <<session, file, kept, rollouts, saved, wire>>
           /\ \/ run' = run /\ run = "running" /\ UNCHANGED <<episode, orderly>>
              \/ run = "built" /\ run' = "running" /\ UNCHANGED <<episode, orderly>>
              \/ run = "running" /\ run' = run /\ episode = "none" /\ Len(kept) < MaxRollouts
                 /\ episode' = "open" /\ orderly' = orderly
              \/ run' = run /\ episode = "open" /\ episode' = "none" /\ orderly' = orderly
              \/ run = "closing" /\ run' = "none" /\ worker = <<>> /\ worker' = worker
                 /\ episode' = episode /\ orderly' = TRUE
              \/ worker' = worker /\ UNCHANGED <<run, episode, orderly>>
  <2>1. Now' = Now /\ Document' = Document
    BY <1>8 DEF Now, Document
  <2> QED BY <1>8, <2>1 DEF LifeInv
<1> QED BY OnlineSteps, <1>1, <1>2, <1>3, <1>4, <1>5, <1>6, <1>7, <1>8

(***************************************************************************)
(* What has been told.                                                     *)
(***************************************************************************)
LEMMA ToldKept ==
  ASSUME OnlineTypes, NEW told \in 0..saved, ToldUpTo(told),
         UNCHANGED <<rollouts, saved, wire>>, NewestKept => NewestKept',
         \/ worker' = worker
         \/ \E w \in Work : w.what = "write" /\ worker' = Append(worker, w)
  PROVE  ToldUpTo(told)'
<1>1. told \in Nat /\ saved \in Nat /\ worker \in Seq(Work)
  BY DEF OnlineTypes
<1>2. WorkInv(worker, told, rollouts, saved)
  BY DEF ToldUpTo
<1>3. WorkInv(worker', told, rollouts, saved)
  <2>1. CASE worker' = worker
    BY <1>2, <2>1
  <2>2. ASSUME NEW w \in Work, w.what = "write", worker' = Append(worker, w)
        PROVE  WorkInv(worker', told, rollouts, saved)
    <3>1. WorkInv(Append(worker, w), told, rollouts, saved)
      BY <1>1, <1>2, <2>2, WriteJoins
    <3> QED BY <2>2, <3>1
  <2> QED BY <2>1, <2>2
<1> QED BY <1>3 DEF ToldUpTo

LEMMA ToldWithEpisode ==
  ASSUME OnlineTypes, DocInv, KeptInv, EpisodeSaved, NEW told \in 0..saved, ToldUpTo(told)
  PROVE  told \in 0..saved' /\ ToldUpTo(told)'
<1> DEFINE w == [what |-> "write", doc |-> SavedDoc]
           A == Append(worker, SavedWork)
<1>1. /\ told \in Nat /\ saved \in Nat /\ worker \in Seq(Work) /\ rollouts \in Seq(1..MaxRollouts)
      /\ saved = Len(rollouts) /\ told <= Len(rollouts)
  BY DEF OnlineTypes, DocInv
<1>2. /\ episode' = "none" /\ Len(kept) \in 1..MaxRollouts /\ saved' = saved + 1
      /\ rollouts' = Append(rollouts, Len(kept)) /\ rollouts' \in Seq(1..MaxRollouts)
      /\ Len(rollouts') = saved + 1 /\ rollouts'[saved + 1] = Len(kept)
      /\ \A m \in 1..saved : rollouts'[m] = rollouts[m]
      /\ SavedWork \in Work /\ w \in Work /\ w.what = "write" /\ worker' = Append(A, w)
  BY EpisodeSavedIs
<1>3. kept' = kept /\ wire' = wire
  BY DEF EpisodeSaved
<1>4. WorkInv(A, told, rollouts', saved + 1)
  <2>1. WorkInv(worker, told, rollouts, Len(rollouts))
    BY <1>1 DEF ToldUpTo
  <2>2. WorkInv(Append(worker, [what |-> "saved", id |-> Len(kept), n |-> Len(rollouts) + 1]), told,
                Append(rollouts, Len(kept)), Len(rollouts) + 1)
    BY <1>1, <1>2, <2>1, SavedJoins
  <2> QED BY <1>1, <1>2, <2>2 DEF SavedWork
<1>5. A \in Seq(Work)
  BY <1>1, <1>2, LineGrows
<1>6. WorkInv(worker', told, rollouts', saved')
  <2>1. saved + 1 \in Nat
    BY <1>1
  <2> HIDE DEF A, w
  <2>2. WorkInv(Append(A, w), told, rollouts', saved + 1)
    BY <1>1, <1>2, <1>4, <1>5, <2>1, WriteJoins
  <2> QED BY <1>2, <2>2
<1>7. WireInv(wire', told, rollouts')
  <2>1. WireInv(wire, told, rollouts)
    BY DEF ToldUpTo
  <2>2. ASSUME NEW i \in 1..Len(wire)
        PROVE  /\ wire[i].n = told - Len(wire) + i /\ wire[i].n \in 1..Len(rollouts')
               /\ rollouts'[wire[i].n] = wire[i].id
    <3>1. /\ wire[i].n = told - Len(wire) + i /\ wire[i].n \in 1..Len(rollouts)
          /\ rollouts[wire[i].n] = wire[i].id
      BY <2>1 DEF WireInv
    <3>2. wire[i].n \in 1..saved /\ wire[i].n \in 1..(saved + 1)
      BY <1>1, <3>1
    <3> QED BY <1>2, <3>1, <3>2
  <2> QED BY <1>3, <2>2 DEF WireInv
<1>8. NewestKept'
  <2>1. rollouts'[Len(rollouts')] = Len(kept')
    BY <1>1, <1>2, <1>3
  <2>2. Len(rollouts') # 0 /\ Len(<<>>) = 0
    BY <1>1, <1>2
  <2> QED BY <1>2, <2>1, <2>2 DEF NewestKept
<1> QED BY <1>1, <1>2, <1>6, <1>7, <1>8 DEF ToldUpTo

LEMMA ToldByWorker ==
  ASSUME OnlineTypes, DocInv, WorkerRuns, NEW told \in 0..saved, ToldUpTo(told)
  PROVE  \E t \in 0..saved' : ToldUpTo(t)'
<1>1. /\ told \in Nat /\ saved \in Nat /\ worker \in Seq(Work) /\ wire \in Seq(Announced)
      /\ saved = Len(rollouts) /\ told <= saved
  BY DEF OnlineTypes, DocInv
<1>2. /\ worker # <<>> /\ worker' = Tail(worker) /\ Head(worker).what \in {"write", "saved"}
      /\ Head(worker).what = "write" => wire' = wire
      /\ Head(worker).what = "saved" =>
           /\ Head(worker).n \in Nat /\ Head(worker).id \in 1..MaxRollouts
           /\ wire' = Append(wire, [id |-> Head(worker).id, n |-> Head(worker).n])
      /\ UNCHANGED <<kept, rollouts, saved, episode>>
  BY WorkerRunsIs
<1>3. WorkInv(worker, told, rollouts, saved) /\ WireInv(wire, told, rollouts)
  BY DEF ToldUpTo
<1>4. /\ Head(worker).what = "write" => WorkInv(Tail(worker), told, rollouts, saved)
      /\ Head(worker).what = "saved" =>
           /\ Head(worker).n = told + 1 /\ told + 1 <= saved /\ rollouts[told + 1] = Head(worker).id
           /\ WorkInv(Tail(worker), told + 1, rollouts, saved)
  BY <1>1, <1>2, <1>3, LineMoves
<1>5. NewestKept => NewestKept'
  BY <1>2 DEF NewestKept
<1>6. CASE Head(worker).what = "write"
  <2>1. ToldUpTo(told)'
    BY <1>2, <1>3, <1>4, <1>5, <1>6 DEF ToldUpTo
  <2> QED BY <1>2, <2>1
<1>7. CASE Head(worker).what = "saved"
  <2> DEFINE a == [id |-> Head(worker).id, n |-> told + 1]
  <2>1. a \in Announced /\ a.n = told + 1 /\ a.id = Head(worker).id /\ wire' = Append(wire, a)
    BY <1>1, <1>2, <1>4, <1>7 DEF Announced
  <2> HIDE DEF a
  <2>2. /\ Len(wire') = Len(wire) + 1 /\ Len(wire) \in Nat /\ wire'[Len(wire) + 1] = a
        /\ \A i \in 1..Len(wire) : wire'[i] = wire[i]
    BY <1>1, <2>1, AppendProperties
  <2>3. ASSUME NEW i \in 1..Len(wire')
        PROVE  /\ wire'[i].n = told + 1 - Len(wire') + i /\ wire'[i].n \in 1..Len(rollouts)
               /\ rollouts[wire'[i].n] = wire'[i].id
    <3>1. CASE i = Len(wire) + 1
      BY <1>1, <1>4, <1>7, <2>1, <2>2, <3>1
    <3>2. CASE i \in 1..Len(wire)
      <4>1. /\ wire[i].n = told - Len(wire) + i /\ wire[i].n \in 1..Len(rollouts)
            /\ rollouts[wire[i].n] = wire[i].id
        BY <1>3, <3>2 DEF WireInv
      <4>2. told - Len(wire) + i = told + 1 - Len(wire') + i
        BY <1>1, <2>2
      <4> QED BY <2>2, <3>2, <4>1, <4>2
    <3> QED BY <2>2, <3>1, <3>2
  <2>4. WireInv(wire', told + 1, rollouts')
    BY <1>2, <2>3 DEF WireInv
  <2>5. told < saved
    BY <1>1, <1>4, <1>7
  <2>6. NewestKept'
    BY <1>5, <2>5 DEF ToldUpTo
  <2>7. WorkInv(worker', told + 1, rollouts', saved')
    BY <1>2, <1>4, <1>7
  <2>8. ToldUpTo(told + 1)'
    BY <2>4, <2>6, <2>7 DEF ToldUpTo
  <2>9. told + 1 \in 0..saved'
    BY <1>1, <1>2, <2>5
  <2> QED BY <2>8, <2>9
<1> QED BY <1>2, <1>6, <1>7

LEMMA ToldStep ==
  ASSUME OnlineTypes, DocInv, KeptInv, LifeInv, ToldInv, [OnlineNext]_onlineVars
  PROVE  ToldInv'
<1>1. CASE Build
  <2>1. wire' = <<>> /\ worker' = <<>> /\ saved' \in Nat
    BY <1>1, BuildIs
  <2>2. PICK t \in Nat : t = saved'
    BY <2>1
  <2>3. Len(<<>>) = 0
    OBVIOUS
  <2>4. WireInv(wire', t, rollouts')
    BY <2>1, <2>3 DEF WireInv
  <2>5. WorkInv(worker', t, rollouts', saved')
    BY <2>1, <2>2, <2>3 DEF WorkInv
  <2>6. ToldUpTo(t)'
    BY <2>1, <2>2, <2>4, <2>5 DEF ToldUpTo
  <2> QED BY <2>2, <2>6 DEF ToldInv
<1>2. CASE Crash \/ Abandon
  BY <1>2 DEF Crash, Abandon, LifeInv, ToldInv
<1>3. CASE EpisodeSaved \/ WorkerRuns
  <2>1. run # "none"
    BY <1>3 DEF EpisodeSaved, WorkerRuns, LifeInv
  <2>2. PICK told \in 0..saved : ToldUpTo(told)
    BY <2>1 DEF ToldInv
  <2> QED BY <1>3, <2>2, ToldWithEpisode, ToldByWorker DEF ToldInv
<1>4. ASSUME ~ Build, ~ Crash, ~ Abandon, ~ EpisodeSaved, ~ WorkerRuns
      PROVE  ToldInv'
  <2>1. /\ UNCHANGED <<rollouts, saved, wire>>
        /\ worker' = worker \/ \E w \in Work : w.what = "write" /\ worker' = Append(worker, w)
    <3>1. CASE Close
      BY <3>1, DocumentTyped DEF Close, coordinatorVars
    <3>2. CASE EpisodeOnDisk
      BY <3>2 DEF EpisodeOnDisk, coordinatorVars, ioVars
    <3>3. CASE LineKept /\ UNCHANGED <<session, file, kept, rollouts, saved, wire>>
      BY <3>3, DocumentTyped DEF LineKept
    <3> QED BY <1>4, <3>1, <3>2, <3>3, OnlineSteps
  <2>2. NewestKept => NewestKept'
    <3>1. CASE Close
      BY <2>1, <3>1 DEF Close, NewestKept
    <3>2. CASE EpisodeOnDisk
      <4>1. /\ episode = "open" /\ episode' = "saved" /\ kept' = Append(kept, Len(kept) + 1)
        BY <3>2 DEF EpisodeOnDisk
      <4>2. kept \in Seq(1..MaxRollouts) /\ Len(kept) + 1 \in 1..MaxRollouts
        BY <4>1, OnlineAssumption DEF OnlineTypes, KeptInv
      <4>3. Len(kept') - 1 = Len(kept)
        BY <4>1, <4>2, AppendProperties
      <4> QED BY <2>1, <4>1, <4>3 DEF NewestKept
    <3>3. CASE kept' = kept /\ (episode' = episode \/ (episode # "saved" /\ episode' # "saved"))
      BY <2>1, <3>3 DEF NewestKept
    <3>4. ~ Close /\ ~ EpisodeOnDisk =>
            kept' = kept /\ (episode' = episode \/ (episode # "saved" /\ episode' # "saved"))
      BY <1>4, OnlineSteps
    <3> QED BY <3>1, <3>2, <3>3, <3>4
  <2>3. run' # "none" \/ orderly' => run # "none" \/ orderly
    <3>1. CASE Close
      BY <3>1 DEF Close
    <3>2. CASE EpisodeOnDisk
      BY <3>2 DEF EpisodeOnDisk
    <3>3. ~ Close /\ ~ EpisodeOnDisk => ((run' # "none" \/ orderly') => (run # "none" \/ orderly))
      BY <1>4, OnlineSteps
    <3> QED BY <3>1, <3>2, <3>3
  <2>4. ASSUME run' # "none" \/ orderly' PROVE \E t \in 0..saved' : ToldUpTo(t)'
    <3>1. PICK told \in 0..saved : ToldUpTo(told)
      BY <2>3, <2>4 DEF ToldInv
    <3>2. ToldUpTo(told)'
      BY <2>1, <2>2, <3>1, ToldKept
    <3> QED BY <2>1, <3>1, <3>2
  <2> QED BY <2>4 DEF ToldInv
<1> QED BY <1>1, <1>2, <1>3, <1>4

LEMMA OnlineStep == OnlineInv /\ [OnlineNext]_onlineVars => OnlineInv'
BY OnlineTypesStep, ViewStep, DocStep, LifeStep, KeptStep, ToldStep DEF OnlineInv

(* The rest of the coordinator's and the bus's types. *)
StatusTypes ==
  /\ createdFresh \in BOOLEAN /\ seenReady \in BOOLEAN /\ fresh \in BOOLEAN /\ orderly \in BOOLEAN
  /\ phase \in {"waiting_trainer", "rollout", "training", "error"}
  /\ view \in Status \cup {Nobody} /\ cache \in Status \cup {Nobody}
       /\ heard \in Status \cup {Nobody}
  /\ air \subseteq Status /\ sent \in 0..MaxStatuses

LEMMA StatusTypesStep ==
  ASSUME OnlineTypes, StatusTypes, [OnlineNext]_onlineVars
  PROVE  StatusTypes'
<1> USE DEF coordinatorVars, busVars, ioVars
<1>1. CASE UNCHANGED <<busVars, view>> /\ UNCHANGED <<createdFresh, seenReady, phase>>
           /\ fresh' \in BOOLEAN /\ orderly' \in BOOLEAN
  BY <1>1 DEF StatusTypes
<1>2. CASE Build
  BY <1>2 DEF Build, StatusTypes, StartPhase
<1>3. CASE Abandon \/ Closed \/ Silence \/ EpisodeNew \/ EpisodeDiscarded \/ EpisodeOnDisk
  BY <1>1, <1>3 DEF Abandon, Closed, Silence, EpisodeNew, EpisodeDiscarded, EpisodeOnDisk,
       StatusTypes
<1>4. CASE EpisodeSaved \/ WorkerRuns \/ UNCHANGED onlineVars
  BY <1>1, <1>4 DEF EpisodeSaved, WorkerRuns, onlineVars, StatusTypes
<1>5. CASE Start \/ Close \/ Crash
  <2>1. /\ UNCHANGED <<cache, sent, heard, view, createdFresh, seenReady, phase, fresh, orderly>>
        /\ air' = air \/ air' = {} \/ (cache # Nobody /\ air' = air \cup {cache})
    BY <1>5 DEF Start, Close, Crash
  <2> QED BY <2>1 DEF StatusTypes
<1>6. CASE TrainerSends
  <2>1. PICK m \in [at: {sent + 1}, of: {session, 0, Nobody}, state: States] :
          /\ cache' = m /\ (air' = air \/ air' = air \cup {m})
          /\ sent' = sent + 1 /\ sent < MaxStatuses
          /\ UNCHANGED <<view, heard, createdFresh, seenReady, phase, fresh, orderly>>
    BY <1>6 DEF TrainerSends
  <2>2. sent' \in 0..MaxStatuses /\ sent + 1 \in 1..MaxStatuses /\ 0 \in 0..MaxSessions
    BY <2>1, OnlineAssumption DEF StatusTypes
  <2>3. m \in Status
    BY <2>1, <2>2 DEF Status, OnlineTypes
  <2> QED BY <2>1, <2>2, <2>3 DEF StatusTypes
<1>7. CASE DeliverStatus
  <2>1. PICK m \in air : Deliver(m)
    BY <1>7 DEF DeliverStatus
  <2>2. m \in Status /\ air' \subseteq Status /\ heard' \in Status \cup {Nobody}
    BY <2>1 DEF StatusTypes, Deliver
  <2>3. UNCHANGED <<cache, sent, createdFresh, orderly>>
    BY <2>1 DEF Deliver
  <2>4. view' \in {view, m} /\ fresh' \in {fresh, TRUE}
    BY <2>1 DEF Deliver
  <2>5. seenReady' \in {seenReady, TRUE, FALSE}
    BY <2>1 DEF Deliver, StatusTypes
  <2>6. phase' \in {phase, "waiting_trainer", "rollout", "training", "error"}
    BY <2>1 DEF Deliver, PhaseFor
  <2> QED BY <2>2, <2>3, <2>4, <2>5, <2>6 DEF StatusTypes
<1> QED BY <1>2, <1>3, <1>4, <1>5, <1>6, <1>7 DEF OnlineNext

(* The coordinator never leaves its types, whenever the process dies and   *)
(* in whatever order statuses come.                                        *)
THEOREM OnlineTypesHold == OnlineSpec => []OnlineTypeOK
<1>1. OnlineInit => OnlineInv /\ StatusTypes
  <2>1. OnlineInit => StatusTypes
    <3> SUFFICES ASSUME OnlineInit PROVE StatusTypes
      OBVIOUS
    <3>1. createdFresh \in BOOLEAN /\ seenReady \in BOOLEAN /\ fresh \in BOOLEAN
         /\ orderly \in BOOLEAN
      BY DEF OnlineInit
    <3>2. phase \in {"waiting_trainer", "rollout", "training", "error"}
      BY DEF OnlineInit, StartPhase
    <3>3. /\ view \in Status \cup {Nobody} /\ cache \in Status \cup {Nobody}
          /\ heard \in Status \cup {Nobody} /\ air \subseteq Status
      BY DEF OnlineInit
    <3>4. sent \in 0..MaxStatuses
      BY OnlineAssumption DEF OnlineInit
    <3> QED BY <3>1, <3>2, <3>3, <3>4 DEF StatusTypes
  <2> QED BY <2>1, OnlineStart
<1>2. OnlineInv /\ StatusTypes /\ [OnlineNext]_onlineVars => (OnlineInv /\ StatusTypes)'
  <2>1. OnlineInv => OnlineTypes
    BY DEF OnlineInv
  <2> QED BY <2>1, OnlineStep, StatusTypesStep
<1>3. OnlineInv /\ StatusTypes => OnlineTypeOK
  <2> SUFFICES ASSUME OnlineTypes, StatusTypes PROVE OnlineTypeOK
    BY DEF OnlineInv
  <2>1. \A i \in DOMAIN worker : worker[i] \in Work
    BY DEF OnlineTypes
  <2>2. \A i \in DOMAIN wire : wire[i] \in [id: 1..MaxRollouts, n: Nat]
    <3>1. \A i \in DOMAIN wire : wire[i] \in Announced
      BY DEF OnlineTypes
    <3> QED BY <3>1 DEF Announced
  <2> QED BY <2>1, <2>2 DEF OnlineTypes, StatusTypes, OnlineTypeOK
<1> QED BY <1>1, <1>2, <1>3, PTL DEF OnlineSpec

(* While the newest status that was delivered is this session's trainer's, *)
(* the phase is what it says, in whatever order the cached status and the  *)
(* heartbeats came in.                                                     *)
THEOREM PhaseFollowsNewest == OnlineSpec => []PhaseIsNewest
<1>1. OnlineInv => PhaseIsNewest
  <2> SUFFICES ASSUME OnlineInv, run = "running", heard # Nobody, heard.of = session
               PROVE  phase = PhaseFor(heard.state, seenReady)
    BY DEF PhaseIsNewest
  <2>1. session \in Nat
    BY OnlineAssumption DEF OnlineInv, OnlineTypes
  <2>2. session # Nobody
    BY <2>1, OnlineAssumption
  <2> QED BY <2>2 DEF OnlineInv, ViewInv
<1> QED BY <1>1, OnlineStart, OnlineStep, PTL DEF OnlineSpec

(* A session closed in order leaves a file that names every rollout it     *)
(* kept, and a trainer that has been told of each with its number, however *)
(* often the name was resumed after a process that died.                   *)
THEOREM NothingLeftUntold == OnlineSpec => []NothingUntold
<1>1. OnlineInv => NothingUntold
  <2> SUFFICES ASSUME OnlineInv, run = "none", orderly, session > 0
               PROVE  /\ file # Nobody /\ file.saved = Len(file.rollouts)
                      /\ \A i \in DOMAIN wire : /\ wire[i].n = saved - Len(wire) + i
                                                /\ rollouts[wire[i].n] = wire[i].id
                      /\ file.rollouts = rollouts
                      /\ kept # <<>> /\ rollouts # <<>>
                           /\ wire # <<>> => Last(rollouts) = Last(kept)
    BY DEF NothingUntold
  <2>1. worker = <<>> /\ file = Now /\ episode = "none"
    BY DEF OnlineInv, LifeInv
  <2>2. /\ saved \in Nat /\ wire \in Seq(Announced) /\ rollouts \in Seq(1..MaxRollouts)
        /\ kept \in Seq(1..MaxRollouts) /\ saved = Len(rollouts) /\ Now \in Doc
    BY DocumentTyped DEF OnlineInv, OnlineTypes, DocInv
  <2>3. PICK told \in 0..saved : ToldUpTo(told)
    BY DEF OnlineInv, ToldInv
  <2>4. told = saved
    <3>1. ASSUME told # saved PROVE FALSE
      <4>1. told + 1 \in (told + 1)..saved
        BY <2>2, <2>3, <3>1
      <4>2. \E i \in 1..Len(worker) : worker[i].n = told + 1
        BY <2>3, <4>1 DEF ToldUpTo, WorkInv
      <4>3. Len(worker) = 0
        BY <2>1
      <4> QED BY <4>2, <4>3
    <3> QED BY <3>1
  <2>5. file # Nobody /\ file.saved = Len(file.rollouts) /\ file.rollouts = rollouts
    BY <2>1, <2>2, NoDocument DEF Now
  <2>6. DOMAIN wire = 1..Len(wire)
    BY <2>2
  <2>7. \A i \in DOMAIN wire : wire[i].n = saved - Len(wire) + i /\ rollouts[wire[i].n] = wire[i].id
    BY <2>3, <2>4, <2>6 DEF ToldUpTo, WireInv
  <2>8. ASSUME kept # <<>>, rollouts # <<>>, wire # <<>> PROVE Last(rollouts) = Last(kept)
    <3>1. rollouts[Len(rollouts)] = Len(kept)
      BY <2>1, <2>3, <2>8 DEF ToldUpTo, NewestKept
    <3>2. Len(kept) \in 1..Len(kept)
      BY <2>2, <2>8, EmptySeq
    <3>3. kept[Len(kept)] = Len(kept)
      BY <3>2 DEF OnlineInv, KeptInv
    <3> QED BY <3>1, <3>3 DEF Last
  <2> QED BY <2>5, <2>7, <2>8
<1> QED BY <1>1, OnlineStart, OnlineStep, PTL DEF OnlineSpec
=============================================================================
