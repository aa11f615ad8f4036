---------------------------- MODULE Bridge_proofs ----------------------------
(***************************************************************************)
(* Proofs about the external interface: the bridge keeps its types and     *)
(* implements EventFeed, the idle arm reader leaves the boxes alone while  *)
(* a session has them, and the reference node's status settles.            *)
(***************************************************************************)
EXTENDS DoraBridge, IdleArms, TrainerNode, SequenceTheorems, TLAPS

----------------------------------------------------------------------------
(* The idle arm reader. *)

(* The hand-over pauses the reader, and only the end of the session lets   *)
(* it go on: what holds of the connections follows from the pause.         *)
IdleInv == IdleTypeOK /\ (session # "none" => pausing /\ ~drivers)

LEMMA IdleStart == IdleInit => IdleInv
<1> SUFFICES ASSUME IdleInit PROVE IdleInv
  OBVIOUS
<1>1. reader = "off" /\ status = "off" /\ session = "none" /\ snap = NoSnap /\ out = NoSnap
  BY DEF IdleInit
<1>2. pausing = FALSE /\ connected = FALSE /\ drivers = FALSE /\ announced = FALSE
  BY DEF IdleInit
<1>3. taken \in 0 .. MaxSnaps /\ puts \in 0 .. MaxSnaps
  BY IdleAssumption DEF IdleInit
<1>4. IdleTypeOK
  BY <1>1, <1>2, <1>3 DEF IdleTypeOK
<1> QED BY <1>1, <1>4 DEF IdleInv

LEMMA IdleStep == IdleInv /\ [IdleNext]_idleVars => IdleInv'
<1> SUFFICES ASSUME IdleInv, [IdleNext]_idleVars PROVE IdleInv'
  OBVIOUS
<1> USE IdleAssumption DEF IdleInv, IdleTypeOK, MayConnect
<1>1. CASE reader_start \/ Look \/ Wake \/ reader_stop
  <2>1. CASE reader_start \/ reader_stop
    BY <2>1 DEF reader_start, reader_stop
  <2>2. CASE Look
    BY <2>2 DEF Look
  <2>3. CASE Wake
    BY <2>3 DEF Wake
  <2> QED BY <1>1, <2>1, <2>2, <2>3
<1>2. CASE Round
  <2>1. snap' \in Snaps \cup {NoSnap} /\ puts' \in 0 .. MaxSnaps
    BY <1>2 DEF Round, Snaps
  <2>2. connected' \in BOOLEAN /\ drivers' \in BOOLEAN /\ status' \in {"off", "running",
       "paused", "stale"}
    BY <1>2 DEF Round
  <2> QED BY <1>2, <2>1, <2>2 DEF Round
<1>3. CASE _try_connect
  BY <1>3 DEF _try_connect
<1>4. CASE before_bringup \/ after_session_start \/ TeardownBegins \/ after_teardown
  <2>1. CASE before_bringup
    BY <2>1 DEF before_bringup
  <2>2. CASE after_session_start
    BY <2>2 DEF after_session_start
  <2>3. CASE TeardownBegins
    BY <2>3 DEF TeardownBegins
  <2>4. CASE after_teardown
    BY <2>4 DEF after_teardown
  <2> QED BY <1>4, <2>1, <2>2, <2>3, <2>4
<1>5. CASE LoopPuts
  <2>1. snap' \in Snaps /\ puts' \in 0 .. MaxSnaps
    BY <1>5 DEF LoopPuts, Snaps
  <2> QED BY <1>5, <2>1 DEF LoopPuts
<1>6. CASE _on_snapshot
  <2>1. snap \in Snaps
    BY <1>6 DEF _on_snapshot
  <2>2. taken' \in 0 .. MaxSnaps /\ out' \in {NoSnap, "idle", "loop"}
    BY <1>6, <2>1 DEF _on_snapshot, Snaps
  <2> QED BY <1>6, <2>2 DEF _on_snapshot
<1>7. CASE UNCHANGED idleVars
  BY <1>7 DEF idleVars
<1> QED BY <1>1, <1>2, <1>3, <1>4, <1>5, <1>6, <1>7 DEF IdleNext

(* From the hand-over to the end of a session the reader holds no          *)
(* connection to a box, whenever its thread and the manager meet.          *)
THEOREM IdleLeavesBoxes == IdleSpec => []BoxesAreFree
<1>1. IdleInv => BoxesAreFree
  BY DEF IdleInv, BoxesAreFree
<1> QED BY <1>1, IdleStart, IdleStep, PTL DEF IdleSpec

----------------------------------------------------------------------------
(* The reference node's trainer. *)

(* A job names a session the node was told of; jobs are those of sessions. *)
NodeInv ==
  /\ ctx \in NodeSessions \cup {None} /\ job \in Running \cup {None}
  /\ jobs \in Seq([kind : JobKinds, session : NodeSessions])
  /\ shown \in [state : {"idle", "preparing", "ready", "training", "error"},
                session : NodeSessions \cup {None}]
  /\ StatusSettles

LEMMA NodeStart == TrainerInit => NodeInv
<1> SUFFICES ASSUME TrainerInit PROVE NodeInv
  OBVIOUS
<1> QED BY DEF TrainerInit, NodeInv, StatusSettles, Idle

LEMMA NodeStep == NodeInv /\ [TrainerNext]_trainerVars => NodeInv'
<1> SUFFICES ASSUME NodeInv, [TrainerNext]_trainerVars PROVE NodeInv'
  OBVIOUS
<1> DEFINE Jobs == [kind : JobKinds, session : NodeSessions]
           Shown == [state : {"idle", "preparing", "ready", "training", "error"},
                     session : NodeSessions \cup {None}]
<1>1. /\ ctx \in NodeSessions \cup {None} /\ job \in Running \cup {None} /\ jobs \in Seq(Jobs)
      /\ shown \in Shown /\ None \notin NodeSessions /\ None \notin Running
      /\ Idle \in Shown /\ StatusSettles
  BY NodeAssumption DEF NodeInv, Idle
<1>2. ASSUME NEW k \in JobKinds, NEW s \in NodeSessions, _submit(k, s)
      PROVE  jobs' \in Seq(Jobs) /\ jobs' # <<>>
  <2>1. Job(k, s) \in Jobs
    BY DEF Job
  <2> QED BY <1>1, <1>2, <2>1, AppendProperties DEF _submit
<1>3. CASE \E s \in NodeSessions : _on_session(s)
  <2>1. PICK s \in NodeSessions : _on_session(s)
    BY <1>3
  <2>2. jobs' \in Seq(Jobs) /\ jobs' # <<>>
    BY <1>2, <2>1 DEF _on_session, JobKinds
  <2>3. shown' \in Shown /\ shown'.session = s /\ ctx' = s /\ job' = job
    BY <2>1 DEF _on_session
  <2> QED BY <1>1, <2>2, <2>3 DEF NodeInv, StatusSettles
<1>4. CASE SessionEnds
  <2>1. ctx' = None /\ jobs' = jobs /\ job' = job
    BY <1>4 DEF SessionEnds
  <2>2. shown' = shown \/ shown' = Idle
    BY <1>4 DEF SessionEnds
  <2>3. jobs = <<>> /\ job = None => shown' = Idle
    BY <1>4 DEF SessionEnds, busy
  <2> QED BY <1>1, <2>1, <2>2, <2>3 DEF NodeInv, StatusSettles, Idle
<1>5. CASE \E e \in NodeEpisodes : EpisodeDiscarded(e)
  BY <1>1, <1>5 DEF EpisodeDiscarded, NodeInv, StatusSettles, Idle
<1>6. CASE TrainNow \/ \E e \in NodeEpisodes : EpisodeSaved(e)
  <2>1. ctx \in NodeSessions /\ UNCHANGED <<ctx, shown, job>>
    BY <1>1, <1>6 DEF TrainNow, EpisodeSaved
  <2>2. jobs' = jobs \/ _submit("train", ctx) \/ _submit("now", ctx)
    BY <1>6 DEF TrainNow, EpisodeSaved
  <2>3. jobs' \in Seq(Jobs)
    BY <1>1, <1>2, <2>1, <2>2 DEF JobKinds
  <2> QED BY <1>1, <2>1, <2>3 DEF NodeInv, StatusSettles
<1>7. CASE _run_worker
  <2>1. Head(jobs) \in Jobs /\ jobs' \in Seq(Jobs)
    BY <1>1, <1>7, HeadTailProperties DEF _run_worker
  <2>2. job' \in Running
    BY <1>7, <2>1 DEF _run_worker, Running
  <2>3. UNCHANGED <<ctx, shown>>
    BY <1>7 DEF _run_worker
  <2> QED BY <1>1, <2>1, <2>2, <2>3 DEF NodeInv, StatusSettles
<1>8. CASE SetsBusy
  <2>1. job' \in Running /\ UNCHANGED <<ctx, shown, jobs>>
    BY <1>1, <1>8 DEF SetsBusy, Running
  <2> QED BY <1>1, <2>1 DEF NodeInv, StatusSettles
<1>9. CASE Begin
  <2>1. job \in Running /\ UNCHANGED <<ctx, jobs>>
    BY <1>1, <1>9 DEF Begin
  <2>2. job.session \in NodeSessions
    BY <2>1 DEF Running
  <2>3. CASE _settle_after_job
    BY <1>1, <2>1, <2>3 DEF _settle_after_job, NodeInv, StatusSettles, Idle
  <2>4. CASE ~_settle_after_job
    <3>1. /\ _serving(job.session)
          /\ job' = [job EXCEPT !.begun = TRUE]
          /\ shown' = [shown EXCEPT !.state =
                         IF job.kind = "prepare" THEN "preparing" ELSE "training"]
      BY <1>9, <2>4 DEF Begin
    <3>2. job' \in Running
      BY <2>1, <3>1 DEF Running
    <3>3. shown' \in Shown /\ shown'.session = shown.session
      BY <1>1, <3>1
    <3>4. ctx # None
      BY <1>1, <2>2, <3>1 DEF _serving
    <3> QED BY <1>1, <2>1, <3>2, <3>3, <3>4 DEF NodeInv, StatusSettles
  <2> QED BY <2>3, <2>4
<1>10. CASE Finish
  <2>1. job \in Running /\ UNCHANGED <<ctx, jobs>> /\ job' = None
    BY <1>1, <1>10 DEF Finish, _settle_after_job
  <2>2. job.session \in NodeSessions
    BY <2>1 DEF Running
  <2>3. CASE _serving(job.session)
    <3>1. shown' \in Shown /\ shown'.session = shown.session /\ ctx # None
      BY <1>1, <1>10, <2>2, <2>3 DEF Finish, _serving
    <3> QED BY <1>1, <2>1, <3>1 DEF NodeInv, StatusSettles
  <2>4. CASE ~_serving(job.session)
    BY <1>1, <1>10, <2>1, <2>4 DEF Finish, _settle_after_job, NodeInv, StatusSettles, Idle
  <2> QED BY <2>3, <2>4
<1>11. CASE _fail
  <2>1. UNCHANGED <<ctx, jobs>> /\ job' = None
    BY <1>11 DEF _fail
  <2>2. shown' = IF ctx = None /\ jobs = <<>> THEN Idle ELSE [shown EXCEPT !.state = "error"]
    BY <1>11 DEF _fail
  <2>3. shown' \in Shown /\ (ctx # None => shown'.session = shown.session)
    BY <1>1, <2>2
  <2> QED BY <1>1, <2>1, <2>2, <2>3 DEF NodeInv, StatusSettles
<1>12. CASE UNCHANGED trainerVars
  BY <1>1, <1>12 DEF trainerVars, NodeInv, StatusSettles, Idle
<1> QED BY <1>3, <1>4, <1>5, <1>6, <1>7, <1>8, <1>9, <1>10, <1>11, <1>12 DEF TrainerNext

(* Once nobody is served and nothing is left to do the node says idle, and *)
(* what it says while it serves is about the session it serves.            *)
THEOREM NodeStatusSettles == TrainerSpec => []StatusSettles
<1>1. NodeInv => StatusSettles
  BY DEF NodeInv
<1> QED BY <1>1, NodeStart, NodeStep, PTL DEF TrainerSpec

----------------------------------------------------------------------------
(* The bridge. *)

(* Of the payloads on their way those of a topic are in the order they     *)
(* were put down, newer than what was heard and not newer than what was    *)
(* said: first the drained ones, then the slot or the queue.               *)
Above(t, n) == Feed!Newest(t) < n /\ n <= said[t]

QueueInv(queue, before, low, high) ==
  /\ \A i \in 1..Len(queue) : queue[i].topic = "events" /\ low < queue[i].n /\ queue[i].n <= high
  /\ \A i \in 1..Len(queue) : \A j \in 1..(i - 1) : queue[j].n < queue[i].n
  /\ \A i \in 1..Len(queue) : \A j \in 1..Len(before) :
       before[j].topic = "events" => before[j].n < queue[i].n

FeedInv ==
  /\ \A t \in Topics : Feed!Newest(t) <= said[t]
  /\ \A t \in Topics : \A i \in 1..Len(pending) : pending[i].topic = t => Above(t, pending[i].n)
  /\ \A i \in 1..Len(pending) : \A j \in 1..(i - 1) :
       pending[j].topic = pending[i].topic => pending[j].n < pending[i].n
  /\ QueueInv(fifo, pending, Feed!Newest("events"), said["events"])
  /\ slot # 0 => Above("state", slot)
  /\ slot # 0 => \A j \in 1..Len(pending) : pending[j].topic = "state" => pending[j].n < slot

(* A producer that has looked still has room for its payload; a join in    *)
(* progress knows its machine.                                             *)
SideInv ==
  /\ \A t \in passed : said[t] < MaxSaid
  /\ pc \in {"restop", "restart", "barrier", "join"} => goal \in Goals

BridgeInv == BridgeTypeOK /\ SideInv /\ FeedInv

LEMMA BridgeStart == BridgeInit => BridgeInv
<1> SUFFICES ASSUME BridgeInit PROVE BridgeInv
  OBVIOUS
<1> USE BridgeAssumption DEF BridgeInit
<1>1. PlaneTypeOK
  BY DEF PlaneInit, PlaneTypeOK, NoFlow
<1>2. /\ slot \in 0 .. MaxSaid /\ fifo \in Seq(Entries) /\ Len(fifo) <= EVENT_FIFO
      /\ pending \in Seq(Entries) /\ passed \subseteq Topics
  OBVIOUS
<1>3. /\ rendered \subseteq Machines /\ lost \subseteq rendered
      /\ joins \subseteq Machines /\ goal \in Goals \cup {NoGoal}
  OBVIOUS
<1>4. /\ said \in [Topics -> 0 .. MaxSaid] /\ heard \in [Topics -> Seq(1 .. MaxSaid)]
      /\ faults \in 0 .. MaxFaults /\ asked \in 0 .. MaxJoins
  OBVIOUS
<1>5. /\ state = "unavailable" /\ pc = "plane" /\ node \in BOOLEAN /\ lock \in BOOLEAN
      /\ others \in BOOLEAN /\ live \in BOOLEAN
  OBVIOUS
<1>6. BridgeTypeOK
  BY <1>1, <1>2, <1>3, <1>4, <1>5 DEF BridgeTypeOK
<1>7. SideInv /\ FeedInv
  BY DEF SideInv, FeedInv, QueueInv, Feed!Newest
<1> QED BY <1>6, <1>7 DEF BridgeInv

(* What the steps do to the payloads on their way: three kinds of step     *)
(* move them, the others leave them alone or drop them all.                *)
Still == UNCHANGED <<slot, fifo, pending>>
Dropped == slot' = 0 /\ fifo' = <<>> /\ pending' = <<>>

LEMMA QueueSteps ==
  ASSUME [BridgeNext]_bridgeVars
  PROVE  \/ (\E t \in Topics : Put(t)) \/ _drain_outbound \/ _send
         \/ (Still \/ Dropped) /\ UNCHANGED <<said, heard>>
<1> USE DEF Still, Dropped, bridgeVars, busVars, envVars, planeVars, _detach, _detach_node
<1>1. CASE EnsurePlane \/ EnsureFlow \/ _acquire_lock \/ Unblocks \/ _run
  BY <1>1 DEF EnsurePlane, EnsureFlow, _acquire_lock, Unblocks, _run
<1>2. CASE _attach
  BY <1>2 DEF _attach
<1>3. CASE _drain_inbound \/ _apply_rescan \/ _join
  BY <1>3 DEF _drain_inbound, _apply_rescan, _join
<1>4. CASE RestartStops \/ _restart_dataflow \/ BarrierProbe \/ JoinExpires
  BY <1>4 DEF RestartStops, _restart_dataflow, BarrierProbe, JoinExpires
<1>5. CASE \/ (\E t \in Topics : try_publish(t)) \/ (\E m \in Machines : request_join(m))
           \/ StopAsked \/ stop
  BY <1>5 DEF try_publish, request_join, StopAsked, stop
<1>6. CASE World \/ OthersLeave \/ UNCHANGED bridgeVars
  BY <1>6 DEF World, OthersLeave
<1> QED BY <1>1, <1>2, <1>3, <1>4, <1>5, <1>6 DEF BridgeNext, Bus, Others

(* The types of what is on its way. *)
QueueTypes ==
  /\ slot \in 0 .. MaxSaid /\ fifo \in Seq(Entries) /\ Len(fifo) <= EVENT_FIFO
  /\ pending \in Seq(Entries)
  /\ said \in [Topics -> 0 .. MaxSaid] /\ heard \in [Topics -> Seq(1 .. MaxSaid)]

(* Appending, one topic's newest is the payload appended. *)
LEMMA Heard ==
  ASSUME QueueTypes, NEW t \in Topics, NEW n \in 1 .. MaxSaid,
         heard' = [heard EXCEPT ![t] = Append(@, n)]
  PROVE  /\ heard' \in [Topics -> Seq(1 .. MaxSaid)]
         /\ Feed!Newest(t)' = n
         /\ \A u \in Topics \ {t} : Feed!Newest(u)' = Feed!Newest(u)
<1>1. heard[t] \in Seq(1 .. MaxSaid)
  BY DEF QueueTypes
<1>2. /\ Append(heard[t], n) \in Seq(1 .. MaxSaid) /\ Append(heard[t], n) # <<>>
      /\ Len(Append(heard[t], n)) = Len(heard[t]) + 1
      /\ Append(heard[t], n)[Len(heard[t]) + 1] = n
  BY <1>1, AppendProperties
<1>3. heard'[t] = Append(heard[t], n) /\ \A u \in Topics \ {t} : heard'[u] = heard[u]
  BY DEF QueueTypes
<1>4. heard' \in [Topics -> Seq(1 .. MaxSaid)]
  BY <1>2 DEF QueueTypes
<1>5. Feed!Newest(t)' = n
  BY <1>2, <1>3 DEF Feed!Newest, Feed!Last
<1>6. ASSUME NEW u \in Topics \ {t} PROVE Feed!Newest(u)' = Feed!Newest(u)
  <2>1. heard'[u] = heard[u]
    BY <1>3
  <2> QED BY ONLY <2>1 DEF Feed!Newest
<1> QED BY <1>4, <1>5, <1>6

(* What a queue holds. *)
LEMMA EntryTyped ==
  ASSUME NEW q \in Seq(Entries), NEW i \in 1..Len(q)
  PROVE  q[i] \in Entries /\ q[i].topic \in Topics /\ q[i].n \in Nat /\ q[i].n > 0
<1>1. q[i] \in Entries
  BY ElementOfSeq
<1> QED BY <1>1, BridgeAssumption DEF Entries

(* The queue forgets its oldest. *)
LEMMA TailOfQueue ==
  ASSUME NEW q \in Seq(Entries), q # <<>>, NEW b, NEW lo, NEW hi, QueueInv(q, b, lo, hi)
  PROVE  Tail(q) \in Seq(Entries) /\ Len(Tail(q)) = Len(q) - 1 /\ QueueInv(Tail(q), b, lo, hi)
<1>1. /\ Tail(q) \in Seq(Entries) /\ Len(Tail(q)) = Len(q) - 1 /\ Len(q) \in Nat
      /\ \A i \in 1..Len(Tail(q)) : Tail(q)[i] = q[i + 1]
  BY HeadTailProperties
<1>2. \A i \in 1..Len(Tail(q)) : i + 1 \in 1..Len(q) /\ \A j \in 1..(i - 1) : j + 1 \in 1..i
  BY <1>1
<1> QED BY <1>1, <1>2 DEF QueueInv

(* It takes a payload newer than all there are, and stays within bounds.   *)
LEMMA QueueTakes ==
  ASSUME NEW q \in Seq(Entries), Len(q) <= EVENT_FIFO, NEW b \in Seq(Entries),
         NEW lo \in Nat, NEW hi \in Nat, QueueInv(q, b, lo, hi), lo <= hi, hi + 1 <= MaxSaid,
         \A j \in 1..Len(b) : b[j].topic = "events" => b[j].n <= hi
  PROVE  LET new == Bounded(Append(q, [topic |-> "events", n |-> hi + 1]))
         IN  new \in Seq(Entries) /\ Len(new) <= EVENT_FIFO /\ QueueInv(new, b, lo, hi + 1)
<1> DEFINE e == [topic |-> "events", n |-> hi + 1]
           G == Append(q, e)
<1>1. e \in Entries
  BY BridgeAssumption DEF Entries, Topics
<1>2. /\ G \in Seq(Entries) /\ G # <<>> /\ Len(G) = Len(q) + 1 /\ Len(q) \in Nat
      /\ \A i \in 1..Len(q) : G[i] = q[i]
      /\ G[Len(q) + 1] = e
  BY <1>1, AppendProperties
<1>3. \A i \in 1..Len(q) : q[i].n \in Nat /\ q[i].n <= hi
  BY EntryTyped DEF QueueInv
<1>4. \A j \in 1..Len(b) : b[j].n \in Nat
  BY EntryTyped
<1> HIDE DEF G
<1>5. QueueInv(G, b, lo, hi + 1)
  <2>1. ASSUME NEW i \in 1..Len(G)
        PROVE  /\ G[i].topic = "events" /\ lo < G[i].n /\ G[i].n <= hi + 1
               /\ \A j \in 1..(i - 1) : G[j].n < G[i].n
               /\ \A j \in 1..Len(b) : b[j].topic = "events" => b[j].n < G[i].n
    <3>1. CASE i \in 1..Len(q)
      <4>1. G[i] = q[i] /\ \A j \in 1..(i - 1) : j \in 1..Len(q) /\ G[j] = q[j]
        BY <1>2, <3>1
      <4>2. q[i].topic = "events" /\ lo < q[i].n /\ q[i].n <= hi /\ q[i].n \in Nat
        BY <1>3, <3>1 DEF QueueInv
      <4>3. \A j \in 1..(i - 1) : q[j].n < q[i].n
        BY <3>1 DEF QueueInv
      <4>4. \A j \in 1..Len(b) : b[j].topic = "events" => b[j].n < q[i].n
        BY <3>1 DEF QueueInv
      <4>5. G[i].topic = "events" /\ lo < G[i].n /\ G[i].n <= hi + 1
        BY <4>1, <4>2
      <4> QED BY <4>1, <4>3, <4>4, <4>5
    <3>2. CASE i = Len(q) + 1
      <4>1. G[i] = e
        BY <1>2, <3>2
      <4>2. G[i].topic = "events" /\ G[i].n = hi + 1
        BY <4>1
      <4>3. \A j \in 1..(i - 1) : G[j].n \in Nat /\ G[j].n <= hi
        BY <1>2, <1>3, <3>2
      <4>4. \A j \in 1..Len(b) : b[j].topic = "events" => b[j].n < hi + 1
        BY <1>4
      <4>5. \A j \in 1..(i - 1) : G[j].n < hi + 1
        BY <4>3
      <4>6. lo < hi + 1 /\ hi + 1 <= hi + 1
        OBVIOUS
      <4> QED BY <4>2, <4>4, <4>5, <4>6
    <3> QED BY <1>2, <3>1, <3>2
  <2> QED BY <2>1 DEF QueueInv
<1>6. Bounded(G) = IF Len(G) > EVENT_FIFO THEN Tail(G) ELSE G
  BY DEF Bounded
<1>7. Bounded(G) \in Seq(Entries) /\ Len(Bounded(G)) <= EVENT_FIFO /\ QueueInv(Bounded(G), b, lo,
     hi + 1)
  BY <1>2, <1>5, <1>6, TailOfQueue, BridgeAssumption
<1> QED BY <1>7 DEF G

(* What was heard last is a number. *)
LEMMA NewestTyped == ASSUME QueueTypes, NEW u \in Topics PROVE Feed!Newest(u) \in Nat
<1>1. heard[u] \in Seq(1 .. MaxSaid)
  BY DEF QueueTypes
<1>2. CASE heard[u] # <<>>
  <2>1. Len(heard[u]) \in 1..Len(heard[u])
    BY <1>1, <1>2, EmptySeq
  <2>2. heard[u][Len(heard[u])] \in 1 .. MaxSaid
    BY <1>1, <2>1, ElementOfSeq
  <2>3. Feed!Newest(u) = heard[u][Len(heard[u])]
    BY <1>2 DEF Feed!Newest, Feed!Last
  <2> QED BY <2>2, <2>3, BridgeAssumption
<1>3. CASE heard[u] = <<>>
  BY <1>3 DEF Feed!Newest
<1> QED BY <1>2, <1>3

LEMMA PutStep ==
  ASSUME QueueTypes, SideInv, FeedInv, NEW t \in Topics, Put(t)
  PROVE  /\ QueueTypes' /\ FeedInv' /\ UNCHANGED heard
         /\ said' = [said EXCEPT ![t] = @ + 1]
<1> DEFINE n == said[t] + 1
           e == [topic |-> t, n |-> n]
<1>1. n \in 1 .. MaxSaid /\ said[t] \in Nat
  BY BridgeAssumption DEF QueueTypes, SideInv, Put
<1>2. /\ said' = [said EXCEPT ![t] = n] /\ UNCHANGED <<heard, pending>>
      /\ \/ t = "state" /\ slot' = n /\ UNCHANGED fifo
         \/ t = "events" /\ UNCHANGED slot /\ fifo' = Bounded(Append(fifo, e))
  BY DEF Put, busVars, planeVars
<1>3. /\ said' \in [Topics -> 0 .. MaxSaid] /\ said'[t] = n
      /\ \A u \in Topics : said[u] \in Nat /\ said[u] <= said'[u] /\ (u # t => said'[u] = said[u])
  BY <1>1, <1>2, BridgeAssumption DEF QueueTypes
<1>4. \A u \in Topics : Feed!Newest(u)' = Feed!Newest(u) /\ Feed!Newest(u) \in Nat
  <2>1. \A u \in Topics : Feed!Newest(u)' = Feed!Newest(u)
    BY <1>2 DEF Feed!Newest
  <2> QED BY <2>1, NewestTyped
<1>5. \A u \in Topics : Feed!Newest(u) <= said[u]
  BY DEF FeedInv
<1>6. ASSUME NEW i \in 1..Len(pending)
      PROVE  /\ \A u \in Topics : pending[i].topic = u => Above(u, pending[i].n)'
             /\ pending[i].n <= said[pending[i].topic] /\ pending[i].n \in Nat
  <2>1. pending[i].topic \in Topics /\ pending[i].n \in Nat
    BY EntryTyped DEF QueueTypes
  <2>2. ASSUME NEW u \in Topics, pending[i].topic = u
        PROVE  Above(u, pending[i].n)' /\ pending[i].n <= said[u]
    <3>1. Feed!Newest(u) < pending[i].n /\ pending[i].n <= said[u]
      BY <2>2 DEF FeedInv, Above
    <3> QED BY <1>2, <1>3, <1>4, <2>1, <3>1 DEF Above
  <2> QED BY <2>1, <2>2
<1>7. CASE t = "state"
  <2>1. slot' = n /\ UNCHANGED <<fifo, pending>> /\ said'["events"] = said["events"]
    BY <1>2, <1>3, <1>7 DEF Topics
  <2>2. QueueTypes'
    BY <1>1, <1>2, <1>3, <2>1 DEF QueueTypes
  <2>3. QueueInv(fifo, pending, Feed!Newest("events"), said["events"])'
    <3>1. Feed!Newest("events")' = Feed!Newest("events")
      BY <1>4 DEF Topics
    <3> QED BY <2>1, <3>1 DEF FeedInv
  <2>4. Above("state", slot)'
    BY <1>1, <1>3, <1>4, <1>5, <1>7, <2>1 DEF Above
  <2>5. \A i \in 1..Len(pending) : pending[i].topic = "state" => pending[i].n < n
    BY <1>1, <1>6, <1>7
  <2>6. FeedInv'
    <3>1. \A u \in Topics : Feed!Newest(u)' <= said'[u]
      BY <1>3, <1>4, <1>5
    <3>2. \A i \in 1..Len(pending) : \A j \in 1..(i - 1) :
            pending[j].topic = pending[i].topic => pending[j].n < pending[i].n
      BY DEF FeedInv
    <3> QED BY <1>6, <2>1, <2>3, <2>4, <2>5, <3>1, <3>2 DEF FeedInv
  <2> QED BY <1>2, <2>2, <2>6
<1>8. CASE t = "events"
  <2>1. UNCHANGED <<slot, pending>> /\ fifo' = Bounded(Append(fifo, [topic |-> "events",
       n |-> said["events"] + 1]))
    BY <1>2, <1>8
  <2>2. \A j \in 1..Len(pending) : pending[j].topic = "events" => pending[j].n <= said["events"]
    BY <1>6
  <2>3. /\ fifo' \in Seq(Entries) /\ Len(fifo') <= EVENT_FIFO
        /\ QueueInv(fifo', pending, Feed!Newest("events"), said["events"] + 1)
    <3>1. /\ fifo \in Seq(Entries) /\ Len(fifo) <= EVENT_FIFO /\ pending \in Seq(Entries)
          /\ Feed!Newest("events") \in Nat /\ said["events"] \in Nat
          /\ Feed!Newest("events") <= said["events"] /\ said["events"] + 1 <= MaxSaid
          /\ QueueInv(fifo, pending, Feed!Newest("events"), said["events"])
      BY <1>1, <1>4, <1>5, <1>8, BridgeAssumption DEF QueueTypes, FeedInv
    <3> QED BY ONLY <2>1, <2>2, <3>1, QueueTakes
  <2>4. QueueTypes'
    BY <1>2, <1>3, <2>1, <2>3 DEF QueueTypes
  <2>5. QueueInv(fifo, pending, Feed!Newest("events"), said["events"])'
    <3>1. Feed!Newest("events")' = Feed!Newest("events") /\ said'["events"] = said["events"] + 1
      BY <1>3, <1>4, <1>8
    <3> QED BY <2>1, <2>3, <3>1
  <2>6. slot # 0 => Above("state", slot)'
    BY <1>3, <1>4, <1>8, <2>1 DEF FeedInv, Above, Topics
  <2> QED BY <1>2, <1>3, <1>4, <1>5, <1>6, <2>1, <2>4, <2>5, <2>6 DEF FeedInv
<1> QED BY <1>2, <1>7, <1>8 DEF Topics

LEMMA DrainStep ==
  ASSUME QueueTypes, FeedInv, _drain_outbound
  PROVE  QueueTypes' /\ FeedInv' /\ UNCHANGED <<said, heard>>
<1> DEFINE s == IF slot = 0 THEN <<>> ELSE <<[topic |-> "state", n |-> slot]>>
<1>1. /\ pending' = s \o fifo /\ slot' = 0 /\ fifo' = <<>>
      /\ UNCHANGED <<said, heard>>
  BY DEF _drain_outbound, EmptiesQueues, envVars
<1>2. s \in Seq(Entries) /\ fifo \in Seq(Entries) /\ Len(s) \in {0, 1} /\ Len(fifo) \in Nat
  <2>1. CASE slot = 0
    BY <2>1 DEF QueueTypes
  <2>2. CASE slot # 0
    <3>1. [topic |-> "state", n |-> slot] \in Entries
      BY <2>2, BridgeAssumption DEF QueueTypes, Entries, Topics
    <3> QED BY <2>2, <3>1 DEF QueueTypes
  <2> QED BY <2>1, <2>2
<1>3. \A i \in 1..Len(s) : /\ s[i] = [topic |-> "state", n |-> slot] /\ i = 1
                           /\ Above("state", slot)
  BY DEF FeedInv
<1> HIDE DEF s
<1>4. /\ s \o fifo \in Seq(Entries) /\ Len(s \o fifo) = Len(s) + Len(fifo)
      /\ \A i \in 1 .. Len(s) + Len(fifo) :
           (s \o fifo)[i] = IF i <= Len(s) THEN s[i] ELSE fifo[i - Len(s)]
  BY <1>2, ConcatProperties
<1>5. \A u \in Topics : Feed!Newest(u)' = Feed!Newest(u)
  BY <1>1 DEF Feed!Newest
<1>6. ASSUME NEW i \in 1..Len(pending')
      PROVE  /\ pending'[i].topic \in Topics
             /\ Feed!Newest(pending'[i].topic) < pending'[i].n
             /\ pending'[i].n <= said[pending'[i].topic]
             /\ \A j \in 1..(i - 1) :
                  pending'[j].topic = pending'[i].topic => pending'[j].n < pending'[i].n
  <2>1. CASE i <= Len(s)
    <3>1. i \in 1..Len(s) /\ pending'[i] = s[i]
      BY <1>1, <1>2, <1>4, <2>1
    <3>2. pending'[i].topic = "state" /\ pending'[i].n = slot /\ i = 1 /\ Above("state", slot)
      BY <1>3, <3>1
    <3>3. Feed!Newest("state") < slot /\ slot <= said["state"]
      BY <3>2 DEF Above
    <3> QED BY <3>2, <3>3 DEF Topics
  <2>2. CASE ~(i <= Len(s))
    <3>1. i - Len(s) \in 1..Len(fifo) /\ pending'[i] = fifo[i - Len(s)]
      BY <1>1, <1>2, <1>4, <2>2
    <3>2. /\ pending'[i].topic = "events" /\ Feed!Newest("events") < pending'[i].n
          /\ pending'[i].n <= said["events"]
      BY <3>1 DEF FeedInv, QueueInv
    <3>3. ASSUME NEW j \in 1..(i - 1),
         pending'[j].topic = "events" PROVE pending'[j].n < pending'[i].n
      <4>1. CASE j <= Len(s)
        <5>1. j \in 1..Len(s) /\ pending'[j] = s[j]
          BY <1>1, <1>2, <1>4, <4>1
        <5> QED BY <1>3, <3>3, <5>1
      <4>2. CASE ~(j <= Len(s))
        <5>1. j - Len(s) \in 1..(i - Len(s) - 1) /\ pending'[j] = fifo[j - Len(s)]
          BY <1>1, <1>2, <1>4, <4>2
        <5> QED BY <3>1, <5>1 DEF FeedInv, QueueInv
      <4> QED BY <4>1, <4>2
    <3> QED BY <3>2, <3>3 DEF Topics
  <2> QED BY <2>1, <2>2
<1>7. QueueTypes'
  BY <1>1, <1>4, BridgeAssumption DEF QueueTypes
<1>8. FeedInv'
  <2>1. \A u \in Topics : Feed!Newest(u)' <= said'[u]
    BY <1>1, <1>5 DEF FeedInv
  <2>2. QueueInv(fifo, pending, Feed!Newest("events"), said["events"])'
    BY <1>1 DEF QueueInv
  <2>3. ASSUME NEW u \in Topics, NEW i \in 1..Len(pending'), pending'[i].topic = u
        PROVE  Above(u, pending[i].n)'
    <3>1. Feed!Newest(u) < pending'[i].n /\ pending'[i].n <= said[u]
      BY <1>6, <2>3
    <3> QED BY <1>1, <1>5, <3>1 DEF Above
  <2>4. \A i \in 1..Len(pending') : \A j \in 1..(i - 1) :
          pending'[j].topic = pending'[i].topic => pending'[j].n < pending'[i].n
    BY <1>6
  <2> QED BY <1>1, <2>1, <2>2, <2>3, <2>4 DEF FeedInv
<1> QED BY <1>1, <1>7, <1>8

LEMMA SendStep ==
  ASSUME QueueTypes, FeedInv, _send
  PROVE  /\ QueueTypes' /\ FeedInv' /\ UNCHANGED said
         /\ UNCHANGED heard \/ \E t \in Topics : Feed!Hear(t)
<1>1. UNCHANGED said
  BY DEF _send
<1>2. CASE UNCHANGED <<heard, slot, fifo, pending>>
  BY <1>1, <1>2 DEF QueueTypes, FeedInv, QueueInv, Above, Feed!Newest
<1>3. CASE UNCHANGED heard /\ Dropped
  <2>1. QueueTypes'
    BY <1>1, <1>3, BridgeAssumption DEF QueueTypes, Dropped
  <2>2. \A u \in Topics : Feed!Newest(u)' <= said'[u]
    BY <1>1, <1>3 DEF FeedInv, Feed!Newest
  <2>3. FeedInv'
    BY <1>3, <2>2 DEF FeedInv, QueueInv, Dropped
  <2> QED BY <1>1, <1>3, <2>1, <2>3
<1>4. CASE /\ pending # <<>>
           /\ heard' = [heard EXCEPT ![Head(pending).topic] = Append(@, Head(pending).n)]
           /\ pending' = Tail(pending) /\ UNCHANGED <<slot, fifo>>
  <2>1. /\ Tail(pending) \in Seq(Entries) /\ Len(Tail(pending)) = Len(pending) - 1
        /\ \A i \in 1 .. Len(Tail(pending)) : Tail(pending)[i] = pending[i + 1]
        /\ Len(pending) \in Nat \ {0} /\ Head(pending) = pending[1] /\ Head(pending) \in Entries
    BY <1>4, HeadTailProperties, EmptySeq DEF QueueTypes
  <2>2. PICK t0 \in Topics, n0 \in 1 .. MaxSaid : t0 = Head(pending).topic /\ n0 = Head(pending).n
    BY <2>1 DEF Entries
  <2>3. /\ 1 \in 1..Len(pending) /\ t0 = pending[1].topic /\ n0 = pending[1].n /\ n0 \in Nat
        /\ Feed!Newest(t0) < n0 /\ n0 <= said[t0]
    BY <2>1, <2>2, BridgeAssumption DEF FeedInv, Above
  <2>4. /\ heard' \in [Topics -> Seq(1 .. MaxSaid)] /\ Feed!Newest(t0)' = n0
        /\ \A u \in Topics \ {t0} : Feed!Newest(u)' = Feed!Newest(u)
    <3>1. heard' = [heard EXCEPT ![t0] = Append(@, n0)]
      BY <1>4, <2>2
    <3> QED BY <3>1, Heard
  <2>5. QueueTypes'
    BY <1>1, <1>4, <2>1, <2>4 DEF QueueTypes
  <2>6. Feed!Hear(t0)
    <3>1. n0 \in Feed!Newest(t0) + 1 .. said[t0]
      BY <2>2, <2>3, NewestTyped DEF QueueTypes
    <3>2. heard' = [heard EXCEPT ![t0] = Append(heard[t0], n0)]
      BY <1>4, <2>2
    <3> QED BY <1>1, <3>1, <3>2 DEF Feed!Hear
  <2>7. ASSUME NEW i \in 1..Len(pending')
        PROVE  /\ i + 1 \in 1..Len(pending) /\ pending'[i] = pending[i + 1]
               /\ pending'[i].n \in Nat /\ pending'[i].topic \in Topics
               /\ pending'[i].topic = t0 => n0 < pending'[i].n
    <3>1. i + 1 \in 1..Len(pending) /\ pending'[i] = pending[i + 1] /\ 1 \in 1..(i + 1 - 1)
      BY <1>4, <2>1
    <3> QED BY <2>3, <3>1, EntryTyped DEF QueueTypes, FeedInv
  <2>8. ASSUME NEW u \in Topics
        PROVE  /\ Feed!Newest(u)' <= said'[u]
               /\ \A i \in 1..Len(pending') : pending'[i].topic = u => Above(u, pending[i].n)'
    <3>1. CASE u = t0
      <4>1. \A i \in 1..Len(pending') : pending'[i].topic = u => pending'[i].n <= said[u]
        BY <2>7 DEF FeedInv, Above
      <4>2. Feed!Newest(u)' = n0 /\ said' = said
        BY <1>1, <2>4, <3>1
      <4>3. Feed!Newest(u)' <= said'[u]
        BY <2>3, <3>1, <4>2
      <4>4. ASSUME NEW i \in 1..Len(pending'), pending'[i].topic = u PROVE Above(u, pending[i].n)'
        <5>1. n0 < pending'[i].n /\ pending'[i].n <= said[u]
          BY <2>7, <3>1, <4>1, <4>4
        <5> QED BY <4>2, <5>1 DEF Above
      <4> QED BY <4>3, <4>4
    <3>2. CASE u # t0
      BY <1>1, <2>4, <2>7, <3>2 DEF FeedInv, Above
    <3> QED BY <3>1, <3>2
  <2>9. \A i \in 1..Len(pending') : \A j \in 1..(i - 1) :
          pending'[j].topic = pending'[i].topic => pending'[j].n < pending'[i].n
    <3>1. ASSUME NEW i \in 1..Len(pending'), NEW j \in 1..(i - 1),
                 pending'[j].topic = pending'[i].topic
          PROVE  pending'[j].n < pending'[i].n
      <4>1. j \in 1..Len(pending') /\ j + 1 \in 1..(i + 1 - 1)
        BY <1>4, <2>1
      <4>2. i + 1 \in 1..Len(pending) /\ pending'[i] = pending[i + 1]
           /\ pending'[j] = pending[j + 1]
        BY <2>7, <4>1
      <4>3. \A k \in 1..Len(pending) : \A l \in 1..(k - 1) :
              pending[l].topic = pending[k].topic => pending[l].n < pending[k].n
        BY DEF FeedInv
      <4> QED BY <3>1, <4>1, <4>2, <4>3
    <3> QED BY <3>1
  <2>10. QueueInv(fifo, pending, Feed!Newest("events"), said["events"])'
    <3>1. \A i \in 1..Len(fifo) :
            /\ Feed!Newest("events") < fifo[i].n /\ fifo[i].n <= said["events"]
            /\ fifo[i].topic = "events" /\ (t0 = "events" => n0 < fifo[i].n)
      BY <2>3 DEF FeedInv, QueueInv
    <3>2. \A i \in 1..Len(fifo) : Feed!Newest("events")' < fifo[i].n
      <4>1. CASE t0 = "events"
        BY <2>4, <3>1, <4>1
      <4>2. CASE t0 # "events"
        <5>1. Feed!Newest("events")' = Feed!Newest("events")
          BY <2>4, <4>2 DEF Topics
        <5> QED BY <3>1, <5>1
      <4> QED BY <4>1, <4>2
    <3>3. \A i \in 1..Len(fifo) : \A j \in 1..Len(pending') :
            pending'[j].topic = "events" => pending'[j].n < fifo[i].n
      BY <2>7 DEF FeedInv, QueueInv
    <3>4. \A i \in 1..Len(fifo) : \A j \in 1..(i - 1) : fifo[j].n < fifo[i].n
      BY DEF FeedInv, QueueInv
    <3> QED BY <1>1, <1>4, <3>1, <3>2, <3>3, <3>4 DEF QueueInv
  <2>11. slot # 0 =>
           /\ Above("state", slot)'
           /\ \A j \in 1..Len(pending') : pending'[j].topic = "state" => pending'[j].n < slot
    <3>1. slot # 0 => Feed!Newest("state") < slot /\ slot <= said["state"]
         /\ (t0 = "state" => n0 < slot)
      BY <2>3 DEF FeedInv, Above
    <3>2. slot # 0 => Feed!Newest("state")' < slot
      <4>1. CASE t0 = "state"
        BY <2>4, <3>1, <4>1
      <4>2. CASE t0 # "state"
        <5>1. Feed!Newest("state")' = Feed!Newest("state")
          BY <2>4, <4>2 DEF Topics
        <5> QED BY <3>1, <5>1
      <4> QED BY <4>1, <4>2
    <3>3. slot # 0 =>
            \A j \in 1..Len(pending') : pending'[j].topic = "state" => pending'[j].n < slot
      BY <2>7 DEF FeedInv
    <3> QED BY <1>1, <1>4, <3>1, <3>2, <3>3 DEF Above
  <2>12. FeedInv'
    BY <1>4, <2>8, <2>9, <2>10, <2>11 DEF FeedInv
  <2> QED BY <1>1, <2>2, <2>5, <2>6, <2>12
<1> QED BY <1>2, <1>3, <1>4 DEF _send, Dropped, _detach, _detach_node

(* The types of the rest, one part of the state at a time. *)
BusTypes ==
  /\ state \in {"unavailable", "attached", "detached", "closed"}
  /\ pc \in {"loop", "plane", "flow", "lock", "node", "pump", "send", "inbound", "join",
              "restop", "restart", "barrier", "blocked", "done"}
  /\ node \in BOOLEAN /\ lock \in BOOLEAN /\ others \in BOOLEAN /\ live \in BOOLEAN

JoinTypes == /\ rendered \subseteq Machines /\ lost \subseteq rendered
             /\ joins \subseteq Machines /\ goal \in Goals \cup {NoGoal}

CountTypes == faults \in 0 .. MaxFaults /\ asked \in 0 .. MaxJoins

GoalInv == pc \in {"restop", "restart", "barrier", "join"} => goal \in Goals

PassedInv == passed \subseteq Topics /\ \A t \in passed : said[t] < MaxSaid

LEMMA CountStep == ASSUME CountTypes, [BridgeNext]_bridgeVars PROVE CountTypes'
<1> USE BridgeAssumption DEF CountTypes, Fault, NoFault, bridgeVars, busVars, envVars, planeVars
<1>1. CASE EnsurePlane \/ EnsureFlow \/ _acquire_lock \/ Unblocks \/ _run
  BY <1>1 DEF EnsurePlane, EnsureFlow, _acquire_lock, Unblocks, _run
<1>2. CASE _attach
  BY <1>2 DEF _attach
<1>3. CASE _drain_outbound \/ _send \/ _drain_inbound \/ _apply_rescan \/ _join
  BY <1>3 DEF _drain_outbound, _send, _drain_inbound, _apply_rescan, _join
<1>4. CASE RestartStops \/ _restart_dataflow \/ BarrierProbe \/ JoinExpires
  BY <1>4 DEF RestartStops, _restart_dataflow, BarrierProbe, JoinExpires
<1>5. CASE (\E t \in Topics : try_publish(t) \/ Put(t)) \/ StopAsked \/ stop
  BY <1>5 DEF try_publish, Put, StopAsked, stop
<1>6. CASE \E m \in Machines : request_join(m)
  BY <1>6 DEF request_join
<1>7. CASE World \/ OthersLeave \/ UNCHANGED bridgeVars
  BY <1>7 DEF World, OthersLeave
<1> QED BY <1>1, <1>2, <1>3, <1>4, <1>5, <1>6, <1>7 DEF BridgeNext, Bus, Others

LEMMA BusStep == ASSUME BusTypes, [BridgeNext]_bridgeVars PROVE BusTypes'
<1> USE DEF BusTypes, bridgeVars, busVars, envVars, _detach, _detach_node, AfterFailure
<1>1. CASE EnsurePlane
  BY <1>1 DEF EnsurePlane
<1>2. CASE EnsureFlow
  BY <1>2 DEF EnsureFlow
<1>3. CASE _acquire_lock \/ Unblocks \/ _run
  BY <1>3 DEF _acquire_lock, Unblocks, _run
<1>4. CASE _attach
  BY <1>4 DEF _attach
<1>5. CASE _drain_outbound \/ _send \/ _drain_inbound
  BY <1>5 DEF _drain_outbound, _send, _drain_inbound
<1>6. CASE _apply_rescan \/ _join
  BY <1>6 DEF _apply_rescan, _join
<1>7. CASE RestartStops \/ _restart_dataflow
  BY <1>7 DEF RestartStops, _restart_dataflow
<1>8. CASE BarrierProbe \/ JoinExpires
  BY <1>8 DEF BarrierProbe, JoinExpires, _subprocess_canary
<1>9. CASE (\E t \in Topics : try_publish(t) \/ Put(t)) \/ (\E m \in Machines : request_join(m))
  BY <1>9 DEF try_publish, Put, request_join
<1>10. CASE StopAsked \/ stop
  BY <1>10 DEF StopAsked, stop
<1>11. CASE World \/ OthersLeave \/ UNCHANGED bridgeVars
  BY <1>11 DEF World, OthersLeave
<1> QED BY <1>1, <1>2, <1>3, <1>4, <1>5, <1>6, <1>7, <1>8, <1>9, <1>10, <1>11 DEF BridgeNext,
     Bus, Others

LEMMA JoinStep ==
  ASSUME JoinTypes, GoalInv, [BridgeNext]_bridgeVars
  PROVE  JoinTypes' /\ GoalInv'
<1> USE DEF JoinTypes, GoalInv, bridgeVars, busVars, envVars, _detach, _detach_node, AfterFailure
<1>1. CASE EnsurePlane
  BY <1>1 DEF EnsurePlane
<1>2. CASE EnsureFlow
  BY <1>2 DEF EnsureFlow, _start_dataflow
<1>3. CASE _acquire_lock \/ Unblocks \/ _run
  BY <1>3 DEF _acquire_lock, Unblocks, _run
<1>4. CASE _attach
  BY <1>4 DEF _attach
<1>5. CASE _drain_outbound \/ _send \/ _drain_inbound
  BY <1>5 DEF _drain_outbound, _send, _drain_inbound
<1>6. CASE _apply_rescan
  BY <1>6 DEF _apply_rescan, Lost
<1>7. CASE _join
  <2>1. PICK m \in joins, found \in SUBSET Machines :
          /\ joins' = joins \ {m}
          /\ IF m \in rendered \ lost \/ m \notin found
             THEN pc' = "loop" /\ UNCHANGED <<lost, goal>>
             ELSE /\ goal' = [m |-> m, want |-> Rendering(m), again |-> FALSE]
                  /\ lost' = lost \ {m}
    BY <1>7 DEF _join
  <2>2. m \in Machines /\ Rendering(m) \subseteq Machines
    BY <2>1 DEF Rendering
  <2>3. [m |-> m, want |-> Rendering(m), again |-> FALSE] \in Goals
    BY <2>2 DEF Goals
  <2>4. UNCHANGED rendered
    BY <1>7 DEF _join
  <2> QED BY <2>1, <2>3, <2>4
<1>8. CASE RestartStops
  BY <1>8 DEF RestartStops
<1>9. CASE _restart_dataflow
  <2>1. goal \in Goals /\ goal.want \subseteq Machines
    BY <1>9 DEF _restart_dataflow, Goals
  <2> QED BY <1>9, <2>1 DEF _restart_dataflow, _start_dataflow
<1>10. CASE BarrierProbe
  BY <1>10 DEF BarrierProbe, _subprocess_canary
<1>11. CASE JoinExpires
  <2>1. goal \in Goals /\ [goal EXCEPT !.want = @ \ {goal.m}, !.again = TRUE] \in Goals
    BY <1>11 DEF JoinExpires, Goals
  <2> QED BY <1>11, <2>1 DEF JoinExpires
<1>12. CASE \E t \in Topics : try_publish(t) \/ Put(t)
  BY <1>12 DEF try_publish, Put
<1>13. CASE \E m \in Machines : request_join(m)
  BY <1>13 DEF request_join
<1>14. CASE StopAsked \/ stop \/ World \/ OthersLeave \/ UNCHANGED bridgeVars
  BY <1>14 DEF StopAsked, stop, World, OthersLeave
<1> QED
  BY <1>1, <1>2, <1>3, <1>4, <1>5, <1>6, <1>7, <1>8, <1>9, <1>10, <1>11, <1>12, <1>13, <1>14
     DEF BridgeNext, Bus, Others

(* What a dataflow can be. *)
Flows == [up : BOOLEAN, remotes : SUBSET Machines, here : SUBSET Machines]

(* The control plane's own steps. *)
LEMMA PlaneOps ==
  ASSUME PlaneTypeOK
  PROVE  /\ reap \/ StartPlane \/ HalfStart \/ stop_dataflow => PlaneTypeOK'
         /\ \A ms \in SUBSET Machines : start_dataflow(ms) => PlaneTypeOK'
         /\ UNCHANGED planeVars => PlaneTypeOK'
<1>1. NoFlow \in Flows
  BY DEF NoFlow, Flows
<1>2. flow \in Flows /\ named \in BOOLEAN /\ coord \in {"none", "alive", "dead"}
     /\ daemon \in {"none", "alive", "dead"}
  BY DEF PlaneTypeOK, Flows
<1>3. ASSUME flow' \in Flows, named' \in BOOLEAN, coord' \in {"none", "alive", "dead"},
     daemon' \in {"none", "alive", "dead"}
      PROVE  PlaneTypeOK'
  BY <1>3 DEF PlaneTypeOK, Flows
<1>4. ASSUME reap \/ StartPlane \/ HalfStart PROVE PlaneTypeOK'
  BY <1>1, <1>3, <1>4 DEF reap, StartPlane, HalfStart
<1>5. ASSUME stop_dataflow PROVE PlaneTypeOK'
  <2>1. flow' \in {NoFlow, flow} /\ named' = FALSE /\ coord' = coord /\ daemon' = daemon
    BY <1>5 DEF stop_dataflow
  <2>2. flow' \in Flows
    BY <1>1, <1>2, <2>1
  <2> QED BY <1>2, <1>3, <2>1, <2>2
<1>6. ASSUME NEW ms \in SUBSET Machines, start_dataflow(ms) PROVE PlaneTypeOK'
  <2>1. flow' \in Flows
    BY <1>6 DEF start_dataflow, Flows
  <2> QED BY <1>2, <1>3, <1>6, <2>1 DEF start_dataflow
<1>7. ASSUME UNCHANGED planeVars PROVE PlaneTypeOK'
  BY <1>2, <1>3, <1>7 DEF planeVars
<1> QED BY <1>4, <1>5, <1>6, <1>7

LEMMA PlaneStep ==
  ASSUME PlaneTypeOK, JoinTypes, GoalInv, [BridgeNext]_bridgeVars
  PROVE  PlaneTypeOK'
<1>1. CASE EnsurePlane
  BY <1>1, PlaneOps DEF EnsurePlane, StartFails
<1>2. CASE EnsureFlow
  BY <1>2, PlaneOps DEF EnsureFlow, _start_dataflow
<1>3. CASE _acquire_lock \/ _attach \/ Unblocks \/ _run
  BY <1>3, PlaneOps DEF _acquire_lock, _attach, Unblocks, _run
<1>4. CASE _drain_outbound \/ _send \/ _drain_inbound \/ _apply_rescan \/ _join
  BY <1>4, PlaneOps DEF _drain_outbound, _send, _drain_inbound, _apply_rescan, _join
<1>5. CASE RestartStops
  BY <1>5, PlaneOps DEF RestartStops
<1>6. CASE _restart_dataflow
  <2>1. goal.want \subseteq Machines
    BY <1>6 DEF _restart_dataflow, GoalInv, Goals
  <2> QED BY <1>6, <2>1, PlaneOps DEF _restart_dataflow, _start_dataflow
<1>7. CASE BarrierProbe \/ JoinExpires
  BY <1>7, PlaneOps DEF BarrierProbe, JoinExpires
<1>8. CASE (\E t \in Topics : try_publish(t) \/ Put(t)) \/ (\E m \in Machines : request_join(m))
  BY <1>8, PlaneOps DEF try_publish, Put, request_join
<1>9. CASE StopAsked \/ stop
  BY <1>9, PlaneOps DEF StopAsked, stop, shutdown, bridgeVars
<1>10. CASE World
  <2>1. CASE ChildDies
    BY <2>1 DEF ChildDies, PlaneTypeOK, NoFlow
  <2>2. CASE FlowStops
    BY <2>2 DEF FlowStops, PlaneTypeOK, NoFlow
  <2>3. CASE \E m \in Machines : RemoteAttaches(m)
    BY <2>3 DEF RemoteAttaches, PlaneTypeOK
  <2> QED BY <1>10, <2>1, <2>2, <2>3 DEF World
<1>11. CASE OthersLeave \/ UNCHANGED bridgeVars
  BY <1>11, PlaneOps DEF OthersLeave, bridgeVars
<1> QED BY <1>1, <1>2, <1>3, <1>4, <1>5, <1>6, <1>7, <1>8, <1>9, <1>10, <1>11 DEF BridgeNext,
     Bus, Others

LEMMA PassedStep ==
  ASSUME PassedInv, QueueTypes, [BridgeNext]_bridgeVars
  PROVE  PassedInv'
<1> USE DEF PassedInv, bridgeVars, envVars
<1>1. CASE EnsurePlane \/ EnsureFlow \/ _acquire_lock \/ _attach \/ Unblocks \/ _run
  BY <1>1 DEF EnsurePlane, EnsureFlow, _acquire_lock, _attach, Unblocks, _run
<1>2. CASE _drain_outbound \/ _send \/ _drain_inbound \/ _apply_rescan \/ _join
  BY <1>2 DEF _drain_outbound, _send, _drain_inbound, _apply_rescan, _join
<1>3. CASE RestartStops \/ _restart_dataflow \/ BarrierProbe \/ JoinExpires
  BY <1>3 DEF RestartStops, _restart_dataflow, BarrierProbe, JoinExpires
<1>4. CASE \E t \in Topics : try_publish(t)
  BY <1>4 DEF try_publish
<1>5. CASE \E t \in Topics : Put(t)
  BY <1>5 DEF Put, QueueTypes
<1>6. CASE (\E m \in Machines : request_join(m)) \/ StopAsked \/ stop
  BY <1>6 DEF request_join, StopAsked, stop
<1>7. CASE World \/ OthersLeave \/ UNCHANGED bridgeVars
  BY <1>7 DEF World, OthersLeave
<1> QED BY <1>1, <1>2, <1>3, <1>4, <1>5, <1>6, <1>7 DEF BridgeNext, Bus, Others

(* The payloads keep their order whatever the bus does, and every step is  *)
(* one of the promised feed or none.                                       *)
LEMMA FeedStep ==
  ASSUME QueueTypes, SideInv, FeedInv, [BridgeNext]_bridgeVars
  PROVE  QueueTypes' /\ FeedInv' /\ [Feed!Next]_<<said, heard>>
<1>1. CASE \E t \in Topics : Put(t)
  <2>1. PICK t \in Topics : Put(t)
    BY <1>1
  <2>2. QueueTypes' /\ FeedInv' /\ Feed!Say(t)
    BY <2>1, PutStep DEF Feed!Say
  <2> QED BY <2>2 DEF Feed!Next
<1>2. CASE _drain_outbound
  BY <1>2, DrainStep
<1>3. CASE _send
  BY <1>3, SendStep DEF Feed!Next
<1>4. CASE Still /\ UNCHANGED <<said, heard>>
  BY <1>4 DEF Still, QueueTypes, FeedInv, QueueInv, Above, Feed!Newest
<1>5. CASE Dropped /\ UNCHANGED <<said, heard>>
  <2>1. QueueTypes'
    BY <1>5, BridgeAssumption DEF Dropped, QueueTypes
  <2>2. \A u \in Topics : Feed!Newest(u)' <= said'[u]
    BY <1>5 DEF FeedInv, Feed!Newest
  <2>3. FeedInv'
    BY <1>5, <2>2 DEF FeedInv, QueueInv, Dropped
  <2> QED BY <1>5, <2>1, <2>3
<1> QED BY QueueSteps, <1>1, <1>2, <1>3, <1>4, <1>5

LEMMA BridgeParts ==
  BridgeInv <=> /\ PlaneTypeOK /\ BusTypes /\ QueueTypes /\ JoinTypes /\ CountTypes
                /\ GoalInv /\ PassedInv /\ FeedInv
BY DEF BridgeInv, BridgeTypeOK, SideInv, BusTypes, QueueTypes, JoinTypes, CountTypes, GoalInv,
     PassedInv

LEMMA BridgeStep ==
  ASSUME BridgeInv, [BridgeNext]_bridgeVars
  PROVE  BridgeInv' /\ [Feed!Next]_<<said, heard>>
<1>1. SideInv
  BY DEF BridgeInv
<1>2. PlaneTypeOK' /\ BusTypes' /\ JoinTypes' /\ CountTypes' /\ GoalInv' /\ PassedInv'
  BY BridgeParts, PlaneStep, BusStep, JoinStep, CountStep, PassedStep
<1>3. QueueTypes' /\ FeedInv' /\ [Feed!Next]_<<said, heard>>
  BY <1>1, BridgeParts, FeedStep
<1>4. BridgeInv'
  BY <1>2, <1>3 DEF BridgeInv, BridgeTypeOK, SideInv, BusTypes, QueueTypes, JoinTypes,
       CountTypes, GoalInv, PassedInv
<1> QED BY <1>3, <1>4

(* The bridge's state keeps its types, the dataflow's and the join's with  *)
(* it: a restart always knows the machine it is for.                       *)
THEOREM BridgeTypes == BridgeSpec => []BridgeTypeOK
<1>1. BridgeInv => BridgeTypeOK
  BY DEF BridgeInv
<1> QED BY <1>1, BridgeStart, BridgeStep, PTL DEF BridgeSpec

(* Through every failed send, lost dataflow, restart and late producer, a  *)
(* consumer hears each topic's payloads in the order they were put down    *)
(* and none of them twice.                                                 *)
THEOREM BridgeKeepsFeed == BridgeSpec => FeedKept
<1>1. BridgeInit => Feed!Init
  BY DEF BridgeInit, Feed!Init
<1> QED BY <1>1, BridgeStart, BridgeStep, PTL DEF BridgeSpec, FeedKept, Feed!Spec
=============================================================================
