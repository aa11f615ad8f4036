------------------------------ MODULE DoraBridge ------------------------------
(***************************************************************************)
(* The runtime's node on the external bus (dora_bridge/bridge.py): the one  *)
(* bus thread attaches, drains what the producers left, notices that the    *)
(* dataflow is gone and attaches again; it also restarts the dataflow when  *)
(* a remote machine asks to join.  Producers only fill a slot or a queue.   *)
(***************************************************************************)
EXTENDS Naturals, FiniteSets, Sequences, SequencesExt

CONSTANTS Machines,      \* the configured remote machines
          NoGoal,        \* no join in progress
          EVENT_FIFO,  \* the events that wait at most
          MaxSaid,     \* payloads per topic in a run of the model
          MaxFaults,   \* things that go wrong in a run of the model
          MaxJoins     \* join requests in a run of the model

Topics == {"state", "events"}   \* one depth-1 slot, and the FIFO

ASSUME BridgeAssumption ==
  EVENT_FIFO \in Nat /\ MaxSaid \in Nat /\ MaxFaults \in Nat /\ MaxJoins \in Nat

VARIABLES coord, daemon,   \* "none", "alive" or "dead"
          named,      \* dataflow_id is known
          flow,       \* the dataflow itself: [up, remotes, here]
          state,      \* disabled | unavailable | attached | detached | closed
          pc,         \* where the bus thread is
          node,       \* it holds a dora Node
          lock,       \* it holds the flock of the node id
          others,     \* another runtime holds it
          slot, fifo, \* what the producers left
          pending,    \* drained, not yet sent
          passed,     \* a producer between its look at state and the queue
          rendered, lost,
          joins,      \* _join_pending
          goal,       \* the join in progress, or NoGoal
          live,       \* _running
          said, heard, faults, asked

planeVars == <<coord, daemon, named, flow>>
busVars == <<state, pc, node, lock, slot, fifo, pending, rendered, lost, joins, goal>>
envVars == <<others, passed, live, said, heard, faults, asked>>
bridgeVars == <<planeVars, busVars, envVars>>

(***************************************************************************)
(* The private dora coordinator and daemon (dora_bridge/control_plane.py):  *)
(* two child processes, and in the coordinator's memory the dataflow.  A    *)
(* dataflow rendered with remote machines lets no node through until the    *)
(* consumers of every one of them are there (dora's start barrier).         *)
(***************************************************************************)
NoFlow == [up |-> FALSE, remotes |-> {}, here |-> {}]

PlaneInit == coord = "none" /\ daemon = "none" /\ named = FALSE /\ flow = NoFlow

PlaneTypeOK == /\ {coord, daemon} \subseteq {"none", "alive", "dead"}
               /\ named \in BOOLEAN
               /\ flow \in [up : BOOLEAN, remotes : SUBSET Machines, here : SUBSET Machines]

running == coord = "alive" /\ daemon = "alive"

BarrierOpen == flow.remotes \subseteq flow.here

reap == coord' = "none" /\ daemon' = "none" /\ named' = FALSE /\ flow' = NoFlow

(* reap() first: start() only finds a free port when no child is left. *)
StartPlane == coord' = "alive" /\ daemon' = "alive" /\ named' = FALSE /\ flow' = NoFlow

(* The coordinator is up and the daemon could not even be spawned: nobody reaps yet. *)
HalfStart == coord' = "alive" /\ daemon' = "none" /\ named' = FALSE /\ flow' = NoFlow

StartFails == reap \/ HalfStart

stop_dataflow == /\ named' = FALSE
                 /\ flow' \in IF named /\ running THEN {NoFlow, flow} ELSE {flow}
                 /\ UNCHANGED <<coord, daemon>>

start_dataflow(machines) ==
    /\ running
    /\ named' = TRUE
    /\ flow' = [up |-> TRUE, remotes |-> machines, here |-> {}]
    /\ UNCHANGED <<coord, daemon>>

(* dora list: what it says of our dataflow; a failed call knows nothing. *)
dataflow_running == IF ~running THEN {"unknown"} ELSE {IF flow.up THEN "yes" ELSE "no"}

shutdown == reap

(* The world: a child dies, the dataflow stops, a remote consumer attaches. *)
ChildDies == /\ \/ coord = "alive" /\ coord' = "dead" /\ UNCHANGED daemon
                \/ daemon = "alive" /\ daemon' = "dead" /\ UNCHANGED coord
             /\ flow' = NoFlow
             /\ UNCHANGED named

FlowStops == flow.up /\ flow' = NoFlow /\ UNCHANGED <<coord, daemon, named>>

RemoteAttaches(m) == /\ m \in flow.remotes \ flow.here
                     /\ flow' = [flow EXCEPT !.here = @ \cup {m}]
                     /\ UNCHANGED <<coord, daemon, named>>

(***************************************************************************)
(* The bridge.                                                             *)
(***************************************************************************)
Entries == [topic : Topics, n : 1 .. MaxSaid]
Goals == [m : Machines, want : SUBSET Machines, again : BOOLEAN]

BridgeInit == /\ PlaneInit
              /\ state = "unavailable" /\ pc = "plane" /\ node = FALSE /\ lock = FALSE
              /\ others \in BOOLEAN
              /\ slot = 0 /\ fifo = <<>> /\ pending = <<>> /\ passed = {}
              /\ rendered = {} /\ lost = {} /\ joins = {} /\ goal = NoGoal
              /\ live = TRUE
              /\ said = [t \in Topics |-> 0] /\ heard = [t \in Topics |-> <<>>]
              /\ faults = 0 /\ asked = 0

BridgeTypeOK ==
    /\ PlaneTypeOK
    /\ state \in {"unavailable", "attached", "detached", "closed"}
    /\ pc \in {"loop", "plane", "flow", "lock", "node", "pump", "send", "inbound", "join",
               "restop", "restart", "barrier", "blocked", "done"}
    /\ node \in BOOLEAN /\ lock \in BOOLEAN /\ others \in BOOLEAN /\ live \in BOOLEAN
    /\ slot \in 0 .. MaxSaid /\ fifo \in Seq(Entries) /\ Len(fifo) <= EVENT_FIFO
    /\ pending \in Seq(Entries) /\ passed \subseteq Topics
    /\ rendered \subseteq Machines /\ lost \subseteq rendered
    /\ joins \subseteq Machines /\ goal \in Goals \cup {NoGoal}
    /\ said \in [Topics -> 0 .. MaxSaid] /\ heard \in [Topics -> Seq(1 .. MaxSaid)]
    /\ faults \in 0 .. MaxFaults /\ asked \in 0 .. MaxJoins

Fault == faults < MaxFaults /\ faults' = faults + 1
NoFault == UNCHANGED faults

Bounded(queue) == IF Len(queue) > EVENT_FIFO THEN Tail(queue) ELSE queue

(*************************** the producers' side **************************)
(* Both entry points look at the state first, without the lock ... *)
try_publish(t) ==
    /\ state = "attached" /\ t \notin passed /\ said[t] < MaxSaid
    /\ passed' = passed \cup {t}
    /\ UNCHANGED <<planeVars, busVars, others, live, said, heard, faults, asked>>

(* ... and put the payload down afterwards, whatever happened in between: a slot keeps the
   newest, the queue forgets its oldest when it is full. *)
Put(t) ==
    LET n == said[t] + 1
    IN  /\ t \in passed
        /\ passed' = passed \ {t}
        /\ said' = [said EXCEPT ![t] = n]
        /\ \/ t = "state" /\ slot' = n /\ UNCHANGED fifo
           \/ /\ t = "events" /\ UNCHANGED slot
              /\ fifo' = Bounded(Append(fifo, [topic |-> t, n |-> n]))
        /\ UNCHANGED <<planeVars, state, pc, node, lock, pending, rendered, lost, joins, goal, others, live, heard, faults, asked>>

request_join(m) ==
    /\ asked < MaxJoins /\ asked' = asked + 1
    /\ joins' = IF m \in rendered \ lost THEN joins ELSE joins \cup {m}
    /\ UNCHANGED <<planeVars, state, pc, node, lock, slot, fifo, pending, rendered, lost,
                   goal, others, passed, live, said, heard, faults>>

(**************************** attach and detach ***************************)
_detach_node == node' = FALSE /\ slot' = 0 /\ fifo' = <<>> /\ pending' = <<>>

_detach == _detach_node /\ lock' = FALSE /\ state' = "detached"

(* An attempt that failed: a join goes on to give its machine up, else the loop backs off. *)
AfterFailure == pc' = IF goal = NoGoal THEN "loop" ELSE "join"

(* _attach, step one: the control plane runs, or is reaped and started. *)
EnsurePlane ==
    /\ pc = "plane"
    /\ \/ running /\ pc' = "flow" /\ NoFault /\ UNCHANGED <<planeVars, state>>
       \/ ~running /\ StartPlane /\ pc' = "flow" /\ NoFault /\ UNCHANGED state
       \/ ~running /\ StartFails /\ Fault /\ state' = "unavailable" /\ AfterFailure
    /\ UNCHANGED <<node, lock, slot, fifo, pending, rendered, lost, joins, goal,
                   others, passed, live, said, heard, asked>>

_start_dataflow(machines) == /\ start_dataflow(machines)
                             /\ rendered' = machines
                             /\ lost' = lost \cap machines

(* mutant: a dataflow known by name is taken to run. *)
TrustsName(answer) == ~named

NeedsFlow(answer) == ~named \/ answer = "no"

(* Step two: a dataflow that runs is joined again, unless a machine it was rendered for has
   vanished; a fresh one never carries remote machines. *)
EnsureFlow ==
    /\ pc = "flow"
    /\ \E answer \in dataflow_running :
       LET vanished == answer = "yes" /\ named /\ rendered \cap lost # {} IN
       \/ vanished /\ stop_dataflow /\ NoFault /\ UNCHANGED <<state, pc, rendered, lost>>
       \/ /\ ~vanished /\ NeedsFlow(answer)
          /\ _start_dataflow({}) /\ pc' = "lock" /\ NoFault /\ UNCHANGED state
       \/ /\ ~vanished /\ NeedsFlow(answer)
          /\ (IF running THEN Fault ELSE NoFault)
          /\ state' = "unavailable" /\ AfterFailure
          /\ UNCHANGED <<planeVars, rendered, lost>>
       \/ /\ ~vanished /\ ~NeedsFlow(answer)
          /\ pc' = "lock" /\ NoFault /\ UNCHANGED <<planeVars, state, rendered, lost>>
    /\ UNCHANGED <<node, lock, slot, fifo, pending, joins, goal, others, passed,
                   live, said, heard, asked>>

Acquires == lock \/ ~others

_acquire_lock ==
    /\ pc = "lock"
    /\ IF Acquires
       THEN lock' = TRUE /\ pc' = "node" /\ UNCHANGED state
       ELSE state' = "unavailable" /\ AfterFailure /\ UNCHANGED lock
    /\ UNCHANGED <<planeVars, node, slot, fifo, pending, rendered, lost, joins, goal,
                   envVars>>

(* Node(): it fails without a dataflow, and does not return while the barrier is closed.
   The dummy frames go out before anyone sees "attached". *)
_attach ==
    /\ pc = "node"
    /\ \/ /\ flow.up /\ BarrierOpen
          /\ node' = TRUE /\ state' = "attached" /\ pc' = "pump" /\ goal' = NoGoal
          /\ NoFault /\ UNCHANGED <<lock, slot, fifo, pending>>
       \/ /\ flow.up /\ ~BarrierOpen
          /\ pc' = "blocked" /\ NoFault
          /\ UNCHANGED <<node, lock, state, slot, fifo, pending, goal>>
       \/ /\ ~flow.up /\ NoFault        \* any exception: the lock stays for the next attempt
          /\ _detach_node /\ state' = "unavailable" /\ AfterFailure
          /\ UNCHANGED <<lock, goal>>
       \/ /\ flow.up /\ BarrierOpen /\ Fault  \* a dummy frame failed: _detach ran
          /\ _detach /\ AfterFailure
          /\ UNCHANGED goal
    /\ UNCHANGED <<planeVars, rendered, lost, joins, others, passed, live, said,
                   heard, asked>>

(* The constructor that waits holds the interpreter: nothing of the runtime runs. *)
Unblocks == /\ pc = "blocked" /\ (BarrierOpen \/ ~flow.up)
            /\ pc' = "node"
            /\ UNCHANGED <<planeVars, state, node, lock, slot, fifo, pending, rendered, lost,
                           joins, goal, envVars>>

(******************************** the pump ********************************)
_run == /\ pc = "loop"
        /\ pc' = IF ~live THEN "done" ELSE IF state = "attached" THEN "pump" ELSE "plane"
        /\ UNCHANGED <<planeVars, state, node, lock, slot, fifo, pending, rendered, lost,
                       joins, goal, envVars>>

(* mutant: what was drained stays where it was. *)
KeepsDrained == UNCHANGED <<slot, fifo>>

EmptiesQueues == slot' = 0 /\ fifo' = <<>>

_drain_outbound ==
    /\ pc = "pump"
    /\ pending' = (IF slot = 0 THEN <<>> ELSE <<[topic |-> "state", n |-> slot]>>) \o fifo
    /\ EmptiesQueues /\ pc' = "send"
    /\ UNCHANGED <<planeVars, state, node, lock, rendered, lost, joins, goal, envVars>>

(* One payload after the other; the first that fails takes the rest with it. *)
_send ==
    /\ pc = "send"
    /\ \/ /\ pending = <<>> /\ pc' = "inbound"
          /\ NoFault /\ UNCHANGED <<state, node, lock, slot, fifo, pending, heard>>
       \/ /\ pending # <<>> /\ flow.up
          /\ heard' = [heard EXCEPT ![Head(pending).topic] = Append(@, Head(pending).n)]
          /\ pending' = Tail(pending)
          /\ NoFault /\ UNCHANGED <<state, pc, node, lock, slot, fifo>>
       \/ /\ pending # <<>> /\ (IF flow.up THEN Fault ELSE NoFault)
          /\ _detach /\ pc' = "loop" /\ UNCHANGED heard
    /\ UNCHANGED <<planeVars, rendered, lost, joins, goal, others, passed, live, said,
                   asked>>

(* STOP, a fatal ERROR, a failed try_recv, or the pulses silent for too long. *)
_drain_inbound ==
    /\ pc = "inbound"
    /\ (IF flow.up THEN Fault ELSE NoFault)
    /\ _detach /\ pc' = "loop"
    /\ UNCHANGED <<planeVars, rendered, lost, joins, goal, others, passed, live, said,
                   heard, asked>>

Lost(seen) == lost \cup (rendered \ seen)

_apply_rescan ==
    /\ pc = "inbound" /\ flow.up /\ joins = {}
    /\ \E seen \in SUBSET Machines : lost' = Lost(seen)
    /\ pc' = "loop"
    /\ UNCHANGED <<planeVars, state, node, lock, slot, fifo, pending, rendered, joins, goal,
                   envVars>>

(******************************** the join ********************************)
Rendering(m) == (rendered \ lost) \cup {m}

_join ==
    /\ pc = "inbound" /\ flow.up
    /\ \E m \in joins, found \in SUBSET Machines :
       /\ joins' = joins \ {m}
       /\ IF m \in rendered \ lost \/ m \notin found
          THEN /\ pc' = "loop" /\ UNCHANGED <<node, lock, slot, fifo, pending, lost, goal>>
          ELSE /\ goal' = [m |-> m, want |-> Rendering(m), again |-> FALSE]
               /\ lost' = lost \ {m}
               /\ _detach_node /\ lock' = FALSE /\ pc' = "restop"
    /\ UNCHANGED <<planeVars, state, rendered, envVars>>

(* _restart_dataflow: everyone still reads "attached" until the new dataflow runs. *)
RestartStops == /\ pc = "restop" /\ stop_dataflow /\ pc' = "restart"
                /\ UNCHANGED <<state, node, lock, slot, fifo, pending, rendered, lost, joins, goal, envVars>>

_restart_dataflow ==
    /\ pc = "restart"
    /\ state' = "detached"
    /\ \/ /\ _start_dataflow(goal.want) /\ NoFault
          /\ pc' = IF goal.want # {} /\ ~goal.again THEN "barrier" ELSE "plane"
       \/ /\ (IF running THEN Fault ELSE NoFault)
          /\ pc' = "join" /\ UNCHANGED <<planeVars, rendered, lost>>
    /\ UNCHANGED <<node, lock, slot, fifo, pending, joins, goal, others, passed, live,
                   said, heard, asked>>

(* The canary, a process of its own, tries the barrier first. *)
_subprocess_canary == /\ pc = "barrier"
                      /\ (pc' = "plane" /\ flow.up /\ BarrierOpen) \/ pc' = "join"

BarrierProbe ==
    /\ _subprocess_canary
    /\ UNCHANGED <<planeVars, state, node, lock, slot, fifo, pending, rendered, lost, joins, goal, envVars>>

(* The join expired: the machine is given up and the others are started again. *)
JoinExpires ==
    /\ pc = "join"
    /\ IF goal.again
       THEN goal' = NoGoal /\ pc' = "loop" /\ UNCHANGED <<node, lock, slot, fifo, pending>>
       ELSE /\ goal' = [goal EXCEPT !.want = @ \ {goal.m}, !.again = TRUE]
            /\ _detach_node /\ lock' = FALSE /\ pc' = "restop"
    /\ UNCHANGED <<planeVars, state, rendered, lost, joins, envVars>>

(********************************* stop() *********************************)
StopAsked == /\ live /\ live' = FALSE
             /\ UNCHANGED <<planeVars, busVars, others, passed, said, heard, faults, asked>>

(* It waits for the bus thread, then takes everything down. *)
stop == /\ ~live /\ pc = "done" /\ state # "closed"
        /\ _detach_node /\ lock' = FALSE /\ shutdown /\ state' = "closed"
        /\ UNCHANGED <<pc, rendered, lost, joins, goal, envVars>>

(******************************* the system *******************************)
World == /\ \/ ChildDies /\ Fault
            \/ FlowStops /\ Fault
            \/ (\E m \in Machines : RemoteAttaches(m)) /\ NoFault
         /\ UNCHANGED <<busVars, others, passed, live, said, heard, asked>>

OthersLeave == /\ others /\ others' = FALSE
               /\ UNCHANGED <<planeVars, busVars, passed, live, said, heard, faults, asked>>

Bus == \/ EnsurePlane \/ EnsureFlow \/ _acquire_lock \/ _attach \/ Unblocks
       \/ _run \/ _drain_outbound \/ _send \/ _drain_inbound \/ _apply_rescan
       \/ _join \/ RestartStops \/ _restart_dataflow \/ BarrierProbe \/ JoinExpires

Others == /\ pc # "blocked"
          /\ \/ \E t \in Topics : try_publish(t) \/ Put(t)
             \/ \E m \in Machines : request_join(m)
             \/ StopAsked \/ stop

BridgeNext == Bus \/ Others \/ World \/ OthersLeave

BridgeSpec == BridgeInit /\ [][BridgeNext]_bridgeVars /\ WF_bridgeVars(Bus)

(******************************* properties *******************************)
(* Whatever is dropped, restarted or retried, consumers see each topic's payloads in the order
   they were put down, each at most once. *)
Feed == INSTANCE EventFeed
FeedKept == Feed!Spec

(* The bus never dies: as long as nothing more goes wrong it is attached again, unless
   it was stopped, another runtime holds the id, or the constructor waits at the barrier. *)
BusRecovers == []<>(node \/ ~live \/ others \/ pc = "blocked")

(* What the comment in _restart_dataflow says: the runtime never tries to attach while the start
   barrier may be closed, because the constructor would hold the interpreter. The code does not
   keep it (README, part 5). *)
NeverBlocked == pc # "blocked"
=============================================================================
