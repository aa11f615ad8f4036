------------------------------- MODULE IdleArms -------------------------------
(***************************************************************************)
(* The cell's state on the bus while no session exists: the idle arm reader *)
(* (dora_bridge/idle_state.py) with its read-only connections to the boxes, *)
(* its hand-over around a session (wiring.py, SessionManager.create and     *)
(* teardown), and the publisher that decides which snapshots go out         *)
(* (SnapshotPublisher in publishers.py).                                    *)
(***************************************************************************)
EXTENDS Naturals

CONSTANTS NoSnap, MaxSnaps   \* bound: snapshots put in a run of the model

ASSUME IdleAssumption == MaxSnaps \in Nat

VARIABLES reader,     \* the reader's thread: off, loop, locked, sleeping
          pausing,    \* _paused
          connected,  \* the thread's own flag
          drivers,    \* read-only connections are open
          status,     \* off, running, paused, stale
          session,    \* none, building, running, ending: what the manager is doing
          announced,      \* the publisher's view of a session
          snap,       \* the newest snapshot of the bus: [tick, n], or NoSnap
          taken,      \* the publisher's last one
          out,        \* what it published: "idle", "loop" or NoSnap, with the announced it saw
          puts

idleVars == <<reader, pausing, connected, drivers, status, session, announced, snap, taken, out, puts>>

Snaps == [tick : {"idle", "loop"}, n : 1 .. MaxSnaps]

IdleInit == /\ reader = "off" /\ pausing = FALSE /\ connected = FALSE /\ drivers = FALSE
            /\ status = "off" /\ session = "none" /\ announced = FALSE
            /\ snap = NoSnap /\ taken = 0 /\ out = NoSnap /\ puts = 0

IdleTypeOK == /\ reader \in {"off", "loop", "locked", "sleeping"}
              /\ pausing \in BOOLEAN /\ connected \in BOOLEAN
              /\ drivers \in BOOLEAN /\ announced \in BOOLEAN
              /\ status \in {"off", "running", "paused", "stale"}
              /\ session \in {"none", "building", "running", "ending"}
              /\ snap \in Snaps \cup {NoSnap} /\ taken \in 0 .. MaxSnaps
              /\ out \in {NoSnap, "idle", "loop"} /\ puts \in 0 .. MaxSnaps

(****************************** the reader ********************************)
reader_start == /\ reader = "off" /\ session = "none" /\ reader' = "loop" /\ status' = "running"
         /\ UNCHANGED <<pausing, connected, drivers, session, announced, snap, taken, out, puts>>

(* Paused, it forgets that it was connected; else it goes for the lock, which pause() takes too. *)
Look == /\ reader = "loop"
        /\ IF pausing THEN connected' = FALSE /\ reader' = "sleeping"
           ELSE reader' = "locked" /\ UNCHANGED connected
        /\ UNCHANGED <<pausing, drivers, status, session, announced, snap, taken, out, puts>>

(* mutant: under the lock it does not look again. *)
LookedBefore == TRUE

MayConnect == ~pausing

(* Under the lock it looks again, connects, reads and publishes. *)
Round ==
    /\ reader = "locked" /\ reader' = "sleeping"
    /\ IF ~MayConnect THEN UNCHANGED <<connected, drivers, status, snap, puts>>
       ELSE /\ connected' = TRUE
            /\ drivers' \in IF connected THEN {drivers} ELSE BOOLEAN   \* the boxes may be off
            /\ \/ /\ puts < MaxSnaps /\ status' \in {"running", "stale"}
                  /\ puts' = puts + 1 /\ snap' = [tick |-> "idle", n |-> puts']
               \/ UNCHANGED <<status, snap, puts>>          \* nothing was ever read
    /\ UNCHANGED <<pausing, session, announced, taken, out>>

(* A driver source tries the boxes it lost again on its own, connected or not. *)
_try_connect == /\ reader = "locked" /\ MayConnect /\ connected /\ ~drivers
                /\ drivers' = TRUE
                /\ UNCHANGED <<reader, pausing, connected, status, session, announced, snap, taken,
                               out, puts>>

Wake == /\ reader = "sleeping" /\ reader' = "loop"
        /\ UNCHANGED <<pausing, connected, drivers, status, session, announced, snap, taken, out, puts>>

reader_stop == /\ reader # "off" /\ session = "none"
        /\ reader' = "off" /\ drivers' = FALSE /\ connected' = FALSE /\ status' = "off"
        /\ UNCHANGED <<pausing, session, announced, snap, taken, out, puts>>

(*************************** around a session *****************************)
before_bringup == /\ session = "none" /\ session' = "building"
                  /\ pausing' = TRUE /\ drivers' = FALSE
                  /\ status' = (IF reader = "off" THEN "off" ELSE "paused")
                  /\ UNCHANGED <<reader, connected, announced, snap, taken, out, puts>>

after_session_start == /\ session = "building" /\ session' = "running" /\ announced' = TRUE
                       /\ UNCHANGED <<reader, pausing, connected, drivers, status, snap, taken,
                                      out, puts>>

(* The loop puts a snapshot a tick, from the bring-up to the last tick of the teardown. *)
LoopPuts == /\ session \in {"building", "running"} /\ puts < MaxSnaps
            /\ puts' = puts + 1 /\ snap' = [tick |-> "loop", n |-> puts']
            /\ UNCHANGED <<reader, pausing, connected, drivers, status, session, announced, taken, out>>

TeardownBegins == /\ session = "running" /\ session' = "ending"
                  /\ UNCHANGED <<reader, pausing, connected, drivers, status, announced, snap, taken,
                                 out, puts>>

after_teardown == /\ session \in {"building", "ending"}   \* a failed bring-up resumes it too
                  /\ session' = "none" /\ announced' = FALSE
                  /\ pausing' = FALSE
                  /\ status' = (IF reader = "off" THEN status ELSE "running")
                  /\ UNCHANGED <<reader, connected, drivers, snap, taken, out, puts>>

(***************************** the publisher ******************************)
Wanted == snap.tick = "loop" <=> announced

(* A fresh snapshot goes out as what it is, if the session it belongs to is the announced one. *)
_on_snapshot == /\ snap # NoSnap /\ snap.n > taken
                /\ taken' = snap.n
                /\ out' = IF Wanted THEN snap.tick ELSE NoSnap
                /\ UNCHANGED <<reader, pausing, connected, drivers, status, session, announced, snap,
                               puts>>

IdleNext == \/ reader_start \/ Look \/ Round \/ _try_connect \/ Wake \/ reader_stop
            \/ before_bringup \/ after_session_start \/ LoopPuts \/ TeardownBegins
            \/ after_teardown \/ _on_snapshot

IdleSpec == IdleInit /\ [][IdleNext]_idleVars

(******************************* properties *******************************)
(* From the hand-over to the end of a session, whether it came up or not, the reader holds no
   connection to a box: the boxes take only so many, and the session's driver needs its own. *)
BoxesAreFree == session # "none" => ~drivers
=============================================================================
