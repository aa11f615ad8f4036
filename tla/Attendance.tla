----------------------------- MODULE Attendance -----------------------------
(***************************************************************************)
(* Who is watching a session: the control endpoint gives one browser the   *)
(* controller's role (server/ws_control.py), and a thread ends the session *)
(* that had a controller and lost it for the grace period                  *)
(* (session/orphan.py).  The watch reads the endpoint's flag twice a       *)
(* second; sessions and sockets come and go in between.                    *)
(***************************************************************************)
EXTENDS Naturals

CONSTANTS Browsers,
          MaxMade, MaxStamps   \* bounds: sessions, REST calls that reset the countdown

Sessions == 1..MaxMade
NoSession == 0

VARIABLES
  ses, coming, leaving, born,  \* of the manager: the session, a bring-up or a teardown under way
  role, connected,             \* of the endpoint: each browser's, and controller_connected
  watched, had, late, doomed, torn, notice, running,   \* of the watch
  stamps,
  driven, orphaned             \* history: sessions a browser controlled, sessions the watch ended

sessionVars == <<ses, coming, leaving, born>>
socketVars == <<role, connected>>
watchVars == <<watched, had, late, doomed, torn, notice, running>>
attVars == <<sessionVars, socketVars, watchVars, stamps, driven, orphaned>>

AttInit ==
  /\ ses = NoSession /\ coming = FALSE /\ leaving = FALSE /\ born = 0
  /\ role = [b \in Browsers |-> "out"] /\ connected = FALSE
  /\ watched = NoSession /\ had = FALSE /\ late = FALSE /\ doomed = NoSession /\ torn = FALSE
  /\ notice = NoSession /\ running = TRUE
  /\ stamps = 0 /\ driven = {} /\ orphaned = {}

Controls(b) == role[b] = "controller"
Drive(s) == driven' = IF s = NoSession THEN driven ELSE driven \cup {s}

------------------------------------------------------------------------------
(* The manager.  The countdown is stamped before the session exists. *)
PostSession == /\ ses = NoSession /\ ~coming /\ ~leaving /\ born < MaxMade
               /\ coming' = TRUE /\ born' = born + 1 /\ late' = FALSE
               /\ UNCHANGED <<ses, leaving, socketVars, watched, had, doomed, torn, notice, running,
                              stamps, driven, orphaned>>

SessionUp == /\ coming /\ coming' = FALSE
             /\ \/ ses' = born /\ (IF \E b \in Browsers : Controls(b) THEN Drive(born)
                                                                      ELSE UNCHANGED driven)
                \/ UNCHANGED <<ses, driven>>
             /\ UNCHANGED <<leaving, born, socketVars, watchVars, stamps, orphaned>>

DeleteSession == /\ ses # NoSession /\ ~leaving /\ leaving' = TRUE
                 /\ UNCHANGED <<ses, coming, born, socketVars, watchVars, stamps, driven, orphaned>>

SessionDown == /\ leaving /\ leaving' = FALSE /\ ses' = NoSession
               /\ UNCHANGED <<coming, born, socketVars, watchVars, stamps, driven, orphaned>>

(* A return home or a playback over REST resets the countdown. *)
note_activity == /\ stamps < MaxStamps /\ stamps' = stamps + 1 /\ late' = FALSE
                 /\ UNCHANGED <<sessionVars, socketVars, watched, had, doomed, torn, notice, running,
                                driven, orphaned>>

------------------------------------------------------------------------------
(* The endpoint: the flag, then the note to the watch, then the greeting. *)
Accept(b) ==
  /\ role[b] = "out"
  /\ role' = [role EXCEPT ![b] = IF connected THEN "observer" ELSE "accepted"]
  /\ connected' = TRUE
  /\ UNCHANGED <<sessionVars, watchVars, stamps, driven, orphaned>>

note_controller_connected(b) ==
  /\ role[b] = "accepted" /\ role' = [role EXCEPT ![b] = "noted"]
  /\ late' = FALSE /\ had' = TRUE
  /\ UNCHANGED <<sessionVars, connected, watched, doomed, torn, notice, running, stamps, driven, orphaned>>

Greeted(b) == /\ role[b] = "noted" /\ role' = [role EXCEPT ![b] = "controller"]
              /\ Drive(IF coming THEN born ELSE ses)
              /\ UNCHANGED <<sessionVars, connected, watchVars, stamps, orphaned>>

(* The greeting is sent outside the block that clears the flag. *)
GreetingBreaks(b) == /\ role[b] = "noted" /\ role' = [role EXCEPT ![b] = "out"]
                     /\ UNCHANGED <<sessionVars, connected, watchVars, stamps, driven, orphaned>>

on_controller_disconnect(b) ==
  /\ Controls(b) /\ role' = [role EXCEPT ![b] = "out"] /\ connected' = FALSE
  /\ UNCHANGED <<sessionVars, watchVars, stamps, driven, orphaned>>

ObserverLeaves(b) == /\ role[b] = "observer" /\ role' = [role EXCEPT ![b] = "out"]
                     /\ UNCHANGED <<sessionVars, connected, watchVars, stamps, driven, orphaned>>

------------------------------------------------------------------------------
(* The watch. *)
GraceOver == /\ ~late /\ late' = TRUE
             /\ UNCHANGED <<sessionVars, socketVars, watched, had, doomed, torn, notice, running, stamps,
                            driven, orphaned>>

NothingToWatch == /\ ses = NoSession
                  /\ watched' = NoSession /\ late' = FALSE /\ had' = (had /\ connected)
                  /\ UNCHANGED <<doomed, notice>>

NewSession == /\ ses # NoSession /\ watched # ses
              /\ watched' = ses /\ late' = FALSE /\ notice' = NoSession
              /\ UNCHANGED <<had, doomed>>

Attended == /\ ses # NoSession /\ watched = ses /\ connected
            /\ late' = FALSE /\ had' = TRUE
            /\ UNCHANGED <<watched, doomed, notice>>

SinceThisLook == FALSE   \* mutant: every look starts the countdown again
GraceElapsed == late

Unattended == /\ ses # NoSession /\ watched = ses /\ ~connected
              /\ doomed' = IF had /\ ~leaving /\ GraceElapsed THEN ses ELSE NoSession
              /\ UNCHANGED <<watched, had, late, notice>>

poll == /\ running /\ doomed = NoSession
        /\ NothingToWatch \/ NewSession \/ Attended \/ Unattended
        /\ UNCHANGED <<sessionVars, socketVars, torn, running, stamps, driven, orphaned>>

(* The decision was taken under the watch's lock; the teardown takes the manager's, and ends
   the session it finds. *)
EndSession == /\ doomed # NoSession /\ ~torn /\ ~coming /\ ~leaving
              /\ ses' = NoSession
              /\ orphaned' = IF ses = NoSession THEN orphaned ELSE orphaned \cup {ses}
              /\ torn' = TRUE
              /\ UNCHANGED <<coming, leaving, born, socketVars, watched, had, late, doomed, notice,
                             running, stamps, driven>>

(* The books are closed only now: a controller noted in between is forgotten. *)
RecordEnd == /\ torn
             /\ notice' = doomed /\ watched' = NoSession /\ had' = FALSE /\ late' = FALSE
             /\ doomed' = NoSession /\ torn' = FALSE
             /\ UNCHANGED <<sessionVars, socketVars, running, stamps, driven, orphaned>>

(* Runtime.stop stops the thread before its own teardown. *)
StopWatch == /\ running /\ doomed = NoSession /\ running' = FALSE
             /\ UNCHANGED <<sessionVars, socketVars, watched, had, late, doomed, torn, notice, stamps,
                            driven, orphaned>>

AttNext ==
  \/ PostSession \/ SessionUp \/ DeleteSession \/ SessionDown \/ note_activity
  \/ \E b \in Browsers : \/ Accept(b) \/ note_controller_connected(b) \/ Greeted(b)
                         \/ GreetingBreaks(b) \/ on_controller_disconnect(b) \/ ObserverLeaves(b)
  \/ GraceOver \/ poll \/ EndSession \/ RecordEnd \/ StopWatch

WatchThread == poll \/ EndSession \/ RecordEnd
ManagerEnds == SessionUp \/ SessionDown

------------------------------------------------------------------------------
(* A session the watch knows to have had a controller does not stay up without one: it ends, or
   somebody takes the controls again. *)
AbandonedEnds ==
  \A s \in Sessions : (running /\ watched = s /\ had /\ ~connected)
                        ~> (ses # s \/ connected \/ ~running)

(* What the class comment says, "Ends a session with no controller /ws/control connection":
   of a session that had one, said of the sockets and not of the flag. The code does not keep it
   (README, part 5). *)
UnheldEnds ==
  \A s \in Sessions : (running /\ ses = s /\ s \in driven /\ watched = s
                       /\ \A b \in Browsers : role[b] = "out")
                        ~> (ses # s \/ ~running \/ \E b \in Browsers : role[b] # "out")

(* What the module comment says: a session that has never had a controller is never ended. The
   code does not keep it (README, part 5). *)
OnlyDrivenEnd == orphaned \subseteq driven
==========================================================================
