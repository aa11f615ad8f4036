------------------------------- MODULE MCEnds -------------------------------
(* That what is begun comes to an end: the profile motions of one session,  *)
(* and the saving of an episode.  The two share no state while they run, so *)
(* a behaviour is one of them.  A session is asked for two motions, or for  *)
(* one and a goto; a client asks the recorder for something, or a second    *)
(* session begins to record.                                                *)
EXTENDS SessionMotions

CONSTANTS RecIds, RecSessions, Ending, RecAsks, RecFaults

VARIABLES
  place, files, manifest, mlock, rest, job, storeAsks, deleted, swept,
  manager, recording, life, thread, rec, buf, mem, held, minted, told, recFaults,
  part

R == INSTANCE Recorder WITH
  MaxIds <- RecIds, Sessions <- RecSessions, MaxAsks <- RecAsks, MaxFaults <- RecFaults,
  lock <- mlock, asks <- storeAsks, session <- recording, pc <- thread, faults <- recFaults

recVars == <<place, files, manifest, mlock, rest, job, storeAsks, deleted, swept,
  manager, recording, life, thread, rec, buf, mem, held, minted, told, recFaults>>
vars == <<sessionVars, recVars, part>>

MCOne == {1}
MCTwo == {1, 2}
MCStarts == [s \in MCOne |-> {"keep", "profile"}]
MCKinds == {"hardware"}

Init == SessionInit /\ R!RecorderInit /\ part \in {"session", "recording"}

FewAsked == gotos' = 0 \/ asks' <= 1
AskedOrTwo == storeAsks' = 0 \/ life'[2] = "none"

InSession(A) == part = "session" /\ A /\ FewAsked /\ UNCHANGED <<recVars, part>>
InRecording(A) == part = "recording" /\ A /\ AskedOrTwo /\ UNCHANGED <<sessionVars, part>>

Next == InSession(SessionNext) \/ InRecording(R!RecorderNext)

(* One condition for each thread of either part. *)
Both(A, B) == InSession(A) \/ InRecording(B)

Spec ==
  /\ Init /\ [][Next]_vars
  /\ WF_vars(Both(CreateStep \/ EndStep, R!ManagerStep(1)))
  /\ \A s \in Ids : WF_vars(Both(LoopStep(s), R!ManagerStep(2)))
  /\ \A s \in Ids : WF_vars(Both(StartStep(s) \/ LegStep(s), R!ThreadStep(1)))
  /\ \A m \in Motions : WF_vars(Both(LegStep(m) \/ Claim(m) \/ Release(m), R!ThreadStep(2)))

SavingEnds == R!SavingEnds
=============================================================================
