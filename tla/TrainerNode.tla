------------------------------ MODULE TrainerNode ------------------------------
(***************************************************************************)
(* The trainer role of the reference policy node                            *)
(* (dora_bridge/nodes/fake_policy.py, FakeTrainerRole): the node's thread   *)
(* follows the session announce and the events, one worker thread prepares  *)
(* and trains, and both write the status the runtime shows.                 *)
(***************************************************************************)
EXTENDS Naturals, Sequences

CONSTANTS None, NodeSessions, \* sessions that ask for Online DAgger
          NodeEpisodes,       \* the episodes of a run of the model
          every,              \* rollouts a training waits for
          MaxJobs             \* bound: jobs in a run of the model

JobKinds == {"prepare", "train", "now"}
Running == [kind : JobKinds, session : NodeSessions, busy : BOOLEAN, begun : BOOLEAN]

ASSUME NodeAssumption ==
  None \notin NodeSessions \cup Running /\ every \in Nat \ {0} /\ MaxJobs \in Nat

VARIABLES ctx,       \* the session served, or None
          shown,     \* status: [state, session]
          rollouts, trained, discarded,  \* the buffer, how much of it was trained on
          jobs,      \* queue of [kind, session]
          job,       \* the worker's: None, or [kind, session, busy, begun]
          nodeVersion,   \* the acting version, and the session that trained it last
          given      \* jobs handed over so far

trainerVars == <<ctx, shown, rollouts, trained, discarded, jobs, job, nodeVersion, given>>

Job(kind, s) == [kind |-> kind, session |-> s]

TrainerInit == /\ ctx = None /\ shown = [state |-> "idle", session |-> None]
               /\ rollouts = <<>> /\ trained = 0 /\ discarded = {}
               /\ jobs = <<>> /\ job = None
               /\ nodeVersion = 0 /\ given = 0

TrainerTypeOK ==
    /\ ctx \in NodeSessions \cup {None}
    /\ shown \in [state : {"idle", "preparing", "ready", "training", "error"},
                  session : NodeSessions \cup {None}]
    /\ rollouts \in Seq(NodeEpisodes) /\ trained \in 0 .. Len(rollouts)
    /\ discarded \subseteq NodeEpisodes
    /\ jobs \in Seq([kind : JobKinds, session : NodeSessions]) /\ job \in Running \cup {None}
    /\ given \in 0 .. MaxJobs /\ nodeVersion \in 0 .. MaxJobs

(* busy: the flag, or something queued; a job just taken is neither yet. *)
busy == jobs # <<>> \/ (IF job = None THEN FALSE ELSE job.busy)

Idle == [state |-> "idle", session |-> None]

_submit(kind, s) == /\ given < MaxJobs /\ given' = given + 1
                    /\ jobs' = Append(jobs, Job(kind, s))

(* The announce of a session that runs: its buffer starts empty. *)
_on_session(s) ==
    /\ s # ctx
    /\ ctx' = s /\ shown' = [state |-> "preparing", session |-> s]
    /\ rollouts' = <<>> /\ trained' = 0 /\ discarded' = {}
    /\ _submit("prepare", s)
    /\ UNCHANGED <<job, nodeVersion>>

(* The announce says it ended: the status is settled now, or by the worker. *)
SessionEnds == /\ ctx # None /\ ctx' = None
               /\ shown' = IF busy THEN shown ELSE Idle
               /\ UNCHANGED <<rollouts, trained, discarded, jobs, job, nodeVersion, given>>

EpisodeDiscarded(e) ==
    /\ ctx # None /\ e \notin discarded /\ discarded' = discarded \cup {e}
    /\ rollouts' = SelectSeq(rollouts, LAMBDA r : r # e)
    /\ trained' = IF trained < Len(rollouts') THEN trained ELSE Len(rollouts')
    /\ UNCHANGED <<ctx, shown, jobs, job, nodeVersion, given>>

Known(e) == e \in discarded \/ \E i \in DOMAIN rollouts : rollouts[i] = e

EpisodeSaved(e) ==
    /\ ctx # None /\ ~Known(e)
    /\ rollouts' = Append(rollouts, e)
    /\ IF Len(rollouts') - trained >= every
       THEN _submit("train", ctx) ELSE UNCHANGED <<jobs, given>>
    /\ UNCHANGED <<ctx, shown, trained, discarded, job, nodeVersion>>

TrainNow == /\ ctx # None /\ rollouts # <<>> /\ _submit("now", ctx)
            /\ UNCHANGED <<ctx, shown, rollouts, trained, discarded, job, nodeVersion>>

(******************************* the worker *******************************)
_run_worker == /\ job = None /\ jobs # <<>>
               /\ jobs' = Tail(jobs)
               /\ job' = [kind |-> Head(jobs).kind, session |-> Head(jobs).session,
                          busy |-> FALSE, begun |-> FALSE]
               /\ UNCHANGED <<ctx, shown, rollouts, trained, discarded, nodeVersion, given>>

SetsBusy == /\ job # None /\ (job # None => ~job.busy)
            /\ job' = [job EXCEPT !.busy = TRUE]
            /\ UNCHANGED <<ctx, shown, rollouts, trained, discarded, jobs, nodeVersion,
                           given>>

_serving(s) == ctx = s

(* mutant: the job ends and the status is left as it is. *)
LeavesStatus == job' = None /\ UNCHANGED shown

(* After every job: nobody is served and nothing is queued, so the node is idle again. *)
_settle_after_job == /\ job' = None
                     /\ shown' = IF ctx = None /\ jobs = <<>> THEN Idle ELSE shown

(* The beginning of either job, under the lock. *)
Begin == /\ job # None /\ (job # None => job.busy /\ ~job.begun)
         /\ \/ /\ ~_serving(job.session) \/ (job.kind = "train" /\ Len(rollouts) <= trained)
               /\ _settle_after_job /\ UNCHANGED trained
            \/ /\ _serving(job.session)
               /\ job.kind = "train" => Len(rollouts) > trained
               /\ job' = [job EXCEPT !.begun = TRUE]
               /\ shown' = [shown EXCEPT !.state = IF job.kind = "prepare" THEN "preparing"
                                                   ELSE "training"]
               /\ trained' = IF job.kind = "prepare" THEN trained ELSE Len(rollouts)
         /\ UNCHANGED <<ctx, rollouts, discarded, jobs, nodeVersion, given>>

(* The end: ready, and after a training a new acting version, if it is still served. *)
Finish == /\ job # None /\ (job # None => job.begun)
          /\ IF _serving(job.session)
             THEN /\ shown' = [shown EXCEPT !.state = "ready"] /\ job' = None
                  /\ nodeVersion' = IF job.kind = "prepare" THEN nodeVersion ELSE nodeVersion + 1
             ELSE _settle_after_job /\ UNCHANGED nodeVersion
          /\ UNCHANGED <<ctx, rollouts, trained, discarded, jobs, given>>

_fail == /\ job # None /\ (job # None => job.begun /\ job.kind # "prepare")
         /\ job' = None
         /\ shown' = IF ctx = None /\ jobs = <<>> THEN Idle ELSE [shown EXCEPT !.state = "error"]
         /\ UNCHANGED <<ctx, rollouts, trained, discarded, jobs, nodeVersion, given>>

TrainerNext == \/ \E s \in NodeSessions : _on_session(s)
               \/ SessionEnds \/ TrainNow
               \/ \E e \in NodeEpisodes : EpisodeDiscarded(e) \/ EpisodeSaved(e)
               \/ _run_worker \/ SetsBusy \/ Begin \/ Finish \/ _fail

TrainerSpec == TrainerInit /\ [][TrainerNext]_trainerVars

(******************************* properties *******************************)
(* Once nobody is served and the worker has nothing left the node says idle, and while it serves
   a session its status names that session: two threads write it, and a job of the last session
   may still be running when the next one is announced. *)
StatusSettles == /\ ctx = None /\ jobs = <<>> /\ job = None => shown = Idle
                 /\ ctx # None => shown.session = ctx
=============================================================================
