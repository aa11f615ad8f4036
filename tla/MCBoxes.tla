------------------------------ MODULE MCBoxes ------------------------------
(* Who holds the control boxes, the path check, the homing of a rail that  *)
(* uses both, the replay of an episode and the columns it is read from:    *)
(* parts that share no state while they run.  A behaviour is one of them.  *)
EXTENDS Boxes, HomePlan, Playback

CONSTANTS c1, c2, m1, m2, guest

VARIABLE part

vars == <<part, boxVars, walk, planVars, episodeVars, columns>>

Order == <<c1, c2>>
Stances == [Rails -> [Pairs -> {1, 3, 9}]]

(* Episodes of three frames in which either arm moves its joint, its carriage or neither and then
   its joint again; one whose other carriage was not recorded; one of a single arm; one of an arm
   the session has not; one that cannot be read. *)
Film(named, tracked, sources, frames) ==
  [legible |-> TRUE, named |-> named, tracked |-> tracked, sources |-> sources, frames |-> frames]
Rest(S) == [a \in S |-> <<0, 0>>]
Both == {m1, m2}
Episodes ==
  {Film(Both, Both, {}, <<Rest(Both), f, g>>) :
     f \in [Both -> {<<0, 0>>, <<12, 0>>, <<0, 12>>}], g \in [Both -> {<<24, 0>>, <<0, 0>>}]}
  \cup {Film(Both, {m2}, {"abs_ee"}, <<Rest(Both), [a \in Both |-> <<12, 12>>]>>),
        Film({m1}, {}, {"delta_ee"}, <<Rest({m1}), [a \in {m1} |-> <<24, 12>>]>>),
        Film({guest}, {}, {}, <<Rest({guest})>>),
        [Film(Both, Both, {}, <<Rest(Both)>>) EXCEPT !.legible = FALSE]}

(* Within a tick of the first frame, within the tolerance of the start check, and beyond. *)
Strays == {<<6, 0>>, <<24, 0>>, <<36, 0>>, <<0, 4>>, <<0, 8>>}

Init ==
  /\ part \in {"boxes", "path", "home", "episode", "columns"}
  /\ BoxInit
  /\ WalkInit /\ (part # "path" => walk = <<CHOOSE c \in Configs : TRUE>>)
  /\ PlanInit /\ (part # "home" => /\ here = CHOOSE c \in Postures : TRUE
                                   /\ target = [c \in Cands |-> here])
  /\ PlaybackInit /\ (part # "episode" => tape = CHOOSE t \in Tapes : ~t.legible)
  /\ ColumnsInit /\ (part # "columns" => columns.of = "action")

InBoxes(A) == /\ part = "boxes" /\ A
              /\ UNCHANGED <<part, walk, planVars, episodeVars, columns>>
InPath(A) == /\ part = "path" /\ A
             /\ UNCHANGED <<part, boxVars, planVars, episodeVars, columns>>
InHome(A) == /\ part = "home" /\ A
             /\ UNCHANGED <<part, boxVars, walk, episodeVars, columns>>
InEpisode(A) == /\ part = "episode" /\ A
                /\ UNCHANGED <<part, boxVars, walk, planVars, columns>>
InColumns(A) == /\ part = "columns" /\ A
                /\ UNCHANGED <<part, boxVars, walk, planVars, episodeVars>>

Next == \/ InBoxes(BoxNext) \/ InPath(Extend) \/ InHome(PlanNext)
        \/ InEpisode(PlaybackNext) \/ InColumns(Name)

Spec == Init /\ [][Next]_vars /\ WF_vars(InBoxes(Supervisor))
=============================================================================
