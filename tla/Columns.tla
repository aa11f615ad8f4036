------------------------------ MODULE Columns ------------------------------
(***************************************************************************)
(* Whose value is in which column of a recorded episode, and how an action *)
(* row reaches the arms again (recorder/playback.py,                       *)
(* dagger/replay_source.py, split_action).  A column's name is the pair of *)
(* an arm and a dimension; "x", "y" stand for the dimensions every layout  *)
(* of an action has, "j1", "j2" for the seven joints, "tcp" for all of the *)
(* measured pose.                                                          *)
(***************************************************************************)
EXTENDS Integers, Sequences, FiniteSets, SequencesExt

CONSTANTS Crew,         \* the arms a recording or a session may have
          NoBlock,
          MaxColumns    \* bound: columns of one feature

ASSUME ColumnsAssumption == IsFiniteSet(Crew) /\ NoBlock \notin Crew

ActionDims == {"x", "y", "rail"}
Joints     == <<"j1", "j2">>
StateDims  == ToSet(Joints) \cup {"gripper", "rail", "tcp"}
Foreign    == <<NoBlock, "other">>      \* a name without a known suffix
NoValue    == <<NoBlock, "nan">>        \* the arm holds
Holds      == <<NoBlock, "hold">>       \* the carriage stays where it is

VARIABLE columns      \* [of, names]: the names the manifest gives a feature

(* arm_action_names: the layout of one arm, the carriage last. *)
arm_action_names(a, railed) ==
  <<<<a, "x">>, <<a, "y">>>> \o (IF railed THEN <<<<a, "rail">>>> ELSE <<>>)

ColumnsInit == \E f \in {"action", "state"} : columns = [of |-> f, names |-> <<>>]

Name ==
  /\ Len(columns.names) < (IF columns.of = "action" THEN MaxColumns ELSE MaxColumns - 2)
  /\ columns.of = "action" => ~Contains(columns.names, Foreign)   \* refused at that name
  /\ \E n \in IF columns.of = "action" THEN (Crew \X ActionDims) \cup {Foreign}
              ELSE (Crew \X StateDims) \cup {Foreign} :
       columns' = [columns EXCEPT !.names = Append(@, n)]

-----------------------------------------------------------------------------
(* Action columns.  The loops are recursive functions of how far they have come. *)

(* Consecutive names of one arm make a run, the names from + 1 to to. *)
AddName(runs, n, i) ==
  IF runs # <<>> /\ runs[Len(runs)].arm = n[1]
  THEN [runs EXCEPT ![Len(runs)].to = i]
  ELSE Append(runs, [arm |-> n[1], from |-> i - 1, to |-> i])
Runs(names) ==
  LET upto[i \in 0..Len(names)] == IF i = 0 THEN <<>> ELSE AddName(upto[i - 1], names[i], i)
  IN  upto[Len(names)]

IsBlock(names, run) ==
  \E railed \in BOOLEAN : SubSeq(names, run.from + 1, run.to) = arm_action_names(run.arm, railed)

(* mutant: an arm may come back in a second block. *)
AnyBlocks(names) ==
  IF \A i \in DOMAIN Runs(names) : IsBlock(names, Runs(names)[i]) THEN Runs(names) ELSE <<>>

(* The blocks of an accepted column; none when the column is refused. *)
parse_action_names(names) ==
  LET runs == Runs(names) IN
  IF /\ \A i \in DOMAIN runs : IsBlock(names, runs[i])
     /\ \A i, j \in DOMAIN runs : runs[i].arm = runs[j].arm => i = j
  THEN runs ELSE <<>>

(* A session's arms in order, each with or without a track, and their columns one after another. *)
Layouts ==
  {s \in UNION {[1..n -> Crew \X BOOLEAN] : n \in 1..Cardinality(Crew)} :
     \A i, j \in DOMAIN s : s[i][1] = s[j][1] => i = j}
LayoutOf(meta) == arm_action_names(meta[1], meta[2])
Laid(session) ==
  LET upto[k \in 0..Len(session)] == IF k = 0 THEN <<>> ELSE upto[k - 1] \o LayoutOf(session[k])
  IN  upto[Len(session)]

Driven(blocks, session) ==
  {session[i][1] : i \in DOMAIN session} \cap {blocks[i].arm : i \in DOMAIN blocks}

(* ReplayActionSource: a row in the session's layout, built by name.  A    *)
(* carriage recorded without a track holds, an arm that is not recorded    *)
(* has no value; a session with none of the recorded arms is refused       *)
(* instead.  The value of a column is its own name.                        *)
Cell(names, driven, n) ==
  IF n[1] \notin driven THEN NoValue ELSE IF n \in ToSet(names) THEN n ELSE Holds

ReplayActionSource(names, session) ==
  LET driven == Driven(parse_action_names(names), session)
  IN  [i \in DOMAIN Laid(session) |-> Cell(names, driven, Laid(session)[i])]

(* split_action: each session arm's slice of a row, by the widths alone. *)
Width(meta) == Len(LayoutOf(meta))
split_action(row, session, i) ==
  LET after[k \in 0..Len(session)] == IF k = 0 THEN 0 ELSE after[k - 1] + Width(session[k])
  IN  SubSeq(row, after[i - 1] + 1, after[i])

-----------------------------------------------------------------------------
(* The measured state's columns *)

(* The last column of a name, 0 when there is none. *)
ColumnOf(names, n) ==
  LET upto[i \in 0..Len(names)] == IF i = 0 THEN 0 ELSE IF names[i] = n THEN i ELSE upto[i - 1]
  IN  upto[Len(names)]

(* The arms in the order they first appear; a pose alone names no arm. *)
note(arms, n) ==
  IF n = Foreign \/ n[2] = "tcp" \/ Contains(arms, n[1]) THEN arms ELSE Append(arms, n[1])
Named(names) ==
  LET upto[i \in 0..Len(names)] == IF i = 0 THEN <<>> ELSE note(upto[i - 1], names[i])
  IN  upto[Len(names)]

parse_state_names(names) ==
  LET arms == Named(names) IN
  IF \E i \in DOMAIN arms, j \in ToSet(Joints) : ColumnOf(names, <<arms[i], j>>) = 0 THEN <<>>
  ELSE [i \in DOMAIN arms |->
          [arm |-> arms[i],
           joints |-> [k \in DOMAIN Joints |-> ColumnOf(names, <<arms[i], Joints[k]>>)],
           gripper |-> ColumnOf(names, <<arms[i], "gripper">>),
           rail |-> ColumnOf(names, <<arms[i], "rail">>),
           tcp |-> ColumnOf(names, <<arms[i], "tcp">>)]]

-----------------------------------------------------------------------------
(* What the columns promise *)

(* A column of whole layouts of different arms, in any order. *)
WholeLayouts(names) == \E s \in Layouts : names = Laid(s)

Recorded(names, a) == \E i \in DOMAIN names : names[i][1] = a

(* What an arm of a session is to be commanded by a row of the recording. *)
Due(names, a, railed) ==
  IF ~Recorded(names, a) THEN [i \in DOMAIN arm_action_names(a, railed) |-> NoValue]
  ELSE <<<<a, "x">>, <<a, "y">>>>
       \o (IF ~railed THEN <<>>
           ELSE IF <<a, "rail">> \in ToSet(names) THEN <<<<a, "rail">>>> ELSE <<Holds>>)

(* An action column is accepted exactly when it is made of whole layouts of different arms, and a
   replayed row then gives each arm of the session its own recorded values and nobody else's,
   whatever the order of the arms on either side. *)
RowsReachTheirArms ==
  columns.of = "action" =>
    /\ (parse_action_names(columns.names) # <<>>) <=> WholeLayouts(columns.names)
    /\ WholeLayouts(columns.names) =>
         \A s \in Layouts : \A i \in DOMAIN s :
           split_action(ReplayActionSource(columns.names, s), s, i)
             = Due(columns.names, s[i][1], s[i][2])

(* An accepted measured state gives every arm that has a joint, a gripper or a carriage in it one
   entry, whose columns carry that arm's own values. *)
StatesAreNamed ==
  columns.of = "state" =>
    LET names == columns.names
        parsed == parse_state_names(names)
        arms == {n[1] : n \in {m \in ToSet(names) : m # Foreign /\ m[2] # "tcp"}}
        whole == \A a \in arms, j \in ToSet(Joints) : <<a, j>> \in ToSet(names)
    IN /\ (parsed # <<>>) <=> (whole /\ arms # {})
       /\ parsed # <<>> => /\ {parsed[i].arm : i \in DOMAIN parsed} = arms
                           /\ Len(parsed) = Cardinality(arms)
       /\ \A i \in DOMAIN parsed, k \in DOMAIN Joints :
            names[parsed[i].joints[k]] = <<parsed[i].arm, Joints[k]>>
=============================================================================
