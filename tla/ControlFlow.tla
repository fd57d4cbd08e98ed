------------------------------ MODULE ControlFlow ------------------------------
(***************************************************************************)
(* What the dependency graph (shellsplit/src/shell_depgraph.c) finds out   *)
(* about the control flow of a command line while it reads it once, in     *)
(* source order: which commands may run, with which status, and in which   *)
(* working directory.                                                      *)
(*                                                                         *)
(* A command line is a list of pipelines joined by ; & && ||, whose stages *)
(* are simple commands and groups; a group is a scope with a list of its   *)
(* own.  The code keeps two streams per scope: the control stream, a set   *)
(* of outcomes (dep_control_stream_advance), and the directory flow, a     *)
(* directory for every outcome (dep_cwd_begin, dep_cwd_finish).  A flow is *)
(* a function whose domain is the mask of the code.                        *)
(*                                                                         *)
(* The text is the input: each step reads the next command, the opening or *)
(* the end of a group, with the operator that follows.  What the code      *)
(* knows from looking ahead (the pipeline or the background list that a    *)
(* stage belongs to) is chosen at the first stage and kept to.  Redirects, *)
(* substitutions and the words of a command are left out: a command is     *)
(* known by what may come of it.                                           *)
(***************************************************************************)
EXTENDS Integers, FiniteSets

CONSTANTS
    Dirs,           \* directories
    Start,          \* the one the line is run in
    Commands,       \* simple commands
    MaxDepth,       \* bounds of the exploration: nesting of groups,
    MaxCommands,    \* simple commands of a line,
    MaxStages       \* simple commands and groups of a line

Unknown  == "unknown"       \* a directory the analysis does not know
Stay     == "stay"          \* a command that changes no directory
Anywhere == "anywhere"      \* cd with a dynamic operand

(* DEP_STATUS_*: a command returns, ends its shell, or aborts its input    *)
(* unit; a bare exit ends it with the status it finds.                     *)
Returning == {"ok", "fail"}
Ending     == {"exitOk", "exitFail", "abort"}
Outcomes  == Returning \cup Ending
Bare      == "exitIncoming"

(* outcomes: of the command itself; errors: of the expansion of its words. *)
Command == [outcomes : SUBSET (Outcomes \cup {Bare}), errors : SUBSET Ending,
            moves : Dirs \cup {Stay, Anywhere}]

ASSUME FlowAssumption ==
    /\ Start \in Dirs /\ {Unknown, Stay, Anywhere} \cap Dirs = {}
    /\ Commands \subseteq Command
    /\ MaxDepth \in Nat /\ MaxCommands \in Nat /\ MaxStages \in Nat

VARIABLES
    depth,      \* open groups
    scopes,     \* what is known of each scope; the command line is scope 0
    commands,   \* simple commands read so far
    groups      \* groups opened so far

flowVars == <<depth, scopes, commands, groups>>

-------------------------------------------------------------------------------
(* Outcomes *)

(* dep_status_negate *)
Inverted(o) == CASE o = "ok" -> "fail" [] o = "fail" -> "ok" [] OTHER -> o
Negate(set) == {Inverted(o) : o \in set}

(* dep_status_child_return *)
Returned(o) == CASE o = "exitOk" -> "ok"
                 [] o \in {"exitFail", "abort"} -> "fail"
                 [] OTHER -> o
ChildReturn(set) == {Returned(o) : o \in set}

Exit(o) == IF o = "ok" THEN "exitOk" ELSE "exitFail"

(* dep_status_resolve *)
Resolve(set, incoming) ==
    (set \ {Bare})
        \cup IF Bare \in set THEN {Exit(o) : o \in incoming \cap Returning} ELSE {}

(* The outcomes of what precedes with which a stage runs. *)
RunMask(conn) == CASE conn = "&&" -> {"ok"}
                   [] conn = "||" -> {"fail"}
                   [] OTHER       -> Returning

(* dep_control_decision: the status after a stage, ...                     *)
Decided(status, conn, incoming) ==
    LET run == incoming \cap RunMask(conn)
    IN (incoming \ RunMask(conn))
           \cup IF run = {} THEN {} ELSE Resolve(status, run)

(* ... and whether the stage runs.                                         *)
Certainty(conn, incoming) ==
    IF incoming \cap RunMask(conn) = {} THEN "never"
    ELSE IF incoming \subseteq RunMask(conn) THEN "always" ELSE "maybe"

(* dep_execution_compose *)
Compose(inner, outer) ==
    IF "never" \in {inner, outer} THEN "never"
    ELSE IF inner = "always" /\ outer = "always" THEN "always" ELSE "maybe"

-------------------------------------------------------------------------------
(* Directories *)

(* dep_cwd_join, of any number of directories; of none, it does not matter *)
Join(set) == IF \E d \in set : set = {d} THEN CHOOSE d \in set : TRUE
                                         ELSE Unknown

(* dep_cwd_add, of any number of pairs of an outcome and a directory *)
Flow(pairs) ==
    [o \in {p[1] : p \in pairs} |-> Join({p[2] : p \in {q \in pairs : q[1] = o}})]

PairsOf(flow, mask) == {<<o, flow[o]>> : o \in DOMAIN flow \cap mask}

(* dep_cwd_selected *)
Selected(flow, mask) == Join({flow[o] : o \in DOMAIN flow \cap mask})

-------------------------------------------------------------------------------
(* Stages.  conn and next: the operators around the stage; async: its list *)
(* ends with &; negated: its pipeline begins with !; unit: it begins a new *)
(* input unit, which only matters after an abort.                          *)

Continues == {"&&", "||", "|"}
Ends      == {";", "&"}

Here == scopes[depth]

Units == IF depth = 0 /\ Here.next \in Ends /\ "abort" \in Here.status
         THEN BOOLEAN ELSE {FALSE}

(* The stages that may follow what was read. *)
Stages ==
    {stage \in [conn : {Here.next}, next : Continues \cup Ends,
                async : IF Here.next \in Continues THEN {Here.async} ELSE BOOLEAN,
                negated : IF Here.next = "|" THEN {Here.negated} ELSE BOOLEAN,
                unit : Units] :
        stage.next \in Ends => (stage.next = "&") = stage.async}

(* A list ends with a command: there is room for those still to come.      *)
Owed(stage) ==
    Cardinality({d \in 1..depth : scopes[d].group.stage.next \in Continues})
        + (IF stage.next \in Continues THEN 1 ELSE 0)

Fits(stage, opened) ==
    /\ commands + Owed(stage) < MaxCommands
    /\ commands + groups + opened + Owed(stage) < MaxStages

(* local_process, and of a group isolated: the stage is a child shell *)
IsChild(stage) == stage.conn = "|" \/ stage.next \in {"|", "&"}

(* Recovery at a new input unit, of both streams. *)
Recovered(stage, o) == IF stage.unit /\ o = "abort" THEN "fail" ELSE o

(* Entry to a stage.  A later stage of a pipeline is entered like its      *)
(* first; yet the control stream still hands it the status of the stage    *)
(* before it.                                                              *)
Entry(stage) ==
    LET status == {Recovered(stage, o) : o \in Here.status}
        flow   == Flow({<<Recovered(stage, o), Here.flow[o]>> :
                          o \in DOMAIN Here.flow})
        later  == stage.conn = "|"
        from   == IF later THEN Here.pipe.flow ELSE flow
        run    == IF later THEN Here.pipe.run ELSE RunMask(stage.conn)
        exec   == IF later THEN Here.pipe.exec ELSE Certainty(stage.conn, status)
    IN [status |-> status, flow |-> from, run |-> run, exec |-> exec,
        active |-> Compose(exec, Here.active),
        dir |-> Selected(from, run)]

NoPipe   == [flow |-> <<>>, run |-> {}, exec |-> "never"]
NoLaunch == [status |-> {}, flow |-> <<>>]

(* The parent of a background list resumes where the list was entered,     *)
(* with success if it could be launched.                                   *)
Launched(set) == (set \cap Ending)
                     \cup IF set \cap Returning = {} THEN {} ELSE {"ok"}

Resumed(flow) ==
    Flow(PairsOf(flow, Ending)
         \cup IF DOMAIN flow \cap Returning = {} THEN {}
              ELSE {<<"ok", Selected(flow, Returning)>>})

(* The scope after a stage with this status of its own, and this flow of   *)
(* its executing outcomes.                                                 *)
After(scope, stage, entry, status, executed) ==
    LET decided  == Decided(status, stage.conn, entry.status)
        outcomes == IF stage.conn # "|" \/ entry.exec = "always" THEN decided
                    ELSE IF entry.exec = "never" THEN entry.status
                    ELSE decided \cup entry.status
        enters   == DOMAIN entry.flow \cap entry.run
        flow     == Flow(PairsOf(entry.flow, Outcomes \ entry.run)
                         \cup IF enters = {} THEN {} ELSE executed)
        launch   == IF stage.conn \in Continues THEN scope.launch
                    ELSE [status |-> entry.status, flow |-> entry.flow]
        returns  == stage.next = "&"
        pipe     == [flow |-> entry.flow, run |-> entry.run,
                     exec |-> entry.exec]
    IN [scope EXCEPT
           !.status  = IF returns THEN Launched(launch.status) ELSE outcomes,
           !.flow    = IF returns THEN Resumed(launch.flow) ELSE flow,
           !.next    = stage.next,
           !.async   = stage.async /\ ~returns,
           !.negated = stage.negated /\ stage.next = "|",
           !.launch  = IF stage.async /\ ~returns THEN launch ELSE NoLaunch,
           !.pipe    = IF stage.next = "|" THEN pipe ELSE NoPipe]

-------------------------------------------------------------------------------
(* Simple commands *)

(* event_static_status of a command: its outcomes, in a child as the child *)
(* returns them, negated with its pipeline; an error of expansion ends the *)
(* shell that runs the command, whatever precedes it.                      *)
StaticStatus(command, stage, entry) ==
    LET child    == IsChild(stage)
        outcomes == IF child
                    THEN ChildReturn(Resolve(command.outcomes,
                                             DOMAIN entry.flow \cap entry.run))
                    ELSE command.outcomes
        errors   == IF child THEN ChildReturn(command.errors)
                             ELSE command.errors
    IN (IF stage.negated THEN Negate(outcomes) ELSE outcomes) \cup errors

(* Faulty variant: a child, too, changes the directory of its parent. *)
ExecutedInParent(command, stage, entry, status) ==
    LET moved(o) == o \in Returning /\ command.moves # Stay
        dir(o)   == IF ~moved(o) THEN entry.dir
                    ELSE IF command.moves \in Dirs THEN command.moves
                    ELSE Unknown
    IN {<<o, dir(o)>> : o \in status \cap Outcomes}

(* dep_cwd_finish_command: a directory is changed by the shell itself, by  *)
(* a command that runs and succeeds; a dynamic one may have been changed   *)
(* by either outcome.                                                      *)
Executed(command, stage, entry, status) ==
    LET moved(o) == /\ ~IsChild(stage) /\ entry.active # "never"
                    /\ o \in Returning
                    /\ command.moves # Stay
                    /\ command.moves \in Dirs =>
                           o = (IF stage.negated THEN "fail" ELSE "ok")
        dir(o)   == IF ~moved(o) THEN entry.dir
                    ELSE IF command.moves \in Dirs THEN command.moves
                    ELSE Unknown
    IN {<<o, dir(o)>> : o \in status \cap Outcomes}
           \cup {<<Exit(o), entry.flow[o]>> :
                   o \in IF Bare \in status
                         THEN DOMAIN entry.flow \cap entry.run \cap Returning
                         ELSE {}}

ReadCommand(stage, command) ==
    /\ Fits(stage, 0)
    /\ LET entry  == Entry(stage)
           status == StaticStatus(command, stage, entry)
       IN scopes' = [scopes EXCEPT ![depth] =
                       After(Here, stage, entry, status,
                             Executed(command, stage, entry, status))]
    /\ commands' = commands + 1
    /\ UNCHANGED <<depth, groups>>

-------------------------------------------------------------------------------
(* Groups *)

NoGroup == [stage |-> <<>>]

Scope(status, flow, active, group) ==
    [status |-> status, flow |-> flow, active |-> active, group |-> group,
     next |-> "first", async |-> FALSE, negated |-> FALSE,
     pipe |-> NoPipe, launch |-> NoLaunch]

Unused == [next |-> "unused"]

Line == Scope(Returning, [o \in Returning |-> Start], "always", NoGroup)

FlowInit ==
    /\ depth = 0 /\ commands = 0 /\ groups = 0
    /\ scopes = [d \in 0..MaxDepth |-> IF d = 0 THEN Line ELSE Unused]

(* subshell: ( ) instead of { }.  The first command inherits the status    *)
(* that enters the list, and every outcome the selected directory.         *)
OpenGroup(stage, subshell) ==
    /\ Fits(stage, 1) /\ depth < MaxDepth
    /\ subshell => ~IsChild(stage)     \* makes no difference in a child
    /\ LET entry == Entry(stage)
           dir   == entry.dir
           group == [stage |-> stage, entry |-> entry,
                     child |-> subshell \/ IsChild(stage)]
       IN scopes' = [scopes EXCEPT ![depth + 1] =
              Scope(entry.status \cap RunMask(stage.conn),
                    [o \in DOMAIN entry.flow \cap entry.run |-> dir],
                    entry.active, group)]
    /\ depth' = depth + 1 /\ groups' = groups + 1
    /\ UNCHANGED commands

CompletionPlain(group, o) ==    \* faulty variant: the negation is forgotten
    IF group.child THEN Returned(o) ELSE o

(* dep_group_completion *)
Completion(group, o) ==
    LET result == IF group.child THEN Returned(o) ELSE o
    IN IF group.stage.negated THEN Inverted(result) ELSE result

(* The end of a group: the stage it is in its parent is complete.          *)
CloseGroup ==
    /\ depth > 0 /\ Here.next \in Ends
    /\ LET group == Here.group
           status == {Completion(group, o) : o \in Here.status}
           done == {<<Completion(group, o),
                      IF group.child THEN group.entry.dir ELSE Here.flow[o]>> :
                      o \in DOMAIN Here.flow}
       IN scopes' = [scopes EXCEPT
             ![depth] = Unused,
             ![depth - 1] = After(@, group.stage, group.entry, status, done)]
    /\ depth' = depth - 1
    /\ UNCHANGED <<commands, groups>>
===============================================================================
