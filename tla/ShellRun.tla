-------------------------------- MODULE ShellRun --------------------------------
(***************************************************************************)
(* The command line of ControlFlow as a shell runs it, read in step with   *)
(* the analysis: of every scope the one status and the one directory that  *)
(* its shell has there, in this run.  A stage that is skipped is read all  *)
(* the same, and changes nothing.                                          *)
(*                                                                         *)
(* The shell is Bash as the comments and tests of shellsplit describe it,  *)
(* written here without the operators of the analysis.                     *)
(***************************************************************************)
EXTENDS ControlFlow

CONSTANT Deviations     \* kinds of lines to include, see InReach

VARIABLE shells     \* one per scope: the shell that runs it

runVars == <<flowVars, shells>>

Off == "off"        \* no shell runs this scope

Shell(real, dir, group) ==
    [real |-> real, dir |-> dir, group |-> group,
     pipe |-> [runs |-> FALSE], launch |-> [real |-> Off]]

Me == shells[depth]

Alone(real) == [d \in 0..MaxDepth |->
                  IF d = 0 THEN Shell(real, Start, NoGroup) ELSE Unused]

RunInit == FlowInit /\ \E real \in {"ok", "fail"} : shells = Alone(real)

-------------------------------------------------------------------------------
(* An aborted shell reads on with the next input unit. *)
Found(stage) == IF stage.unit /\ Me.real = "abort" THEN "fail" ELSE Me.real

(* The stages of a pipeline run at once, or none does. *)
Turn(stage) ==
    IF stage.conn = "|" THEN Me.pipe
    ELSE [runs |-> Found(stage) \in CASE stage.conn = "&&" -> {"ok"}
                                      [] stage.conn = "||" -> {"fail"}
                                      [] OTHER -> {"ok", "fail"},
          real |-> Found(stage), dir |-> Me.dir]

Runs(stage) == Turn(stage).runs

(* A child shell that ends or aborts returns to the shell that waits. *)
Reported(real) == IF real = "exitOk" THEN "ok"
                  ELSE IF real \in {"exitFail", "abort"} THEN "fail" ELSE real

Result(real, child, negated) ==
    LET seen == IF child THEN Reported(real) ELSE real
    IN IF ~negated THEN seen
       ELSE IF seen = "ok" THEN "fail" ELSE IF seen = "fail" THEN "ok" ELSE seen

(* The shell after a stage that left it with real and dir. *)
Past(shell, stage, turn, found, real, dir) ==
    LET launch == IF stage.conn \in {"&&", "||", "|"} THEN shell.launch
                  ELSE [real |-> found, dir |-> shell.dir]
        parent == stage.next = "&"  \* back from a background list
    IN [shell EXCEPT
          !.real = IF ~parent THEN real
                   ELSE IF launch.real \in {"ok", "fail"} THEN "ok"
                   ELSE launch.real,
          !.dir  = IF parent THEN launch.dir ELSE dir,
          !.pipe = IF stage.next = "|" THEN turn ELSE [runs |-> FALSE],
          !.launch = IF stage.async /\ ~parent THEN launch ELSE [real |-> Off]]

Child(stage) == stage.conn = "|" \/ stage.next = "|" \/ stage.next = "&"

(* What a command does to the shell that runs it. *)
Effects(command, turn) ==
    LET ends == (command.outcomes \ {Bare}) \cup command.errors
                    \cup IF Bare \notin command.outcomes THEN {}
                         ELSE IF turn.real = "ok" THEN {"exitOk"} ELSE {"exitFail"}
    IN {effect \in ends \X Dirs :
          IF command.moves = Stay \/ effect[1] \notin {"ok", "fail"}
          THEN effect[2] = turn.dir
          ELSE command.moves # Anywhere =>
                 effect[2] = (IF effect[1] = "ok" THEN command.moves ELSE turn.dir)}

RunCommand(stage, command) ==
    LET turn  == Turn(stage)
        found == Found(stage)
    IN IF turn.runs
       THEN \E effect \in Effects(command, turn) :
              shells' = [shells EXCEPT ![depth] =
                 Past(@, stage, turn, found,
                      Result(effect[1], Child(stage), stage.negated),
                      IF Child(stage) THEN turn.dir ELSE effect[2])]
       ELSE shells' = [shells EXCEPT ![depth] =
                 Past(@, stage, turn, found, found, Me.dir)]

RunGroup(stage, subshell) ==
    LET turn == Turn(stage) IN
    shells' = [shells EXCEPT ![depth + 1] =
       Shell(IF turn.runs THEN turn.real ELSE Off,
             IF turn.runs THEN turn.dir ELSE Start,
             [stage |-> stage, turn |-> turn, found |-> Found(stage),
              child |-> subshell \/ Child(stage)])]

EndGroup ==
    LET g == Me.group IN
    shells' = [shells EXCEPT
       ![depth] = Unused,
       ![depth - 1] =
          IF g.turn.runs
          THEN Past(@, g.stage, g.turn, g.found,
                    Result(Me.real, g.child, g.stage.negated),
                    IF g.child THEN g.turn.dir ELSE Me.dir)
          ELSE Past(@, g.stage, g.turn, g.found, g.found, @.dir)]

-------------------------------------------------------------------------------
(* Lines of which the code says something else than the shell does.        *)
(* "exit in stage": exit without operand in a group that is a later stage  *)
(* of a pipeline; the code lets it find the status of the stage before.    *)
(* "negated error": a word that may fail to expand in a command that is a  *)
(* stage of a negated pipeline; the code does not invert that status.      *)
InReach(stage, command) ==
    /\ "exit in stage" \in Deviations
          \/ Bare \notin command.outcomes
          \/ \A d \in 1..depth : scopes[d].group.stage.conn # "|"
    /\ "negated error" \in Deviations
          \/ command.errors = {} \/ ~IsChild(stage) \/ ~stage.negated

Simple(stage, command) ==
    /\ InReach(stage, command)
    /\ ReadCommand(stage, command) /\ RunCommand(stage, command)

Open(stage, subshell) == OpenGroup(stage, subshell) /\ RunGroup(stage, subshell)

Close == CloseGroup /\ EndGroup

RunNext ==
    \/ \E stage \in Stages :
           \/ \E command \in Commands : Simple(stage, command)
           \/ \E subshell \in BOOLEAN : Open(stage, subshell)
    \/ Close

RunSpec == RunInit /\ [][RunNext]_runVars

-------------------------------------------------------------------------------
(* What the entry to the stage that follows depends on. *)
Entered == [conn : {Here.next}, unit : Units]

(* The outcomes said to be possible after a stage include the real one,    *)
(* and "an always-taken [...] member, an impossible member" (dep_control_-  *)
(* decision) are that: through negation, background lists, children that   *)
(* end, and aborts that only the next input unit recovers from.            *)
RunsAsSaid ==
    /\ Me.real # Off /\ Here.next # "first" => Me.real \in Here.status
    /\ \A stage \in Entered :
          LET said == Entry(stage).active IN
          /\ said = "never"  => ~Runs(stage)
          /\ said = "always" => Runs(stage)

(* The "static lexical CWD shared by all modeled paths" (shell_depgraph.h, *)
(* cwd_known): where a stage runs with a known directory, that is the      *)
(* directory its shell is in.                                              *)
CwdAsSaid ==
    \A stage \in Entered :
        Runs(stage) => Entry(stage).dir \in {Turn(stage).dir, Unknown}
===============================================================================
